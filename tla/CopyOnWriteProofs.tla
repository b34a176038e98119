------------------------- MODULE CopyOnWriteProofs -------------------------
(***************************************************************************)
(* Reference counts are right: with the types and with what keeps an       *)
(* object alive, RefsAreHolders of CopyOnWrite is inductive.  The first    *)
(* part is about a memory m and a table H of who holds which buffer.  From *)
(* the counts follows that sharing does not show, but where a write goes   *)
(* to a cell or a buffer that is not its collection's alone.               *)
(***************************************************************************)
EXTENDS CopyOnWrite, FiniteSetTheorems, SequenceTheorems, TLAPS

HoldersIn(H, b) == {h \in Holder : H[h] = b}

Stored(m) ==
  /\ DOMAIN m \subseteq Buffer
  /\ \A b \in DOMAIN m : m[b] \in [refs : Nat, cells : [Position -> Cell]]

Counted(m, H) ==
  /\ \A h \in Holder : H[h] # None => H[h] \in DOMAIN m
  /\ \A b \in DOMAIN m : m[b].refs + 1 = Cardinality(HoldersIn(H, b))

Sound(m, H) ==
  /\ Stored(m) /\ Counted(m, H)
  /\ H \in [Holder -> Buffer \union {None}]

LEMMA HoldersFinite ==
  ASSUME NEW H, NEW b
  PROVE  IsFiniteSet(HoldersIn(H, b)) /\ Cardinality(HoldersIn(H, b)) \in Nat
<1>1. IsFiniteSet(Holder)
  BY HolderAssumption, FS_Union DEF Holder
<1>2. HoldersIn(H, b) \subseteq Holder
  BY DEF HoldersIn
<1> QED BY <1>1, <1>2, FS_Subset, FS_CardinalityType

\* One more holder of b, who held nothing.
LEMMA OneMore ==
  ASSUME NEW H \in [Holder -> Buffer \union {None}], NEW h \in Holder,
         H[h] = None, NEW b \in Buffer,
         NEW G \in [Holder -> Buffer \union {None}], G[h] = b,
         \A x \in Holder : x # h => G[x] = H[x]
  PROVE  /\ Cardinality(HoldersIn(H, b)) = Cardinality(HoldersIn(G, b)) - 1
         /\ \A c \in Buffer : c # b => HoldersIn(G, c) = HoldersIn(H, c)
<1>1. b # None /\ None \notin Buffer
  BY HolderAssumption
<1>2. HoldersIn(G, b) = HoldersIn(H, b) \union {h} /\ h \notin HoldersIn(H, b)
  BY <1>1 DEF HoldersIn
<1>3. \A c \in Buffer : c # b => HoldersIn(G, c) = HoldersIn(H, c)
  BY <1>1 DEF HoldersIn
<1>4. Cardinality(HoldersIn(G, b)) = Cardinality(HoldersIn(H, b)) + 1
  BY <1>2, HoldersFinite, FS_AddElement
<1>5. Cardinality(HoldersIn(H, b)) = Cardinality(HoldersIn(G, b)) - 1
  BY <1>4, HoldersFinite
<1> QED BY <1>3, <1>5

\* clone() and getIterator(): the count goes up with the holders.
LEMMA ReferencedSound ==
  ASSUME NEW m, NEW H, Sound(m, H), NEW h \in Holder, H[h] = None,
         NEW b \in DOMAIN m
  PROVE  Sound(Referenced(m, b), [H EXCEPT ![h] = b])
<1> DEFINE u == Referenced(m, b)
<1>0. PICK G : G = [H EXCEPT ![h] = b]
  OBVIOUS
<1>1. b \in Buffer /\ DOMAIN m \subseteq Buffer
      /\ m[b] \in [refs : Nat, cells : [Position -> Cell]]
  BY DEF Sound, Stored
<1>2. /\ DOMAIN u = DOMAIN m /\ u[b].refs = m[b].refs + 1
      /\ u[b] \in [refs : Nat, cells : [Position -> Cell]]
      /\ \A c \in DOMAIN m : c # b => u[c] = m[c]
  BY <1>1 DEF Referenced
<1>3. /\ G \in [Holder -> Buffer \union {None}] /\ b # None
      /\ Cardinality(HoldersIn(H, b)) \in Nat
      /\ Cardinality(HoldersIn(G, b)) \in Nat
      /\ Cardinality(HoldersIn(H, b)) = Cardinality(HoldersIn(G, b)) - 1
      /\ \A c \in Buffer : c # b => HoldersIn(G, c) = HoldersIn(H, c)
  <2>1. /\ G \in [Holder -> Buffer \union {None}] /\ G[h] = b
        /\ \A x \in Holder : x # h => G[x] = H[x]
        /\ H \in [Holder -> Buffer \union {None}]
    BY <1>0, <1>1 DEF Sound
  <2>2. b # None
    BY HolderAssumption, <1>1
  <2> QED BY <2>1, <2>2, <1>1, OneMore, HoldersFinite
<1>4. \A x \in Holder : G[x] # None => G[x] \in DOMAIN m
  BY <1>0 DEF Sound, Counted
<1> HIDE DEF u
<1>5. Stored(u)
  BY <1>1, <1>2 DEF Sound, Stored
<1>6. ASSUME NEW c \in DOMAIN u PROVE u[c].refs + 1 = Cardinality(HoldersIn(G, c))
  <2>1. m[c].refs + 1 = Cardinality(HoldersIn(H, c)) /\ c \in Buffer
    BY <1>1, <1>2 DEF Sound, Counted
  <2>2. CASE c = b
    BY <1>1, <1>2, <1>3, <2>1, <2>2
  <2>3. CASE c # b
    BY <1>2, <1>3, <2>1, <2>3
  <2> QED BY <2>2, <2>3
<1> QED BY <1>0, <1>2, <1>3, <1>4, <1>5, <1>6 DEF Sound, Counted, u

\* A buffer that is allocated has no holder but the one it is for.
LEMMA AllocatedSound ==
  ASSUME NEW m, NEW H, Sound(m, H), NEW h \in Holder, H[h] = None,
         NEW b \in Buffer, b \notin DOMAIN m, NEW cells \in [Position -> Cell]
  PROVE  Sound(Allocated(m, b, cells), [H EXCEPT ![h] = b])
<1> DEFINE u == Allocated(m, b, cells)
<1>0. PICK G : G = [H EXCEPT ![h] = b]
  OBVIOUS
<1>1. DOMAIN m \subseteq Buffer
  BY DEF Sound, Stored
<1>2. /\ DOMAIN u = DOMAIN m \union {b} /\ u[b] = [refs |-> 0, cells |-> cells]
      /\ \A c \in DOMAIN m : u[c] = m[c]
  BY DEF Allocated
<1>3. /\ G \in [Holder -> Buffer \union {None}] /\ b # None
      /\ Cardinality(HoldersIn(H, b)) \in Nat
      /\ Cardinality(HoldersIn(G, b)) \in Nat
      /\ Cardinality(HoldersIn(H, b)) = Cardinality(HoldersIn(G, b)) - 1
      /\ \A c \in Buffer : c # b => HoldersIn(G, c) = HoldersIn(H, c)
  <2>1. /\ G \in [Holder -> Buffer \union {None}] /\ G[h] = b
        /\ \A x \in Holder : x # h => G[x] = H[x]
        /\ H \in [Holder -> Buffer \union {None}]
    BY <1>0 DEF Sound
  <2>2. b # None
    BY HolderAssumption
  <2> QED BY <2>1, <2>2, OneMore, HoldersFinite
<1>4. \A x \in Holder : G[x] # None => G[x] \in DOMAIN m \union {b}
  BY <1>0 DEF Sound, Counted
<1> HIDE DEF u
<1>5. Stored(u)
  BY <1>1, <1>2 DEF Sound, Stored
<1>6. Cardinality(HoldersIn(H, b)) = 0
  <2>1. HoldersIn(H, b) = {}
    BY <1>3 DEF Sound, Counted, HoldersIn
  <2> QED BY <2>1, FS_EmptySet
<1>7. ASSUME NEW c \in DOMAIN u PROVE u[c].refs + 1 = Cardinality(HoldersIn(G, c))
  <2>1. CASE c = b
    BY <1>2, <1>3, <1>6, <2>1
  <2>2. CASE c # b
    BY <1>1, <1>2, <1>3, <2>2 DEF Sound, Counted
  <2> QED BY <2>1, <2>2
<1> QED BY <1>0, <1>2, <1>3, <1>4, <1>5, <1>7 DEF Sound, Counted, u

\* A release gives back one reference, or the buffer with the last one.
LEMMA ReleasedSound ==
  ASSUME NEW m, NEW H, Sound(m, H), NEW h \in Holder, H[h] # None
  PROVE  /\ Sound(Released(m, H[h]), [H EXCEPT ![h] = None])
         /\ DOMAIN Released(m, H[h]) \subseteq DOMAIN m
<1> DEFINE b == H[h]
           G == [H EXCEPT ![h] = None]
           u == Released(m, b)
<1>1. /\ b \in DOMAIN m /\ DOMAIN m \subseteq Buffer /\ b # None
      /\ None \notin Buffer
      /\ m[b] \in [refs : Nat, cells : [Position -> Cell]]
      /\ H \in [Holder -> Buffer \union {None}]
  BY HolderAssumption DEF Sound, Stored, Counted
<1>2. /\ G \in [Holder -> Buffer \union {None}] /\ G[h] = None
      /\ \A x \in Holder : x # h => G[x] = H[x]
  BY <1>1
<1>3. h \in HoldersIn(H, b)
  BY DEF HoldersIn
<1> HIDE DEF b, G
<1>4. HoldersIn(G, b) = HoldersIn(H, b) \ {h}
  BY <1>1, <1>2 DEF HoldersIn
<1>5. \A c \in Buffer : c # b => HoldersIn(G, c) = HoldersIn(H, c)
  BY <1>1, <1>2 DEF HoldersIn, b
<1>6. Cardinality(HoldersIn(G, b)) = Cardinality(HoldersIn(H, b)) - 1
  BY <1>3, <1>4, HoldersFinite, FS_RemoveElement
<1>7. m[b].refs + 1 = Cardinality(HoldersIn(H, b))
  BY <1>1 DEF Sound, Counted
<1>8. CASE m[b].refs > 0
  <2>1. /\ DOMAIN u = DOMAIN m /\ u[b].refs = m[b].refs - 1
        /\ u[b] \in [refs : Nat, cells : [Position -> Cell]]
        /\ \A c \in DOMAIN m : c # b => u[c] = m[c]
    BY <1>1, <1>8 DEF Released
  <2> HIDE DEF u
  <2>2. Stored(u)
    BY <1>1, <2>1 DEF Sound, Stored
  <2>3. \A x \in Holder : G[x] # None => G[x] \in DOMAIN u
    BY <1>2, <2>1 DEF Sound, Counted
  <2>4. ASSUME NEW c \in DOMAIN u PROVE u[c].refs + 1 = Cardinality(HoldersIn(G, c))
    <3>1. CASE c = b
      BY <1>1, <1>6, <1>7, <2>1, <3>1
    <3>2. CASE c # b
      BY <1>1, <1>5, <2>1, <3>2 DEF Sound, Counted
    <3> QED BY <3>1, <3>2
  <2> QED BY <1>2, <2>1, <2>2, <2>3, <2>4 DEF Sound, Counted, b, G, u
<1>9. CASE ~ (m[b].refs > 0)
  <2>1. DOMAIN u = DOMAIN m \ {b} /\ \A c \in DOMAIN u : u[c] = m[c]
    BY <1>9 DEF Released
  <2>2. m[b].refs = 0
    BY <1>1, <1>9
  <2>3. HoldersIn(G, b) = {}
    <3>1. Cardinality(HoldersIn(G, b)) = 0
      BY <1>6, <1>7, <2>2
    <3> QED BY <3>1, HoldersFinite, FS_EmptySet
  <2> HIDE DEF u
  <2>4. Stored(u)
    BY <1>1, <2>1 DEF Sound, Stored
  <2>5. ASSUME NEW x \in Holder, G[x] # None PROVE G[x] \in DOMAIN u
    <3>1. x # h /\ G[x] = H[x]
      BY <1>2, <2>5
    <3>2. G[x] \in DOMAIN m
      BY <2>5, <3>1 DEF Sound, Counted
    <3>3. G[x] # b
      BY <2>3 DEF HoldersIn
    <3> QED BY <2>1, <3>2, <3>3
  <2>6. ASSUME NEW c \in DOMAIN u PROVE u[c].refs + 1 = Cardinality(HoldersIn(G, c))
    BY <1>1, <1>5, <2>1 DEF Sound, Counted
  <2> QED BY <1>2, <2>1, <2>4, <2>5, <2>6 DEF Sound, Counted, b, G, u
<1> QED BY <1>8, <1>9

\* What is written into the cells changes no count.
LEMMA CellsSound ==
  ASSUME NEW m, NEW H, Sound(m, H), NEW u, DOMAIN u = DOMAIN m,
         \A b \in DOMAIN m : /\ u[b] \in [refs : Nat, cells : [Position -> Cell]]
                             /\ u[b].refs = m[b].refs
  PROVE  Sound(u, H)
BY DEF Sound, Stored, Counted

\* A cell of b gets the value v, and no longer the reference it was.
LEMMA CellSound ==
  ASSUME NEW m, NEW H, Sound(m, H), NEW b \in DOMAIN m, NEW p \in Position,
         NEW c \in Cell
  PROVE  Sound([m EXCEPT ![b].cells[p] = c], H)
<1> DEFINE u == [m EXCEPT ![b].cells[p] = c]
<1>1. \A a \in DOMAIN m : m[a] \in [refs : Nat, cells : [Position -> Cell]]
  BY DEF Sound, Stored
<1>2. u[b] = [m[b] EXCEPT !.cells[p] = c] /\ DOMAIN u = DOMAIN m
      /\ \A a \in DOMAIN m : a # b => u[a] = m[a]
  OBVIOUS
<1> HIDE DEF u
<1>3. [m[b].cells EXCEPT ![p] = c] \in [Position -> Cell]
  BY <1>1
<1>4. /\ u[b] \in [refs : Nat, cells : [Position -> Cell]]
      /\ u[b].refs = m[b].refs
  BY <1>1, <1>2, <1>3
<1>5. Sound(u, H)
  BY <1>1, <1>2, <1>4, CellsSound
<1> QED BY <1>5 DEF u

LEMMA ValueCells ==
  ASSUME NEW v \in Value
  PROVE  Plain(v) \in Cell /\ \A r \in Reference : [value |-> v, ref |-> r] \in Cell
BY DEF Plain, Cell

-----------------------------------------------------------------------------
(* The state.                                                              *)

\* The parts of the types that are not about memory and holders.
RestOK ==
  /\ source \in [Iterator -> Object \union {None}]
  /\ named \subseteq Object
  /\ walks \in Seq(Walk)
  /\ fault \in {"none", "freed"}

IInv == Sound(memory, holds) /\ ReferencesResolve /\ RestOK

LEMMA InvParts == IInv <=> TypeOK /\ ReferencesResolve /\ RefsAreHolders
<1>1. Sound(memory, holds) <=>
        /\ DOMAIN memory \subseteq Buffer
        /\ \A b \in DOMAIN memory :
             /\ memory[b] = [refs |-> memory[b].refs, cells |-> memory[b].cells]
             /\ memory[b].refs \in Nat
             /\ memory[b].cells \in [Position -> Cell]
        /\ holds \in [Holder -> Buffer \union {None}]
        /\ RefsAreHolders
  BY DEF Sound, Stored, Counted, RefsAreHolders, Holders, HoldersIn
<1> QED BY <1>1 DEF IInv, RestOK, TypeOK

\* When a collection is separated, it is the one holder of its buffer or has
\* left it to the others.
LEMMA SeparatedSound ==
  ASSUME Sound(memory, holds), NEW o \in Object, holds[o] # None,
         NEW b \in Buffer, b = holds[o] \/ b \notin DOMAIN memory
  PROVE  /\ Sound(Separated(o, b), [holds EXCEPT ![o] = b])
         /\ b \in DOMAIN Separated(o, b)
<1>1. /\ o \in Holder /\ holds[o] \in DOMAIN memory
      /\ holds \in [Holder -> Buffer \union {None}]
      /\ memory[holds[o]].cells \in [Position -> Cell]
  BY DEF Holder, Sound, Counted, Stored
<1>2. CASE b = holds[o]
  <2>1. [holds EXCEPT ![o] = b] = holds
    BY <1>1, <1>2
  <2> QED BY <1>1, <1>2, <2>1 DEF Separated
<1>3. CASE b # holds[o]
  <2>1. PICK m0 : m0 = Released(memory, holds[o])
    OBVIOUS
  <2>2. PICK H0 : H0 = [holds EXCEPT ![o] = None]
    OBVIOUS
  <2>3. PICK c : c = memory[holds[o]].cells
    OBVIOUS
  <2>4. Sound(m0, H0) /\ DOMAIN m0 \subseteq DOMAIN memory
    BY <1>1, <2>1, <2>2, ReleasedSound
  <2>5. b \notin DOMAIN m0 /\ H0[o] = None
    BY <1>1, <1>3, <2>2, <2>4
  <2>6. Sound(Allocated(m0, b, c), [H0 EXCEPT ![o] = b])
    BY <1>1, <2>3, <2>4, <2>5, AllocatedSound
  <2>7. [H0 EXCEPT ![o] = b] = [holds EXCEPT ![o] = b]
    BY <1>1, <2>2
  <2>8. Separated(o, b) = Allocated(m0, b, c)
    BY <1>3, <2>1, <2>3 DEF Separated
  <2>9. b \in DOMAIN Allocated(m0, b, c)
    BY DEF Allocated
  <2> QED BY <2>6, <2>7, <2>8, <2>9
<1> QED BY <1>2, <1>3

LEMMA WritableBuffers ==
  ASSUME NEW o \in Object, NEW b \in Writable(o), Sound(memory, holds), holds[o] # None
  PROVE  b \in Buffer /\ (b = holds[o] \/ b \notin DOMAIN memory)
<1>1. holds[o] \in DOMAIN memory /\ DOMAIN memory \subseteq Buffer
  BY DEF Sound, Counted, Stored, Holder
<1> QED BY <1>1 DEF Writable, Unused

\* An object in a variable has a buffer.
LEMMA UsableHolds ==
  ASSUME IInv, NEW o \in Object, Usable(o)
  PROVE  /\ holds[o] # None /\ o \in named /\ o \in Holder
         /\ holds[o] \in DOMAIN memory
<1>1. holds[o] # None /\ o \in named /\ o \in Holder
  BY DEF IInv, Usable, ReferencesResolve, Holder
<1> QED BY <1>1 DEF IInv, Sound, Counted

\* Separating, allocating and writing end nobody's hold and begin nobody's.
LEMMA SameHolding ==
  ASSUME IInv, \A h \in Holder : holds'[h] # None <=> holds[h] # None,
         source' = source, named' = named,
         \A o \in Object : o \in named \/ (HeldByWalk(o, walks') <=> HeldByWalk(o, walks))
  PROVE  ReferencesResolve'
<1>1. \A o \in Object : HeldByIterator(o, Iterator)' <=> HeldByIterator(o, Iterator)
  BY DEF HeldByIterator
<1>2. Object \subseteq Holder /\ Iterator \subseteq Holder
  BY DEF Holder
<1>3. ReferencesResolve
  BY DEF IInv
<1>4. ASSUME NEW o \in Object
      PROVE  (o \in named \/ HeldByIterator(o, Iterator) \/ HeldByWalk(o, walks))'
               <=> holds'[o] # None
  <2>1. (o \in named \/ HeldByIterator(o, Iterator) \/ HeldByWalk(o, walks))
           <=> holds[o] # None
    BY <1>3 DEF ReferencesResolve
  <2>2. HeldByWalk(o, walks)' <=> HeldByWalk(o, walks')
    BY DEF HeldByWalk
  <2> QED BY <1>1, <1>2, <2>1, <2>2
<1>5. \A i \in Iterator : (source[i] = None)' <=> (holds[i] = None)'
  BY <1>2, <1>3 DEF ReferencesResolve
<1> QED BY <1>4, <1>5 DEF ReferencesResolve

LEMMA WalkAppended ==
  ASSUME NEW W \in Seq(Walk), NEW w \in Walk
  PROVE  /\ Append(W, w) \in Seq(Walk)
         /\ \A o : HeldByWalk(o, Append(W, w)) <=> HeldByWalk(o, W) \/ w.object = o
<1>1. /\ Append(W, w) \in Seq(Walk) /\ Len(W) \in Nat
      /\ DOMAIN W = 1 .. Len(W) /\ DOMAIN Append(W, w) = 1 .. Len(W) + 1
      /\ \A n \in 1 .. Len(W) : Append(W, w)[n] = W[n]
      /\ Append(W, w)[Len(W) + 1] = w
  OBVIOUS
<1>2. \A n \in 1 .. Len(W) + 1 : n \in 1 .. Len(W) \/ n = Len(W) + 1
  BY <1>1
<1>3. \A n \in 1 .. Len(W) : n \in 1 .. Len(W) + 1
  BY <1>1
<1>4. Len(W) + 1 \in 1 .. Len(W) + 1
  BY <1>1
<1> HIDE DEF HeldByWalk
<1>5. ASSUME NEW o
      PROVE  HeldByWalk(o, Append(W, w)) <=> HeldByWalk(o, W) \/ w.object = o
  BY <1>1, <1>2, <1>3, <1>4 DEF HeldByWalk
<1> QED BY <1>1, <1>5

LEMMA WalkDropped ==
  ASSUME NEW W \in Seq(Walk), W # << >>
  PROVE  LET V == SubSeq(W, 1, Len(W) - 1) IN
         /\ V \in Seq(Walk) /\ W[Len(W)] \in Walk
         /\ HeldByWalk(W[Len(W)].object, W)
         /\ \A o : o # W[Len(W)].object => (HeldByWalk(o, V) <=> HeldByWalk(o, W))
<1> DEFINE V == SubSeq(W, 1, Len(W) - 1)
<1>1. /\ Len(W) \in Nat \ {0} /\ DOMAIN W = 1 .. Len(W)
      /\ \A n \in 1 .. Len(W) : W[n] \in Walk
  OBVIOUS
<1>2. /\ V \in Seq(Walk) /\ Len(V) = Len(W) - 1 /\ DOMAIN V = 1 .. Len(V)
      /\ \A n \in 1 .. Len(W) - 1 : V[n] = W[n]
  <2>1. \A n \in 1 .. Len(W) - 1 : W[n] \in Walk
    BY <1>1
  <2> QED BY <1>1, <2>1, SubSeqProperties
<1> HIDE DEF V
<1>3. \A n \in 1 .. Len(W) : n \in 1 .. Len(W) - 1 \/ n = Len(W)
  <2>1. \A l \in Nat \ {0} : \A n \in 1 .. l : n \in 1 .. l - 1 \/ n = l
    OBVIOUS
  <2> QED BY <1>1, <2>1
<1>4. \A n \in 1 .. Len(W) - 1 : n \in 1 .. Len(W)
  BY <1>1
<1>5. Len(W) \in 1 .. Len(W)
  BY <1>1
<1>6. ASSUME NEW o, o # W[Len(W)].object
      PROVE  HeldByWalk(o, V) <=> HeldByWalk(o, W)
  BY <1>1, <1>2, <1>3, <1>4, <1>6 DEF HeldByWalk
<1>7. HeldByWalk(W[Len(W)].object, W)
  BY <1>1, <1>5 DEF HeldByWalk
<1> QED BY <1>1, <1>2, <1>5, <1>6, <1>7 DEF V

-----------------------------------------------------------------------------
(* The operations.                                                         *)

LEMMA InitHolds == ASSUME Init PROVE IInv
<1>1. \A b : ~ (b \in DOMAIN memory)
  BY DEF Init
<1>2. /\ holds = [h \in Holder |-> None] /\ source = [i \in Iterator |-> None]
      /\ named = {} /\ walks = << >> /\ fault = "none"
  BY DEF Init
<1>3. Sound(memory, holds)
  BY <1>1, <1>2 DEF Sound, Stored, Counted
<1>4. None \notin Object
  BY HolderAssumption
<1>5. ReferencesResolve
  BY <1>2, <1>4 DEF ReferencesResolve, HeldByIterator, HeldByWalk, Holder
<1>6. RestOK
  BY <1>2 DEF RestOK
<1> QED BY <1>3, <1>5, <1>6 DEF IInv

LEMMA NewHolds ==
  ASSUME IInv, NEW o \in Object, NEW b \in Buffer, New(o, b)
  PROVE  IInv'
<1>1. /\ holds[o] = None /\ b \notin DOMAIN memory /\ o \in Holder
      /\ holds' = [holds EXCEPT ![o] = b] /\ named' = named \union {o}
      /\ source' = source /\ walks' = walks /\ fault' = fault
  BY DEF New, Unused, Holder
<1> DEFINE cells == [p \in Position |-> Plain(Initial)]
<1>2. cells \in [Position -> Cell] /\ memory' = Allocated(memory, b, cells)
  BY ValueAssumption, ValueCells DEF New
<1> HIDE DEF cells
<1>3. Sound(memory', holds')
  BY <1>1, <1>2, AllocatedSound DEF IInv
<1>4. RestOK'
  BY <1>1 DEF IInv, RestOK
<1>5. ReferencesResolve'
  <2>1. /\ b # None /\ holds \in [Holder -> Buffer \union {None}]
        /\ Object \subseteq Holder /\ Iterator \subseteq Holder
        /\ o \notin Iterator
    BY HolderAssumption DEF IInv, Sound, Holder
  <2>2. /\ \A h \in Holder : h # o => holds'[h] = holds[h]
        /\ holds'[o] = b
    BY <1>1, <2>1
  <2>3. \A x \in Object : HeldByIterator(x, Iterator)' <=> HeldByIterator(x, Iterator)
    BY <1>1 DEF HeldByIterator
  <2>4. \A x \in Object : HeldByWalk(x, walks)' <=> HeldByWalk(x, walks)
    BY <1>1 DEF HeldByWalk
  <2>5. ReferencesResolve
    BY DEF IInv
  <2> QED BY <1>1, <2>1, <2>2, <2>3, <2>4, <2>5 DEF ReferencesResolve
<1> QED BY <1>3, <1>4, <1>5 DEF IInv

LEMMA CloneHolds ==
  ASSUME IInv, NEW o \in Object, NEW c \in Object, Clone(o, c)
  PROVE  IInv'
<1>1. /\ holds[c] = None /\ c \in Holder
      /\ memory' = Referenced(memory, holds[o])
      /\ holds' = [holds EXCEPT ![c] = holds[o]] /\ named' = named \union {c}
      /\ source' = source /\ walks' = walks /\ fault' = fault
  BY DEF Clone, Holder
<1>2. holds[o] # None /\ holds[o] \in DOMAIN memory
  BY UsableHolds DEF Clone
<1>3. Sound(memory', holds')
  BY <1>1, <1>2, ReferencedSound DEF IInv
<1>4. RestOK'
  BY <1>1 DEF IInv, RestOK
<1>5. ReferencesResolve'
  <2>1. /\ holds \in [Holder -> Buffer \union {None}]
        /\ Object \subseteq Holder /\ Iterator \subseteq Holder
        /\ c \notin Iterator
    BY HolderAssumption DEF IInv, Sound, Holder
  <2>2. /\ \A h \in Holder : h # c => holds'[h] = holds[h]
        /\ holds'[c] # None
    BY <1>1, <1>2, <2>1
  <2>3. \A x \in Object : HeldByIterator(x, Iterator)' <=> HeldByIterator(x, Iterator)
    BY <1>1 DEF HeldByIterator
  <2>4. \A x \in Object : HeldByWalk(x, walks)' <=> HeldByWalk(x, walks)
    BY <1>1 DEF HeldByWalk
  <2>5. ReferencesResolve
    BY DEF IInv
  <2> QED BY <1>1, <2>1, <2>2, <2>3, <2>4, <2>5 DEF ReferencesResolve
<1> QED BY <1>3, <1>4, <1>5 DEF IInv

LEMMA GetIteratorHolds ==
  ASSUME IInv, NEW o \in Object, NEW i \in Iterator, GetIterator(o, i)
  PROVE  IInv'
<1>1. /\ holds[i] = None /\ i \in Holder
      /\ memory' = Referenced(memory, holds[o])
      /\ holds' = [holds EXCEPT ![i] = holds[o]] /\ source' = [source EXCEPT ![i] = o]
      /\ named' = named /\ walks' = walks /\ fault' = fault
  BY DEF GetIterator, Holder
<1>2. holds[o] # None /\ holds[o] \in DOMAIN memory /\ o \in named
  BY UsableHolds DEF GetIterator
<1>3. Sound(memory', holds')
  BY <1>1, <1>2, ReferencedSound DEF IInv
<1>4. RestOK'
  BY <1>1 DEF IInv, RestOK
<1>5. ReferencesResolve'
  <2>1. /\ holds \in [Holder -> Buffer \union {None}] /\ o # None
        /\ source \in [Iterator -> Object \union {None}]
        /\ Object \subseteq Holder /\ Iterator \subseteq Holder
        /\ i \notin Object
    BY HolderAssumption DEF IInv, Sound, Holder, RestOK
  <2>2. /\ \A h \in Holder : h # i => holds'[h] = holds[h]
        /\ holds'[i] # None
        /\ \A j \in Iterator : j # i => source'[j] = source[j]
        /\ source'[i] = o
    BY <1>1, <1>2, <2>1
  <2>3. ReferencesResolve
    BY DEF IInv
  <2>4. source[i] = None
    BY <1>1, <2>3 DEF ReferencesResolve
  <2>5. \A x \in Object : x # o =>
          (HeldByIterator(x, Iterator)' <=> HeldByIterator(x, Iterator))
    BY <2>2, <2>4, HolderAssumption DEF HeldByIterator
  <2>6. \A x \in Object : HeldByWalk(x, walks)' <=> HeldByWalk(x, walks)
    BY <1>1 DEF HeldByWalk
  <2>7. \A x \in Object : (x \in named \/ HeldByIterator(x, Iterator) \/ HeldByWalk(x, walks))'
                             <=> holds'[x] # None
    BY <1>1, <1>2, <2>1, <2>2, <2>3, <2>5, <2>6 DEF ReferencesResolve
  <2>8. \A j \in Iterator : source'[j] = None <=> holds'[j] = None
    BY <2>1, <2>2, <2>3 DEF ReferencesResolve
  <2> QED BY <2>7, <2>8 DEF ReferencesResolve
<1> QED BY <1>3, <1>4, <1>5 DEF IInv

\* An object whose buffer is separated goes on holding one.
LEMMA StillHolds ==
  ASSUME IInv, NEW o \in Object, holds[o] # None, NEW b \in Buffer,
         holds' = [holds EXCEPT ![o] = b]
  PROVE  \A h \in Holder : holds'[h] # None <=> holds[h] # None
<1>1. holds \in [Holder -> Buffer \union {None}] /\ b # None
  BY HolderAssumption DEF IInv, Sound
<1> QED BY <1>1

LEMMA WriteHolds ==
  ASSUME IInv, NEW o \in Object, NEW p \in Position, NEW v \in Value, Write(o, p, v)
  PROVE  IInv'
<1>1. holds[o] # None /\ source' = source /\ named' = named /\ walks' = walks
      /\ fault' = fault
  BY UsableHolds DEF Write
<1>2. PICK b \in Writable(o) :
        /\ memory' = [Separated(o, b) EXCEPT ![b].cells[p] = Plain(v)]
        /\ holds' = [holds EXCEPT ![o] = b]
  BY DEF Write
<1>3. Sound(memory, holds)
  BY DEF IInv
<1>4. b \in Buffer /\ (b = holds[o] \/ b \notin DOMAIN memory)
  BY <1>1, <1>3, WritableBuffers
<1>5. Sound(Separated(o, b), holds') /\ b \in DOMAIN Separated(o, b)
  BY <1>1, <1>2, <1>3, <1>4, SeparatedSound
<1>6. Sound(memory', holds')
  <2>1. Plain(v) \in Cell
    BY ValueCells
  <2> QED BY <1>2, <1>5, <2>1, CellSound
<1>7. ReferencesResolve'
  <2>1. \A h \in Holder : holds'[h] # None <=> holds[h] # None
    BY <1>1, <1>2, <1>4, StillHolds
  <2> QED BY <1>1, <2>1, SameHolding
<1>8. RestOK'
  BY <1>1 DEF IInv, RestOK
<1> QED BY <1>6, <1>7, <1>8 DEF IInv

LEMMA AllocateHolds ==
  ASSUME IInv, NEW o \in Object, Allocate(o)
  PROVE  IInv'
<1>1. holds[o] # None /\ source' = source /\ named' = named /\ walks' = walks
      /\ fault' = fault
  BY UsableHolds DEF Allocate
<1>2. PICK b \in Writable(o) \union {a \in Buffer : Unused(a)} :
        memory' = Separated(o, b) /\ holds' = [holds EXCEPT ![o] = b]
  BY DEF Allocate
<1>3. Sound(memory, holds)
  BY DEF IInv
<1>4. b \in Buffer /\ (b = holds[o] \/ b \notin DOMAIN memory)
  BY <1>1, <1>2, <1>3, WritableBuffers DEF Unused
<1>5. Sound(memory', holds')
  BY <1>1, <1>2, <1>3, <1>4, SeparatedSound
<1>6. ReferencesResolve'
  <2>1. \A h \in Holder : holds'[h] # None <=> holds[h] # None
    BY <1>1, <1>2, <1>4, StillHolds
  <2> QED BY <1>1, <2>1, SameHolding
<1>7. RestOK'
  BY <1>1 DEF IInv, RestOK
<1> QED BY <1>5, <1>6, <1>7 DEF IInv

\* apply() and putAll() as they begin.
LEMMA SeparateHolds ==
  ASSUME IInv, NEW o \in Object, NEW mode \in {"writes", "puts"}, Separate(o, mode)
  PROVE  IInv'
<1>1. /\ holds[o] # None /\ o \in named
      /\ source' = source /\ named' = named /\ fault' = fault
  BY UsableHolds DEF Separate
<1>2. PICK b \in Writable(o) :
        /\ memory' = Separated(o, b) /\ holds' = [holds EXCEPT ![o] = b]
        /\ Entered(o, b, mode)
  BY DEF Separate
<1>3. Sound(memory, holds)
  BY DEF IInv
<1>4. b \in Buffer /\ (b = holds[o] \/ b \notin DOMAIN memory)
  BY <1>1, <1>3, WritableBuffers
<1>5. Sound(memory', holds')
  BY <1>1, <1>2, <1>3, <1>4, SeparatedSound
<1> DEFINE w == [object |-> o, buffer |-> b, position |-> 1, mode |-> mode]
<1>6. w \in Walk /\ walks \in Seq(Walk) /\ walks' = Append(walks, w) /\ w.object = o
  BY <1>2, <1>4, ValueAssumption DEF Walk, Entered, IInv, RestOK
<1> HIDE DEF w
<1>7. /\ walks' \in Seq(Walk)
      /\ \A x : HeldByWalk(x, walks') <=> HeldByWalk(x, walks) \/ x = o
  BY <1>6, WalkAppended
<1>8. ReferencesResolve'
  <2>1. \A h \in Holder : holds'[h] # None <=> holds[h] # None
    BY <1>1, <1>2, <1>4, StillHolds
  <2> QED BY <1>1, <1>7, <2>1, SameHolding
<1>9. RestOK'
  BY <1>1, <1>7 DEF IInv, RestOK
<1> QED BY <1>5, <1>8, <1>9 DEF IInv

LEMMA MapHolds ==
  ASSUME IInv, NEW o \in Object, Map(o)
  PROVE  IInv'
<1>1. /\ holds[o] # None /\ o \in named /\ holds[o] \in DOMAIN memory
      /\ memory' = memory /\ holds' = holds
      /\ source' = source /\ named' = named /\ fault' = fault
  BY UsableHolds DEF Map
<1>2. holds[o] \in Buffer /\ Sound(memory', holds')
  BY <1>1 DEF IInv, Sound, Stored
<1> DEFINE w == [object |-> o, buffer |-> holds[o], position |-> 1, mode |-> "reads"]
<1>3. w \in Walk /\ walks \in Seq(Walk) /\ walks' = Append(walks, w) /\ w.object = o
  BY <1>2, ValueAssumption DEF Walk, Entered, IInv, RestOK, Map
<1> HIDE DEF w
<1>4. /\ walks' \in Seq(Walk)
      /\ \A x : HeldByWalk(x, walks') <=> HeldByWalk(x, walks) \/ x = o
  BY <1>3, WalkAppended
<1>5. ReferencesResolve'
  BY <1>1, <1>4, SameHolding
<1>6. RestOK'
  BY <1>1, <1>4 DEF IInv, RestOK
<1> QED BY <1>2, <1>5, <1>6 DEF IInv

LEMMA WriteFetchedHolds ==
  ASSUME IInv, NEW o \in Object, NEW p \in Position, NEW v \in Value,
         WriteFetched(o, p, v)
  PROVE  IInv'
<1>1. /\ holds[o] \in DOMAIN memory
      /\ holds' = holds /\ source' = source /\ named' = named /\ walks' = walks
      /\ fault' = fault
  BY UsableHolds DEF WriteFetched
<1>2. Sound(memory, holds)
  BY DEF IInv
<1> DEFINE r == memory[holds[o]].cells[p].ref
<1>3. ASSUME r # None PROVE Sound(memory', holds)
  <2>1. memory' = Through(memory, r, v)
    BY <1>3 DEF WriteFetched
  <2> HIDE DEF r
  <2>2. DOMAIN memory' = DOMAIN memory
    BY <2>1 DEF Through
  <2>3. ASSUME NEW b \in DOMAIN memory
        PROVE  /\ memory'[b] \in [refs : Nat, cells : [Position -> Cell]]
               /\ memory'[b].refs = memory[b].refs
    <3>1. memory[b] \in [refs : Nat, cells : [Position -> Cell]]
      BY <1>2 DEF Sound, Stored
    <3> DEFINE c == memory[b].cells
               d == [q \in Position |->
                       IF c[q].ref = r THEN [c[q] EXCEPT !.value = v] ELSE c[q]]
    <3>2. memory'[b] = [memory[b] EXCEPT !.cells = d]
      BY <2>1 DEF Through
    <3>3. ASSUME NEW q \in Position PROVE d[q] \in Cell
      <4>1. c[q] \in Cell
        BY <3>1
      <4> HIDE DEF c
      <4>2. [c[q] EXCEPT !.value = v] \in Cell
        BY <4>1 DEF Cell
      <4> QED BY <4>1, <4>2
    <3>4. d \in [Position -> Cell]
      BY <3>3
    <3> HIDE DEF d
    <3> QED BY <3>1, <3>2, <3>4
  <2> QED BY <1>2, <2>2, <2>3, CellsSound
<1>4. ASSUME r = None PROVE Sound(memory', holds)
  <2>1. PICK fresh \in Reference :
          memory' = [memory EXCEPT ![holds[o]].cells[p] =
                       [value |-> v, ref |-> fresh]]
    BY <1>4 DEF WriteFetched
  <2> DEFINE c == [value |-> v, ref |-> fresh]
             b == holds[o]
  <2>2. c \in Cell
    BY ValueCells
  <2>3. memory' = [memory EXCEPT ![b].cells[p] = c]
    BY <2>1
  <2> HIDE DEF c, b
  <2>4. b \in DOMAIN memory
    BY <1>1 DEF b
  <2> QED BY <1>2, <2>2, <2>3, <2>4, CellSound
<1>5. Sound(memory', holds')
  BY <1>1, <1>3, <1>4
<1>6. ReferencesResolve'
  BY <1>1, SameHolding
<1>7. RestOK'
  BY <1>1 DEF IInv, RestOK
<1> QED BY <1>5, <1>6, <1>7 DEF IInv

\* An object that is let go gives back its buffer unless something keeps it.
LEMMA LetGoSound ==
  ASSUME NEW m, NEW H, Sound(m, H), NEW o \in Object, H[o] # None,
         NEW kept \in BOOLEAN, LetGo(o, kept, m, H)
  PROVE  /\ Sound(memory', holds')
         /\ \A h \in Holder : h # o => holds'[h] = H[h]
         /\ holds'[o] # None <=> kept
<1>1. o \in Holder /\ H \in [Holder -> Buffer \union {None}]
  BY DEF Holder, Sound
<1>2. CASE kept
  BY <1>2 DEF LetGo
<1>3. CASE ~kept
  <2>1. memory' = Released(m, H[o]) /\ holds' = [H EXCEPT ![o] = None]
    BY <1>3 DEF LetGo
  <2>2. Sound(memory', holds')
    BY <1>1, <2>1, ReleasedSound
  <2> QED BY <1>1, <1>3, <2>1, <2>2
<1> QED BY <1>2, <1>3

\* Letting go of the object o, whom nothing else keeps but what is left.
LEMMA LetGoResolves ==
  ASSUME ReferencesResolve, NEW o \in Object,
         \A h \in Object : h # o => holds'[h] = holds[h],
         \A i \in Iterator : source'[i] = None <=> holds'[i] = None,
         holds'[o] # None <=>
           (o \in named \/ HeldByIterator(o, Iterator) \/ HeldByWalk(o, walks))',
         \A x \in Object : x # o =>
           /\ x \in named' <=> x \in named
           /\ HeldByIterator(x, Iterator)' <=> HeldByIterator(x, Iterator)
           /\ HeldByWalk(x, walks)' <=> HeldByWalk(x, walks)
  PROVE  ReferencesResolve'
BY DEF ReferencesResolve

LEMMA UnsetHolds ==
  ASSUME IInv, NEW o \in Object, Unset(o)
  PROVE  IInv'
<1>1. /\ holds[o] # None /\ named' = named \ {o}
      /\ source' = source /\ walks' = walks /\ fault' = fault
  BY UsableHolds DEF Unset
<1>2. PICK kept \in BOOLEAN :
        kept <=> HeldByIterator(o, Iterator) \/ HeldByWalk(o, walks)
  OBVIOUS
<1>3. LetGo(o, kept, memory, holds)
  BY <1>2 DEF Unset, LetGo
<1>4. /\ Sound(memory', holds')
      /\ \A h \in Holder : h # o => holds'[h] = holds[h]
      /\ holds'[o] # None <=> kept
  BY <1>1, <1>3, LetGoSound DEF IInv
<1>5. /\ Object \subseteq Holder /\ Iterator \subseteq Holder /\ o \notin Iterator
      /\ ReferencesResolve
  BY HolderAssumption DEF Holder, IInv
<1>6. \A x \in Object :
        /\ HeldByIterator(x, Iterator)' <=> HeldByIterator(x, Iterator)
        /\ HeldByWalk(x, walks)' <=> HeldByWalk(x, walks)
  BY <1>1 DEF HeldByIterator, HeldByWalk
<1>7. \A i \in Iterator : source'[i] = None <=> holds'[i] = None
  BY <1>1, <1>4, <1>5 DEF ReferencesResolve
<1>8. holds'[o] # None <=>
        (o \in named \/ HeldByIterator(o, Iterator) \/ HeldByWalk(o, walks))'
  BY <1>1, <1>2, <1>4, <1>6
<1>9. ReferencesResolve'
  BY <1>1, <1>4, <1>5, <1>6, <1>7, <1>8, LetGoResolves
<1>10. RestOK'
  BY <1>1 DEF IInv, RestOK
<1> QED BY <1>4, <1>9, <1>10 DEF IInv

LEMMA DropIteratorHolds ==
  ASSUME IInv, NEW i \in Iterator, DropIterator(i)
  PROVE  IInv'
<1> DEFINE m == Released(memory, holds[i])
           H == [holds EXCEPT ![i] = None]
<1>0. PICK o : o = source[i]
  OBVIOUS
<1>1. /\ holds[i] # None /\ source' = [source EXCEPT ![i] = None]
      /\ named' = named /\ walks' = walks /\ fault' = fault
  BY DEF DropIterator
<1>2. /\ Object \subseteq Holder /\ Iterator \subseteq Holder /\ i \notin Object
      /\ None \notin Object
      /\ ReferencesResolve /\ Sound(memory, holds)
      /\ holds \in [Holder -> Buffer \union {None}]
      /\ source \in [Iterator -> Object \union {None}]
  BY HolderAssumption DEF Holder, IInv, Sound, RestOK
<1>3. o \in Object /\ o # i
  BY <1>0, <1>1, <1>2 DEF ReferencesResolve
<1>4. HeldByIterator(o, Iterator) /\ holds[o] # None
  BY <1>0, <1>2, <1>3 DEF HeldByIterator, ReferencesResolve
<1>5. Sound(m, H)
  BY <1>1, <1>2, ReleasedSound
<1>6. H[o] # None /\ H[i] = None /\ \A h \in Holder : h # i => H[h] = holds[h]
  BY <1>2, <1>3, <1>4
<1>7. PICK kept \in BOOLEAN :
        kept <=> o \in named \/ HeldByIterator(o, Iterator \ {i}) \/ HeldByWalk(o, walks)
  OBVIOUS
<1>8. LetGo(o, kept, m, H)
  BY <1>0, <1>7 DEF DropIterator, LetGo
<1> HIDE DEF m, H
<1>9. /\ Sound(memory', holds')
      /\ \A h \in Holder : h # o => holds'[h] = H[h]
      /\ holds'[o] # None <=> kept
  BY <1>3, <1>5, <1>6, <1>8, LetGoSound
<1>10. /\ source'[i] = None
       /\ \A j \in Iterator : j # i => source'[j] = source[j]
  BY <1>1, <1>2
<1>11. \A x \in Object :
         HeldByIterator(x, Iterator)' <=> HeldByIterator(x, Iterator \ {i})
  BY <1>2, <1>10 DEF HeldByIterator
<1>12. \A x \in Object : x # o =>
         (HeldByIterator(x, Iterator \ {i}) <=> HeldByIterator(x, Iterator))
  BY <1>0 DEF HeldByIterator
<1>13. \A x \in Object : HeldByWalk(x, walks)' <=> HeldByWalk(x, walks)
  BY <1>1 DEF HeldByWalk
<1>14. \A h \in Object : h # o => holds'[h] = holds[h]
  BY <1>2, <1>6, <1>9
<1>15. \A j \in Iterator : source'[j] = None <=> holds'[j] = None
  <2>1. o \notin Iterator
    BY <1>3, HolderAssumption
  <2>2. holds'[i] = None
    BY <1>2, <1>3, <1>6, <1>9
  <2>3. \A j \in Iterator : j # i => holds'[j] = holds[j]
    BY <1>2, <1>6, <1>9, <2>1
  <2> QED BY <1>2, <1>10, <2>2, <2>3 DEF ReferencesResolve
<1>16. holds'[o] # None <=>
         (o \in named' \/ HeldByIterator(o, Iterator)' \/ HeldByWalk(o, walks)')
  BY <1>1, <1>3, <1>7, <1>9, <1>11, <1>13
<1>17. \A x \in Object :
         (x \in named' \/ HeldByIterator(x, Iterator)' \/ HeldByWalk(x, walks)')
            <=> holds'[x] # None
  <2>1. ASSUME NEW x \in Object, x # o
        PROVE  (x \in named' \/ HeldByIterator(x, Iterator)' \/ HeldByWalk(x, walks)')
                  <=> holds'[x] # None
    BY <1>1, <1>2, <1>11, <1>12, <1>13, <1>14, <2>1 DEF ReferencesResolve
  <2> QED BY <1>16, <2>1
<1>18. ReferencesResolve'
  BY <1>15, <1>17 DEF ReferencesResolve
<1>19. RestOK'
  BY <1>1, <1>2 DEF IInv, RestOK
<1> QED BY <1>9, <1>18, <1>19 DEF IInv

\* The walk that goes on is the same walk one position further.
LEMMA WalkMoved ==
  ASSUME NEW W \in Seq(Walk), W # << >>, W[Len(W)].position <= Length
  PROVE  LET V == [W EXCEPT ![Len(W)].position = @ + 1] IN
         /\ V \in Seq(Walk)
         /\ \A o : HeldByWalk(o, V) <=> HeldByWalk(o, W)
<1> DEFINE l == Len(W)
           V == [W EXCEPT ![l].position = @ + 1]
<1>1. /\ l \in Nat \ {0} /\ DOMAIN W = 1 .. l
      /\ \A n \in 1 .. l : W[n] \in Walk
  OBVIOUS
<1>2. Len(W) = l /\ W \in [1 .. l -> Walk]
  OBVIOUS
<1> HIDE DEF l
<1>3. l \in 1 .. l
  BY <1>1
<1>4. W[l] \in Walk
  BY <1>1, <1>3
<1>5. W[l].position \in 1 .. Length + 1 /\ W[l].position <= Length /\ Length \in Nat
  BY <1>2, <1>4, ValueAssumption DEF Walk
<1>6. W[l].position + 1 \in 1 .. Length + 1
  BY <1>5
<1> DEFINE w == [W[l] EXCEPT !.position = @ + 1]
<1>7. w \in Walk /\ w.object = W[l].object
  BY <1>4, <1>6 DEF Walk
<1>8. V = [W EXCEPT ![l] = w]
  OBVIOUS
<1> HIDE DEF w
<1>9. /\ V \in [1 .. l -> Walk] /\ V[l] = w
      /\ \A n \in 1 .. l : n # l => V[n] = W[n]
  BY <1>2, <1>3, <1>7, <1>8
<1> HIDE DEF V
<1>10. V \in Seq(Walk) /\ DOMAIN V = 1 .. l
  BY <1>1, <1>9
<1>11. \A n \in 1 .. l : V[n].object = W[n].object
  BY <1>7, <1>9
<1>12. ASSUME NEW o PROVE HeldByWalk(o, V) <=> HeldByWalk(o, W)
  BY <1>1, <1>10, <1>11 DEF HeldByWalk
<1> QED BY <1>10, <1>12 DEF V, l

LEMMA WalkOnHolds ==
  ASSUME IInv, NEW v \in Value, WalkOn(v)
  PROVE  IInv'
<1>1. /\ walks # << >> /\ walks \in Seq(Walk) /\ Last.position <= Length
      /\ holds' = holds /\ source' = source /\ named' = named
  BY DEF WalkOn, Running, IInv, RestOK
<1>2. Sound(memory, holds)
  BY DEF IInv
<1>3. CASE Target \in DOMAIN memory
  <2>1. /\ walks' = [walks EXCEPT ![Len(walks)].position = @ + 1]
        /\ fault' = fault
    BY <1>3 DEF WalkOn
  <2>2. /\ walks' \in Seq(Walk)
        /\ \A o : HeldByWalk(o, walks') <=> HeldByWalk(o, walks)
    BY <1>1, <2>1, WalkMoved DEF Last
  <2>3. Last.position \in Position
    <3>1. Last \in Walk
      BY <1>1, WalkDropped DEF Last
    <3>2. Last.position \in 1 .. Length + 1 /\ Length \in Nat
      BY <3>1, ValueAssumption DEF Walk
    <3> QED BY <1>1, <3>2 DEF Position
  <2>4. Sound(memory', holds')
    <3>1. CASE Last.mode = "reads"
      BY <1>1, <1>2, <1>3, <3>1 DEF WalkOn
    <3>2. CASE Last.mode # "reads"
      <4>1. PICK b \in DOMAIN memory : b = Target
        BY <1>3
      <4>2. PICK p \in Position : p = Last.position
        BY <2>3
      <4>3. memory' = [memory EXCEPT ![b].cells[p] = Plain(v)]
        BY <1>3, <3>2, <4>1, <4>2 DEF WalkOn
      <4>4. Plain(v) \in Cell
        BY ValueCells
      <4>5. Sound([memory EXCEPT ![b].cells[p] = Plain(v)], holds)
        BY <1>2, <4>4, CellSound
      <4> QED BY <1>1, <4>3, <4>5
    <3> QED BY <3>1, <3>2
  <2>5. ReferencesResolve'
    BY <1>1, <2>2, SameHolding
  <2>6. RestOK'
    BY <1>1, <2>1, <2>2 DEF IInv, RestOK
  <2> QED BY <2>4, <2>5, <2>6 DEF IInv
<1>4. CASE Target \notin DOMAIN memory
  <2>1. fault' = "freed" /\ memory' = memory /\ walks' = walks
    BY <1>4 DEF WalkOn
  <2>2. ReferencesResolve'
    BY <1>1, <2>1, SameHolding
  <2>3. RestOK'
    BY <1>1, <2>1 DEF IInv, RestOK
  <2> QED BY <1>1, <1>2, <2>1, <2>2, <2>3 DEF IInv
<1> QED BY <1>3, <1>4

LEMMA ReturnHolds == ASSUME IInv, Return PROVE IInv'
<1>1. /\ walks # << >> /\ walks \in Seq(Walk)
      /\ walks' = SubSeq(walks, 1, Len(walks) - 1)
      /\ source' = source /\ named' = named /\ fault' = fault
  BY DEF Return, IInv, RestOK
<1>2. PICK o : o = Last.object
  OBVIOUS
<1>3. /\ walks' \in Seq(Walk) /\ o \in Object /\ HeldByWalk(o, walks)
      /\ \A x : x # o => (HeldByWalk(x, walks') <=> HeldByWalk(x, walks))
  BY <1>1, <1>2, WalkDropped DEF Last, Walk
<1>4. /\ ReferencesResolve /\ holds[o] # None
      /\ Object \subseteq Holder /\ Iterator \subseteq Holder /\ o \notin Iterator
  BY <1>3, HolderAssumption DEF IInv, ReferencesResolve, Holder
<1>5. PICK kept \in BOOLEAN :
        kept <=> o \in named \/ HeldByIterator(o, Iterator) \/ HeldByWalk(o, walks')
  OBVIOUS
<1>6. LetGo(o, kept, memory, holds)
  BY <1>2, <1>5 DEF Return, LetGo
<1>7. /\ Sound(memory', holds')
      /\ \A h \in Holder : h # o => holds'[h] = holds[h]
      /\ holds'[o] # None <=> kept
  BY <1>3, <1>4, <1>6, LetGoSound DEF IInv
<1>8. \A x \in Object :
        /\ HeldByIterator(x, Iterator)' <=> HeldByIterator(x, Iterator)
        /\ HeldByWalk(x, walks)' <=> HeldByWalk(x, walks')
  BY <1>1 DEF HeldByIterator, HeldByWalk
<1>9. \A i \in Iterator : source'[i] = None <=> holds'[i] = None
  BY <1>1, <1>4, <1>7 DEF ReferencesResolve
<1>10. holds'[o] # None <=>
         (o \in named \/ HeldByIterator(o, Iterator) \/ HeldByWalk(o, walks))'
  BY <1>1, <1>3, <1>5, <1>7, <1>8
<1>11. ReferencesResolve'
  BY <1>1, <1>3, <1>4, <1>7, <1>8, <1>9, <1>10, LetGoResolves
<1>12. RestOK'
  BY <1>1, <1>3 DEF IInv, RestOK
<1> QED BY <1>7, <1>11, <1>12 DEF IInv

LEMMA StutterHolds == ASSUME IInv, UNCHANGED vars PROVE IInv'
<1>1. /\ memory' = memory /\ holds' = holds /\ source' = source
      /\ named' = named /\ walks' = walks /\ fault' = fault
  BY DEF vars
<1>2. ReferencesResolve'
  BY <1>1, SameHolding
<1> QED BY <1>1, <1>2 DEF IInv, RestOK

-----------------------------------------------------------------------------
LEMMA NextHolds == ASSUME IInv, [Next]_vars PROVE IInv'
<1>1. CASE UNCHANGED vars
  BY <1>1, StutterHolds
<1>2. CASE \E o \in Object, b \in Buffer : New(o, b)
  BY <1>2, NewHolds
<1>3. CASE \E o, c \in Object : Clone(o, c)
  BY <1>3, CloneHolds
<1>4. CASE \E o \in Object, i \in Iterator : GetIterator(o, i)
  BY <1>4, GetIteratorHolds
<1>5. ASSUME NEW o \in Object, NEW p \in Position, NEW v \in Value,
             Write(o, p, v) \/ WriteFetched(o, p, v)
      PROVE  IInv'
  BY <1>5, WriteHolds, WriteFetchedHolds
<1>6. ASSUME NEW o \in Object,
             Allocate(o) \/ Unset(o) \/ Apply(o) \/ PutAll(o) \/ Map(o)
      PROVE  IInv'
  BY <1>6, AllocateHolds, UnsetHolds, SeparateHolds, MapHolds DEF Apply, PutAll
<1>7. CASE \E i \in Iterator : DropIterator(i)
  BY <1>7, DropIteratorHolds
<1>8. CASE \E v \in Value : WalkOn(v)
  BY <1>8, WalkOnHolds
<1>9. CASE Return
  BY <1>9, ReturnHolds
<1>10. CASE Stopped
  BY <1>10, StutterHolds DEF Stopped
<1> QED BY <1>1, <1>2, <1>3, <1>4, <1>5, <1>6, <1>7, <1>8, <1>9, <1>10 DEF Next

\* Every execution keeps the counts, the types and what keeps objects alive.
LEMMA Invariant == Spec => []IInv
<1>1. Init => IInv
  BY InitHolds
<1>2. IInv /\ [Next]_vars => IInv'
  BY NextHolds
<1> QED BY <1>1, <1>2, PTL DEF Spec

\* Buffers, holders, walks and what they refer to keep their types.
THEOREM TypeCorrect == Spec => []TypeOK
<1>1. IInv => TypeOK
  BY InvParts
<1> QED BY <1>1, Invariant, PTL

\* An object has a buffer exactly as long as a variable, an iterator or a method
\* under way refers to it (php_seq_iterator.c:4-12, php_seq_handlers.c:103-112).
THEOREM ObjectsLiveWhileReferred == Spec => []ReferencesResolve
<1>1. IInv => ReferencesResolve
  BY InvParts
<1> QED BY <1>1, Invariant, PTL

\* However many collections and iterators share a buffer, and wherever callbacks
\* clone, change or drop them, the count is that of the holders: a buffer is
\* freed with its last holder and never before (ds_seq.c:97-113, 215-226).
THEOREM BuffersCountHolders == Spec => []RefsAreHolders
<1>1. IInv => RefsAreHolders
  BY InvParts
<1> QED BY <1>1, Invariant, PTL

-----------------------------------------------------------------------------
(* What the holders show, for a memory m and a table H of who holds what.    *)

Sees(cells) == [p \in Position |-> cells[p].value]

Showing(m, H, h) == IF H[h] = None THEN None ELSE Sees(m[H[h]].cells)

ShownIn(m, H) == [h \in Holder |-> Showing(m, H, h)]

\* u and G show what m and H do, but for h.
SameBut(u, G, m, H, h) == \A g \in Holder : g # h => Showing(u, G, g) = Showing(m, H, g)

\* The references of u are those of m, where they were.
RefsFrom(u, m) ==
  \A b \in DOMAIN u : \A p \in Position :
    \/ u[b].cells[p].ref = None
    \/ \E a \in DOMAIN m : u[b].cells[p].ref = m[a].cells[p].ref

\* u and G show what m and H do, but for h, which shows x.
ShowsNow(u, G, m, H, h, x) == ShownIn(u, G) = [ShownIn(m, H) EXCEPT ![h] = x]

LEMMA ShownIs ==
  /\ Shown = ShownIn(memory, holds)
  /\ Shown' = ShownIn(memory', holds')
BY DEF Shown, ShownIn, Showing, Sees

LEMMA ShownBut ==
  ASSUME NEW u, NEW G, NEW m, NEW H, NEW h \in Holder, SameBut(u, G, m, H, h)
  PROVE  ShownIn(u, G) = [ShownIn(m, H) EXCEPT ![h] = Showing(u, G, h)]
BY DEF ShownIn, SameBut

LEMMA ShownAll ==
  ASSUME NEW u, NEW G, NEW m, NEW H, NEW h \in Holder, SameBut(u, G, m, H, h),
         Showing(u, G, h) = Showing(m, H, h)
  PROVE  ShownIn(u, G) = ShownIn(m, H)
BY DEF ShownIn, SameBut

\* The one holder of b is h.
LEMMA SoleHolder ==
  ASSUME NEW m, NEW H, Sound(m, H), NEW h \in Holder, H[h] # None, m[H[h]].refs = 0
  PROVE  HoldersIn(H, H[h]) = {h}
<1> DEFINE b == H[h]
<1>1. Cardinality(HoldersIn(H, b)) = 1 /\ IsFiniteSet(HoldersIn(H, b))
  <2>1. m[b].refs + 1 = Cardinality(HoldersIn(H, b))
    BY DEF Sound, Counted
  <2> QED BY <2>1, HoldersFinite
<1>2. PICK x : HoldersIn(H, b) = {x}
  BY <1>1, FS_Singleton
<1>3. h \in HoldersIn(H, b)
  BY DEF HoldersIn
<1> QED BY <1>2, <1>3

\* clone() and getIterator() show the same once more.
LEMMA ReferencedShows ==
  ASSUME NEW m, NEW H, Sound(m, H), NEW h \in Holder, H[h] = None,
         NEW g \in Holder, H[g] # None
  PROVE  /\ ShownIn(Referenced(m, H[g]), [H EXCEPT ![h] = H[g]])
               = [ShownIn(m, H) EXCEPT ![h] = Showing(m, H, g)]
         /\ RefsFrom(Referenced(m, H[g]), m)
<1> DEFINE b == H[g]
           u == Referenced(m, b)
           G == [H EXCEPT ![h] = b]
<1>1. /\ b \in DOMAIN m /\ b # None /\ H \in [Holder -> Buffer \union {None}]
      /\ \A c \in DOMAIN m : m[c] \in [refs : Nat, cells : [Position -> Cell]]
      /\ \A x \in Holder : H[x] # None => H[x] \in DOMAIN m
  BY DEF Sound, Counted, Stored
<1>2. DOMAIN u = DOMAIN m /\ \A c \in DOMAIN m : u[c].cells = m[c].cells
  BY <1>1 DEF Referenced
<1>3. G[h] = b /\ \A x \in Holder : x # h => G[x] = H[x]
  BY <1>1
<1> HIDE DEF u, G
<1>4. SameBut(u, G, m, H, h)
  BY <1>1, <1>2, <1>3 DEF SameBut, Showing
<1>5. Showing(u, G, h) = Showing(m, H, g)
  BY <1>1, <1>2, <1>3 DEF Showing
<1>6. ShownIn(u, G) = [ShownIn(m, H) EXCEPT ![h] = Showing(m, H, g)]
  BY <1>4, <1>5, ShownBut
<1>7. RefsFrom(u, m)
  BY <1>2 DEF RefsFrom
<1> QED BY <1>6, <1>7 DEF u, G

\* A buffer that is allocated shows its cells.
LEMMA AllocatedShows ==
  ASSUME NEW m, NEW H, Sound(m, H), NEW h \in Holder, H[h] = None,
         NEW b \in Buffer, b \notin DOMAIN m, NEW cells
  PROVE  ShowsNow(Allocated(m, b, cells), [H EXCEPT ![h] = b], m, H, h, Sees(cells))
<1> DEFINE u == Allocated(m, b, cells)
           G == [H EXCEPT ![h] = b]
<1>1. /\ b # None /\ H \in [Holder -> Buffer \union {None}]
      /\ \A x \in Holder : H[x] # None => H[x] \in DOMAIN m
  BY HolderAssumption DEF Sound, Counted
<1>2. u[b].cells = cells /\ \A c \in DOMAIN m : u[c] = m[c]
  BY DEF Allocated
<1>3. G[h] = b /\ \A x \in Holder : x # h => G[x] = H[x]
  BY <1>1
<1> HIDE DEF u, G
<1>4. SameBut(u, G, m, H, h)
  BY <1>1, <1>2, <1>3 DEF SameBut, Showing
<1>5. Showing(u, G, h) = Sees(cells)
  BY <1>1, <1>2, <1>3 DEF Showing
<1>6. ShowsNow(u, G, m, H, h, Sees(cells))
  BY <1>4, <1>5, ShownBut DEF ShowsNow
<1> QED BY <1>6 DEF u, G

\* The cells that are allocated are plain ones or copies.
LEMMA AllocatedRefs ==
  ASSUME NEW m, NEW b, NEW cells, NEW w, RefsFrom(m, w),
         \A p \in Position : cells[p].ref = None \/ \E a \in DOMAIN w : cells[p].ref = w[a].cells[p].ref
  PROVE  RefsFrom(Allocated(m, b, cells), w)
<1> DEFINE u == Allocated(m, b, cells)
<1>1. /\ DOMAIN u = DOMAIN m \union {b} /\ u[b].cells = cells
      /\ \A c \in DOMAIN m : c # b => u[c] = m[c]
  BY DEF Allocated
<1> HIDE DEF u
<1>2. ASSUME NEW c \in DOMAIN u, NEW p \in Position
      PROVE  \/ u[c].cells[p].ref = None
             \/ \E a \in DOMAIN w : u[c].cells[p].ref = w[a].cells[p].ref
  <2>1. CASE c = b
    BY <1>1, <2>1
  <2>2. CASE c # b
    BY <1>1, <2>2 DEF RefsFrom
  <2> QED BY <2>1, <2>2
<1>3. RefsFrom(u, w)
  BY <1>2 DEF RefsFrom
<1> QED BY <1>3 DEF u

\* Who lets go shows nothing any more; what the others show stays.
LEMMA ReleasedShows ==
  ASSUME NEW m, NEW H, Sound(m, H), NEW h \in Holder, H[h] # None
  PROVE  /\ ShownIn(Released(m, H[h]), [H EXCEPT ![h] = None])
               = [ShownIn(m, H) EXCEPT ![h] = None]
         /\ RefsFrom(Released(m, H[h]), m)
<1> DEFINE b == H[h]
           u == Released(m, b)
           G == [H EXCEPT ![h] = None]
<1>1. /\ b \in DOMAIN m /\ H \in [Holder -> Buffer \union {None}]
      /\ \A c \in DOMAIN m : m[c] \in [refs : Nat, cells : [Position -> Cell]]
  BY DEF Sound, Counted, Stored
<1>2. Sound(u, G) /\ DOMAIN u \subseteq DOMAIN m
  BY ReleasedSound
<1>3. \A c \in DOMAIN u : u[c].cells = m[c].cells
  BY <1>1 DEF Released
<1>4. G[h] = None /\ \A x \in Holder : x # h => G[x] = H[x]
  BY <1>1
<1> HIDE DEF u, G
<1>5. \A x \in Holder : G[x] # None => G[x] \in DOMAIN u
  BY <1>2 DEF Sound, Counted
<1>6. SameBut(u, G, m, H, h)
  BY <1>3, <1>4, <1>5 DEF SameBut, Showing
<1>7. Showing(u, G, h) = None
  BY <1>4 DEF Showing
<1>8. ShownIn(u, G) = [ShownIn(m, H) EXCEPT ![h] = None]
  BY <1>6, <1>7, ShownBut
<1>9. RefsFrom(u, m)
  BY <1>2, <1>3 DEF RefsFrom
<1> QED BY <1>8, <1>9 DEF u, G

LEMMA RefsFromSelf == \A m : RefsFrom(m, m)
BY DEF RefsFrom

\* Separating shows nothing; and what is writable is o's alone.
LEMMA SeparatedShows ==
  ASSUME Sound(memory, holds), NEW o \in Object, holds[o] # None,
         NEW b \in Buffer, b = holds[o] \/ b \notin DOMAIN memory
  PROVE  /\ ShownIn(Separated(o, b), [holds EXCEPT ![o] = b]) = ShownIn(memory, holds)
         /\ RefsFrom(Separated(o, b), memory)
         /\ b \in Writable(o) => HoldersIn([holds EXCEPT ![o] = b], b) = {o}
<1>1. /\ o \in Holder /\ holds[o] \in DOMAIN memory /\ None \notin Buffer
      /\ holds \in [Holder -> Buffer \union {None}]
      /\ memory[holds[o]] \in [refs : Nat, cells : [Position -> Cell]]
  BY HolderAssumption DEF Holder, Sound, Counted, Stored
<1>2. PICK G : G = [holds EXCEPT ![o] = b]
  OBVIOUS
<1>3. PICK u : u = Separated(o, b)
  OBVIOUS
<1>4. Sound(u, G) /\ G[o] = b /\ b # None
  BY <1>1, <1>2, <1>3, SeparatedSound
<1>5. CASE b = holds[o]
  <2>1. G = holds /\ u = memory
    BY <1>1, <1>2, <1>3, <1>5 DEF Separated
  <2>2. b \in Writable(o) => memory[b].refs = 0
    BY <1>1, <1>5 DEF Writable, Unused
  <2>3. b \in Writable(o) => HoldersIn(G, b) = {o}
    BY <1>1, <1>5, <2>1, <2>2, SoleHolder
  <2> QED BY <1>2, <1>3, <2>1, <2>3, RefsFromSelf
<1>6. CASE b # holds[o]
  <2>1. PICK m0 : m0 = Released(memory, holds[o])
    OBVIOUS
  <2>2. PICK H0 : H0 = [holds EXCEPT ![o] = None]
    OBVIOUS
  <2>3. PICK c : c = memory[holds[o]].cells
    OBVIOUS
  <2>4. /\ Sound(m0, H0) /\ DOMAIN m0 \subseteq DOMAIN memory
        /\ ShownIn(m0, H0) = [ShownIn(memory, holds) EXCEPT ![o] = None]
        /\ RefsFrom(m0, memory)
    BY <1>1, <2>1, <2>2, ReleasedSound, ReleasedShows
  <2>5. b \notin DOMAIN m0 /\ H0[o] = None
    BY <1>1, <1>6, <2>2, <2>4
  <2>6. u = Allocated(m0, b, c) /\ G = [H0 EXCEPT ![o] = b]
    BY <1>1, <1>2, <1>3, <1>6, <2>1, <2>2, <2>3 DEF Separated
  <2>7. ShownIn(u, G) = [ShownIn(m0, H0) EXCEPT ![o] = Sees(c)]
    <3>1. ShowsNow(Allocated(m0, b, c), [H0 EXCEPT ![o] = b], m0, H0, o, Sees(c))
      BY <1>1, <2>4, <2>5, AllocatedShows
    <3> QED BY <2>6, <3>1 DEF ShowsNow
  <2>8. ShownIn(memory, holds)[o] = Sees(c)
    BY <1>1, <2>3 DEF ShownIn, Showing
  <2>9. ShownIn(u, G) = ShownIn(memory, holds)
    BY <1>1, <2>4, <2>7, <2>8 DEF ShownIn
  <2>10. RefsFrom(u, memory)
    BY <1>1, <2>3, <2>4, <2>6, AllocatedRefs
  <2>11. u[b].refs = 0
    BY <2>6 DEF Allocated
  <2>12. HoldersIn(G, b) = {o}
    BY <1>1, <1>4, <2>11, SoleHolder
  <2> QED BY <1>2, <1>3, <2>9, <2>10, <2>12
<1> QED BY <1>5, <1>6

\* A cell of a buffer that o holds alone shows in o alone.
LEMMA CellShows ==
  ASSUME NEW m, NEW H, Sound(m, H), NEW b \in DOMAIN m, NEW p \in Position,
         NEW c \in Cell, NEW o \in Holder, HoldersIn(H, b) = {o}
  PROVE  /\ o \in Holder /\ H[o] = b
         /\ ShownIn([m EXCEPT ![b].cells[p] = c], H)
               = [ShownIn(m, H) EXCEPT ![o] = [@ EXCEPT ![p] = c.value]]
<1> DEFINE u == [m EXCEPT ![b].cells[p] = c]
<1>1. \A a \in DOMAIN m : m[a] \in [refs : Nat, cells : [Position -> Cell]]
  BY DEF Sound, Stored
<1>2. u[b] = [m[b] EXCEPT !.cells[p] = c] /\ DOMAIN u = DOMAIN m
      /\ \A a \in DOMAIN m : a # b => u[a] = m[a]
  OBVIOUS
<1> HIDE DEF u
<1>3. u[b].cells = [m[b].cells EXCEPT ![p] = c]
  BY <1>1, <1>2
<1>4. Sees(u[b].cells) = [Sees(m[b].cells) EXCEPT ![p] = c.value]
  BY <1>1, <1>3 DEF Sees
<1>5. o \in Holder /\ H[o] = b /\ b # None
  <2>1. H[o] = b
    BY DEF HoldersIn
  <2>2. b \in Buffer
    BY DEF Sound, Stored
  <2> QED BY <2>1, <2>2, HolderAssumption
<1>6. SameBut(u, H, m, H, o)
  BY <1>2 DEF SameBut, Showing, HoldersIn, Sound, Counted
<1>7. Showing(u, H, o) = [ShownIn(m, H)[o] EXCEPT ![p] = c.value]
  BY <1>4, <1>5 DEF Showing, ShownIn
<1>8. ShownIn(u, H) = [ShownIn(m, H) EXCEPT ![o] = [@ EXCEPT ![p] = c.value]]
  BY <1>6, <1>7, ShownBut
<1> QED BY <1>5, <1>8 DEF u

\* A plain cell is no reference.
LEMMA CellRefs ==
  ASSUME NEW m, NEW w, RefsFrom(m, w), NEW b \in DOMAIN m, NEW p \in Position, NEW v,
         \A a \in DOMAIN m : m[a] \in [refs : Nat, cells : [Position -> Cell]]
  PROVE  RefsFrom([m EXCEPT ![b].cells[p] = Plain(v)], w)
<1> DEFINE u == [m EXCEPT ![b].cells[p] = Plain(v)]
<1>1. u[b] = [m[b] EXCEPT !.cells[p] = Plain(v)] /\ DOMAIN u = DOMAIN m
      /\ \A a \in DOMAIN m : a # b => u[a] = m[a]
  OBVIOUS
<1> HIDE DEF u
<1>2. /\ u[b].cells[p].ref = None
      /\ \A q \in Position : q # p => u[b].cells[q] = m[b].cells[q]
  BY <1>1 DEF Plain
<1>3. ASSUME NEW c \in DOMAIN u, NEW q \in Position
      PROVE  \/ u[c].cells[q].ref = None
             \/ \E a \in DOMAIN w : u[c].cells[q].ref = w[a].cells[q].ref
  <2>1. u[c].cells[q].ref = None \/ u[c].cells[q] = m[c].cells[q]
    BY <1>1, <1>2
  <2> QED BY <1>1, <2>1 DEF RefsFrom
<1>4. RefsFrom(u, w)
  BY <1>3 DEF RefsFrom
<1> QED BY <1>4 DEF u

-----------------------------------------------------------------------------
(* A PHP reference stays at the position where it was made, whatever buffers *)
(* come to share it.                                                         *)

RefPlaced(m) ==
  \A b, c \in DOMAIN m : \A p, q \in Position :
    m[b].cells[p].ref # None /\ m[b].cells[p].ref = m[c].cells[q].ref => p = q

LEMMA PlacedFrom ==
  ASSUME NEW m, NEW u, RefPlaced(m), RefsFrom(u, m)
  PROVE  RefPlaced(u)
<1>1. ASSUME NEW b \in DOMAIN u, NEW c \in DOMAIN u, NEW p \in Position, NEW q \in Position,
             u[b].cells[p].ref # None, u[b].cells[p].ref = u[c].cells[q].ref
      PROVE  p = q
  <2>1. PICK d \in DOMAIN m : u[b].cells[p].ref = m[d].cells[p].ref
    BY <1>1 DEF RefsFrom
  <2>2. PICK e \in DOMAIN m : u[c].cells[q].ref = m[e].cells[q].ref
    BY <1>1 DEF RefsFrom
  <2>3. m[d].cells[p].ref # None /\ m[d].cells[p].ref = m[e].cells[q].ref
    BY <1>1, <2>1, <2>2
  <2> QED BY <2>3 DEF RefPlaced
<1> QED BY <1>1 DEF RefPlaced

\* What the program shows changes as one of the independent copies does, but
\* for the two ways in which a write reaches another holder.
Independent ==
  \/ \E o \in Object, p \in Position, v \in Value : WriteFetched(o, p, v) /\ SeenElsewhere(o, p)
  \/ (\E v \in Value : WalkOn(v)) /\ Last.mode # "reads" /\ Astray
  \/ [IC!Next]_Shown

LEMMA ShownFacts ==
  ASSUME IInv
  PROVE  \A h \in Holder :
           /\ holds[h] = None => Shown[h] = None
           /\ holds[h] # None => Shown[h] = Showing(memory, holds, h)
                                 /\ Shown[h] \in [Position -> Value] /\ Shown[h] # None
<1>1. ASSUME NEW h \in Holder, holds[h] # None
      PROVE  Showing(memory, holds, h) \in [Position -> Value]
  <2>1. /\ memory[holds[h]] \in [refs : Nat, cells : [Position -> Cell]]
    BY <1>1 DEF IInv, Sound, Counted, Stored
  <2> DEFINE c == memory[holds[h]].cells
  <2>2. c \in [Position -> Cell]
    BY <2>1
  <2> HIDE DEF c
  <2>3. Sees(c) \in [Position -> Value]
    BY <2>2 DEF Sees, Cell
  <2> QED BY <1>1, <2>3 DEF Showing, c
<1>2. \A h \in Holder : Shown[h] = Showing(memory, holds, h)
  BY ShownIs DEF ShownIn
<1> QED BY <1>1, <1>2, NoneAssumption DEF Showing

LEMMA InitShows == Init => IC!Init /\ RefPlaced(memory)
<1> SUFFICES ASSUME Init PROVE IC!Init /\ RefPlaced(memory)
  OBVIOUS
<1>1. DOMAIN memory = {} /\ holds = [h \in Holder |-> None]
  BY DEF Init
<1> QED BY <1>1 DEF IC!Init, Shown, RefPlaced

LEMMA NewShows ==
  ASSUME IInv, NEW o \in Object, NEW b \in Buffer, New(o, b)
  PROVE  IC!Next /\ RefsFrom(memory', memory)
<1> DEFINE cells == [p \in Position |-> Plain(Initial)]
<1>1. /\ holds[o] = None /\ b \notin DOMAIN memory /\ o \in Holder
      /\ holds' = [holds EXCEPT ![o] = b] /\ memory' = Allocated(memory, b, cells)
  BY DEF New, Unused, Holder
<1>2. Sound(memory, holds)
  BY DEF IInv
<1>3. \A p \in Position : cells[p].ref = None
  BY DEF Plain
<1>4. Sees(cells) \in [Position -> Value]
  BY ValueAssumption DEF Sees, Plain
<1> HIDE DEF cells
<1>5. ShowsNow(Allocated(memory, b, cells), [holds EXCEPT ![o] = b],
               memory, holds, o, Sees(cells))
  BY <1>1, <1>2, AllocatedShows
<1>6. Shown' = [Shown EXCEPT ![o] = Sees(cells)]
  BY <1>1, <1>5, ShownIs DEF ShowsNow
<1>7. IC!Make(o, Sees(cells))
  BY <1>1, <1>6, ShownFacts DEF IC!Make
<1>8. RefsFrom(memory', memory)
  BY <1>1, <1>3, RefsFromSelf, AllocatedRefs
<1> QED BY <1>1, <1>4, <1>7, <1>8 DEF IC!Next

\* A holder h is made of what g shows.
LEMMA CopyShows ==
  ASSUME IInv, NEW g \in Holder, NEW h \in Holder, holds[g] # None, holds[h] = None,
         memory' = Referenced(memory, holds[g]), holds' = [holds EXCEPT ![h] = holds[g]]
  PROVE  IC!Next /\ RefsFrom(memory', memory)
<1>1. Sound(memory, holds)
  BY DEF IInv
<1>2. /\ ShownIn(Referenced(memory, holds[g]), [holds EXCEPT ![h] = holds[g]])
            = [ShownIn(memory, holds) EXCEPT ![h] = Showing(memory, holds, g)]
      /\ RefsFrom(Referenced(memory, holds[g]), memory)
  BY <1>1, ReferencedShows
<1>3. Shown' = [Shown EXCEPT ![h] = Showing(memory, holds, g)]
  BY <1>2, ShownIs
<1>4. Shown' = [Shown EXCEPT ![h] = Shown[g]] /\ Shown[g] # None /\ Shown[h] = None
  BY <1>3, ShownFacts
<1>5. IC!Copy(g, h)
  BY <1>4 DEF IC!Copy, IC!Make
<1> QED BY <1>2, <1>5 DEF IC!Next

LEMMA CloneShows ==
  ASSUME IInv, NEW o \in Object, NEW c \in Object, Clone(o, c)
  PROVE  IC!Next /\ RefsFrom(memory', memory)
<1>1. holds[o] # None /\ o \in Holder /\ c \in Holder
  BY UsableHolds DEF Clone, Holder
<1> QED BY <1>1, CopyShows DEF Clone

LEMMA GetIteratorShows ==
  ASSUME IInv, NEW o \in Object, NEW i \in Iterator, GetIterator(o, i)
  PROVE  IC!Next /\ RefsFrom(memory', memory)
<1>1. holds[o] # None /\ o \in Holder /\ i \in Holder
  BY UsableHolds DEF GetIterator, Holder
<1> QED BY <1>1, CopyShows DEF GetIterator

\* Separating and reallocating show nothing.
LEMMA SeparationShows ==
  ASSUME IInv, NEW o \in Object, holds[o] # None,
         NEW b \in Writable(o) \union {a \in Buffer : Unused(a)},
         memory' = Separated(o, b), holds' = [holds EXCEPT ![o] = b]
  PROVE  Shown' = Shown /\ RefsFrom(memory', memory)
<1>1. Sound(memory, holds)
  BY DEF IInv
<1>2. b \in Buffer /\ (b = holds[o] \/ b \notin DOMAIN memory)
  BY <1>1, WritableBuffers DEF Unused
<1>3. /\ ShownIn(Separated(o, b), [holds EXCEPT ![o] = b]) = ShownIn(memory, holds)
      /\ RefsFrom(Separated(o, b), memory)
  BY <1>1, <1>2, SeparatedShows
<1> QED BY <1>3, ShownIs

\* A write to a buffer that o holds alone changes what o shows.
LEMMA WriteShows ==
  ASSUME IInv, NEW o \in Object, NEW p \in Position, NEW v \in Value, Write(o, p, v)
  PROVE  IC!Next /\ RefsFrom(memory', memory)
<1>1. holds[o] # None /\ o \in Holder
  BY UsableHolds DEF Write, Holder
<1>2. PICK b \in Writable(o) :
        /\ memory' = [Separated(o, b) EXCEPT ![b].cells[p] = Plain(v)]
        /\ holds' = [holds EXCEPT ![o] = b]
  BY DEF Write
<1>3. Sound(memory, holds)
  BY DEF IInv
<1>4. b \in Buffer /\ (b = holds[o] \/ b \notin DOMAIN memory)
  BY <1>1, <1>3, WritableBuffers
<1>5. PICK u : u = Separated(o, b)
  OBVIOUS
<1>6. PICK G : G = [holds EXCEPT ![o] = b]
  OBVIOUS
<1>7. /\ Sound(u, G) /\ b \in DOMAIN u
      /\ ShownIn(u, G) = Shown /\ RefsFrom(u, memory) /\ HoldersIn(G, b) = {o}
  BY <1>1, <1>3, <1>4, <1>5, <1>6, SeparatedSound, SeparatedShows, ShownIs
<1>8. Plain(v) \in Cell /\ Plain(v).value = v
  BY ValueCells DEF Plain
<1>9. memory' = [u EXCEPT ![b].cells[p] = Plain(v)] /\ holds' = G
  BY <1>2, <1>5, <1>6
<1>10. ShownIn([u EXCEPT ![b].cells[p] = Plain(v)], G)
          = [ShownIn(u, G) EXCEPT ![o] = [@ EXCEPT ![p] = Plain(v).value]]
  BY <1>1, <1>7, <1>8, CellShows
<1>11. Shown' = [Shown EXCEPT ![o] = [@ EXCEPT ![p] = v]]
  BY <1>7, <1>8, <1>9, <1>10, ShownIs
<1>12. IC!Write(o, p, v)
  BY <1>1, <1>11, ShownFacts DEF IC!Write
<1>13. RefsFrom(memory', memory)
  <2>1. \A a \in DOMAIN u : u[a] \in [refs : Nat, cells : [Position -> Cell]]
    BY <1>7 DEF Sound, Stored
  <2>2. RefsFrom([u EXCEPT ![b].cells[p] = Plain(v)], memory)
    BY <1>7, <2>1, CellRefs
  <2> QED BY <1>9, <2>2
<1> QED BY <1>1, <1>12, <1>13 DEF IC!Next

LEMMA AllocateShows ==
  ASSUME IInv, NEW o \in Object, Allocate(o)
  PROVE  Shown' = Shown /\ RefsFrom(memory', memory)
<1>1. holds[o] # None
  BY UsableHolds DEF Allocate
<1>2. PICK b \in Writable(o) \union {a \in Buffer : Unused(a)} :
        memory' = Separated(o, b) /\ holds' = [holds EXCEPT ![o] = b]
  BY DEF Allocate
<1> QED BY <1>1, <1>2, SeparationShows

LEMMA SeparateShows ==
  ASSUME IInv, NEW o \in Object, NEW mode, Separate(o, mode)
  PROVE  Shown' = Shown /\ RefsFrom(memory', memory)
<1>1. holds[o] # None
  BY UsableHolds DEF Separate
<1>2. PICK b \in Writable(o) :
        memory' = Separated(o, b) /\ holds' = [holds EXCEPT ![o] = b]
  BY DEF Separate
<1> QED BY <1>1, <1>2, SeparationShows

\* A fetched cell whose buffer and reference nothing else has is o's alone.
LEMMA ThroughShows ==
  ASSUME IInv, RefPlaced(memory), NEW o \in Object, NEW p \in Position, NEW v \in Value,
         holds[o] # None, ~SeenElsewhere(o, p),
         NEW r, r = memory[holds[o]].cells[p].ref, r # None,
         memory' = Through(memory, r, v), holds' = holds
  PROVE  Shown' = [Shown EXCEPT ![o] = [@ EXCEPT ![p] = v]]
<1> DEFINE b == holds[o]
<1>1. /\ Sound(memory, holds) /\ o \in Holder /\ b \in DOMAIN memory
      /\ \A a \in DOMAIN memory : memory[a] \in [refs : Nat, cells : [Position -> Cell]]
  BY DEF IInv, Holder, Sound, Counted, Stored
<1>2. HoldersIn(holds, b) = {o}
  <2>1. memory[b].refs = 0
    <3>1. memory[b].refs \in Nat
      BY <1>1
    <3> QED BY <3>1 DEF SeenElsewhere
  <2>2. b # None
    OBVIOUS
  <2> QED BY ONLY <1>1, <2>1, <2>2, SoleHolder
<1>3. \A a \in DOMAIN memory : a # b =>
        \A q \in Position : memory[a].cells[q].ref # r
  BY DEF SeenElsewhere
<1>4. \A q \in Position : memory[b].cells[q].ref = r => q = p
  BY <1>1 DEF RefPlaced
<1> HIDE DEF b
<1>5. ASSUME NEW a \in DOMAIN memory
      PROVE  Sees(memory'[a].cells) =
               [q \in Position |-> IF memory[a].cells[q].ref = r THEN v
                                   ELSE memory[a].cells[q].value]
  <2> DEFINE c == memory[a].cells
             d == [q \in Position |->
                     IF c[q].ref = r THEN [c[q] EXCEPT !.value = v] ELSE c[q]]
  <2>1. memory'[a] = [memory[a] EXCEPT !.cells = d]
    BY DEF Through
  <2>2. memory'[a].cells = d
    BY <1>1, <2>1
  <2>3. \A q \in Position : c[q] \in Cell
    BY <1>1
  <2> HIDE DEF c
  <2>4. \A q \in Position : d[q].value = IF c[q].ref = r THEN v ELSE c[q].value
    BY <2>3 DEF Cell
  <2> HIDE DEF d
  <2> QED BY <2>2, <2>4 DEF Sees, c
<1>6. SameBut(memory', holds, memory, holds, o)
  <2>1. ASSUME NEW h \in Holder, h # o, holds[h] # None
        PROVE  Sees(memory'[holds[h]].cells) = Sees(memory[holds[h]].cells)
    <3>1. holds[h] \in DOMAIN memory /\ holds[h] # b
      BY <1>1, <1>2, <2>1 DEF HoldersIn, Sound, Counted
    <3> QED BY <1>3, <1>5, <3>1 DEF Sees
  <2> QED BY <2>1 DEF SameBut, Showing
<1>7. Showing(memory', holds, o) = [Shown[o] EXCEPT ![p] = v]
  <2>1. Showing(memory', holds, o) = Sees(memory'[b].cells)
    BY DEF Showing, b
  <2>2. Shown[o] = Sees(memory[b].cells)
    BY <1>1, ShownFacts DEF Showing, b
  <2>3. memory[b].cells[p].ref = r
    BY DEF b
  <2>4. \A q \in Position : (memory[b].cells[q].ref = r) <=> q = p
    BY <1>4, <2>3
  <2>5. Sees(memory'[b].cells) = [Sees(memory[b].cells) EXCEPT ![p] = v]
    BY <1>1, <1>5, <2>4 DEF Sees
  <2> QED BY <2>1, <2>2, <2>5
<1>8. ShownIn(memory', holds) = [ShownIn(memory, holds) EXCEPT ![o] = Showing(memory', holds, o)]
  BY <1>1, <1>6, ShownBut
<1> QED BY <1>7, <1>8, ShownIs

LEMMA WriteFetchedShows ==
  ASSUME IInv, RefPlaced(memory), NEW o \in Object, NEW p \in Position, NEW v \in Value,
         WriteFetched(o, p, v)
  PROVE  SeenElsewhere(o, p) \/ IC!Next
<1> SUFFICES ASSUME ~SeenElsewhere(o, p) PROVE IC!Next
  OBVIOUS
<1> DEFINE r == memory[holds[o]].cells[p].ref
           b == holds[o]
<1>1. /\ b # None /\ b \in DOMAIN memory /\ holds' = holds
      /\ Sound(memory, holds) /\ o \in Holder
  BY UsableHolds DEF WriteFetched, IInv, Holder
<1>2. Shown' = [Shown EXCEPT ![o] = [@ EXCEPT ![p] = v]]
  <2>1. CASE r # None
    <3>1. memory' = Through(memory, r, v)
      BY <2>1 DEF WriteFetched
    <3> QED BY <1>1, <2>1, <3>1, ThroughShows
  <2>2. CASE r = None
    <3>1. PICK fresh \in Reference :
            memory' = [memory EXCEPT ![holds[o]].cells[p] =
                         [value |-> v, ref |-> fresh]]
      BY <2>2 DEF WriteFetched
    <3> DEFINE c == [value |-> v, ref |-> fresh]
    <3>2. c \in Cell /\ c.value = v
      BY ValueCells
    <3>3. HoldersIn(holds, b) = {o}
      <4>1. memory[b].refs = 0
        <5>1. memory[b].refs \in Nat
          BY <1>1 DEF Sound, Stored
        <5> QED BY <5>1 DEF SeenElsewhere
      <4> QED BY <1>1, <4>1, SoleHolder
    <3>4. memory' = [memory EXCEPT ![b].cells[p] = c]
      BY <3>1
    <3> HIDE DEF c, b
    <3>5. ShownIn([memory EXCEPT ![b].cells[p] = c], holds)
             = [ShownIn(memory, holds) EXCEPT ![o] = [@ EXCEPT ![p] = c.value]]
      BY <1>1, <3>2, <3>3, CellShows
    <3> QED BY <1>1, <3>2, <3>4, <3>5, ShownIs
  <2> QED BY <2>1, <2>2
<1>3. IC!Write(o, p, v)
  BY <1>1, <1>2, ShownFacts DEF IC!Write
<1> QED BY <1>1, <1>3 DEF IC!Next

LEMMA WriteFetchedPlaces ==
  ASSUME IInv, RefPlaced(memory), NEW o \in Object, NEW p \in Position, NEW v \in Value,
         WriteFetched(o, p, v)
  PROVE  RefPlaced(memory')
<1> DEFINE r == memory[holds[o]].cells[p].ref
           b == holds[o]
<1>1. /\ b # None /\ b \in DOMAIN memory
      /\ \A a \in DOMAIN memory : memory[a] \in [refs : Nat, cells : [Position -> Cell]]
  BY UsableHolds DEF WriteFetched, IInv, Sound, Stored
<1>2. CASE r # None
  <2>1. memory' = Through(memory, r, v)
    BY <1>2 DEF WriteFetched
  <2> HIDE DEF r
  <2>2. DOMAIN memory' = DOMAIN memory
    BY <2>1 DEF Through
  <2>3. ASSUME NEW a \in DOMAIN memory, NEW q \in Position
        PROVE  memory'[a].cells[q].ref = memory[a].cells[q].ref
    <3> DEFINE c == memory[a].cells
               d == [x \in Position |->
                       IF c[x].ref = r THEN [c[x] EXCEPT !.value = v] ELSE c[x]]
    <3>1. memory'[a] = [memory[a] EXCEPT !.cells = d]
      BY <2>1 DEF Through
    <3>2. memory'[a].cells = d
      BY <1>1, <3>1
    <3>3. c[q] \in Cell
      BY <1>1
    <3> HIDE DEF c
    <3>4. d[q].ref = c[q].ref
      BY <3>3 DEF Cell
    <3> HIDE DEF d
    <3> QED BY <3>2, <3>4 DEF c
  <2>4. RefsFrom(memory', memory)
    BY <2>2, <2>3 DEF RefsFrom
  <2> QED BY <2>4, PlacedFrom
<1>3. CASE r = None
  <2>1. PICK fresh \in Reference :
          /\ ~ReferredTo(fresh)
          /\ memory' = [memory EXCEPT ![holds[o]].cells[p] =
                          [value |-> v, ref |-> fresh]]
    BY <1>3 DEF WriteFetched
  <2>2. memory'[b] = [memory[b] EXCEPT !.cells[p] = [value |-> v, ref |-> fresh]]
        /\ DOMAIN memory' = DOMAIN memory
        /\ \A a \in DOMAIN memory : a # b => memory'[a] = memory[a]
    BY <1>1, <2>1
  <2> HIDE DEF b, r
  <2>3. /\ memory'[b].cells[p].ref = fresh
        /\ \A q \in Position : q # p => memory'[b].cells[q] = memory[b].cells[q]
    BY <1>1, <2>2
  <2>4. \A a \in DOMAIN memory : \A q \in Position : memory[a].cells[q].ref # fresh
    BY <2>1 DEF ReferredTo
  <2>5. ASSUME NEW a \in DOMAIN memory, NEW q \in Position
        PROVE  \/ a = b /\ q = p
               \/ /\ memory'[a].cells[q] = memory[a].cells[q]
                  /\ memory'[a].cells[q].ref # fresh
    <3>1. CASE a = b
      BY <2>3, <2>4, <3>1
    <3>2. CASE a # b
      BY <2>2, <2>4, <3>2
    <3> QED BY <3>1, <3>2
  <2>6. ASSUME NEW a \in DOMAIN memory, NEW c \in DOMAIN memory,
               NEW x \in Position, NEW y \in Position,
               memory'[a].cells[x].ref # None,
               memory'[a].cells[x].ref = memory'[c].cells[y].ref
        PROVE  x = y
    <3>1. CASE memory'[a].cells[x].ref = fresh
      <4>1. a = b /\ x = p
        BY <2>5, <3>1
      <4>2. c = b /\ y = p
        BY <2>5, <2>6, <3>1
      <4> QED BY <4>1, <4>2
    <3>2. CASE memory'[a].cells[x].ref # fresh
      <4>1. /\ memory'[a].cells[x] = memory[a].cells[x]
            /\ memory'[c].cells[y] = memory[c].cells[y]
        BY <2>3, <2>5, <2>6, <3>2
      <4> QED BY <2>6, <4>1 DEF RefPlaced
    <3> QED BY <3>1, <3>2
  <2> QED BY <2>2, <2>6 DEF RefPlaced
<1> QED BY <1>2, <1>3

\* What is let go shows nothing, or what it did as long as it is kept.
Without(s, S) == [h \in Holder |-> IF h \in S THEN None ELSE s[h]]

LEMMA LetGoShows ==
  ASSUME NEW m, NEW H, Sound(m, H), NEW o \in Object, H[o] # None,
         NEW kept, LetGo(o, kept, m, H)
  PROVE  /\ \E S \in SUBSET {o} : Shown' = Without(ShownIn(m, H), S)
         /\ RefsFrom(memory', m)
<1>1. o \in Holder
  BY DEF Holder
<1>2. CASE kept
  <2>1. memory' = m /\ holds' = H
    BY <1>2 DEF LetGo
  <2>2. Shown' = Without(ShownIn(m, H), {})
    BY <2>1, ShownIs DEF Without, ShownIn
  <2> QED BY <2>1, <2>2, RefsFromSelf
<1>3. CASE ~kept
  <2>1. memory' = Released(m, H[o]) /\ holds' = [H EXCEPT ![o] = None]
    BY <1>3 DEF LetGo
  <2>2. /\ ShownIn(memory', holds') = [ShownIn(m, H) EXCEPT ![o] = None]
        /\ RefsFrom(memory', m)
    BY <1>1, <2>1, ReleasedShows
  <2>3. Shown' = Without(ShownIn(m, H), {o})
    BY <2>2, ShownIs DEF Without, ShownIn
  <2> QED BY <2>2, <2>3
<1> QED BY <1>2, <1>3

\* Dropping one holder and then others is dropping them all.
LEMMA WithoutDrops ==
  ASSUME NEW S \in SUBSET Holder, Shown' = Without(Shown, S)
  PROVE  IC!Next
<1>1. IC!Drop(S)
  BY DEF IC!Drop, Without
<1> QED BY <1>1 DEF IC!Next

LEMMA UnsetShows ==
  ASSUME IInv, NEW o \in Object, Unset(o)
  PROVE  IC!Next /\ RefsFrom(memory', memory)
<1>1. holds[o] # None /\ Sound(memory, holds)
  BY UsableHolds DEF Unset, IInv
<1>2. PICK kept : LetGo(o, kept, memory, holds)
  BY DEF Unset
<1>3. /\ \E S \in SUBSET {o} : Shown' = Without(ShownIn(memory, holds), S)
      /\ RefsFrom(memory', memory)
  BY <1>1, <1>2, LetGoShows
<1>4. PICK S \in SUBSET {o} : Shown' = Without(Shown, S)
  BY <1>3, ShownIs
<1>5. S \in SUBSET Holder
  BY DEF Holder
<1> QED BY <1>3, <1>4, <1>5, WithoutDrops

LEMMA ReturnShows ==
  ASSUME IInv, Return
  PROVE  IC!Next /\ RefsFrom(memory', memory)
<1>1. /\ walks # << >> /\ walks \in Seq(Walk)
  BY DEF Return, IInv, RestOK
<1>2. PICK o : o = Last.object
  OBVIOUS
<1>3. o \in Object /\ HeldByWalk(o, walks)
  BY <1>1, <1>2, WalkDropped DEF Last, Walk
<1>4. holds[o] # None /\ Sound(memory, holds)
  BY <1>3 DEF IInv, ReferencesResolve
<1>5. PICK kept : LetGo(o, kept, memory, holds)
  BY <1>2 DEF Return
<1>6. /\ \E S \in SUBSET {o} : Shown' = Without(ShownIn(memory, holds), S)
      /\ RefsFrom(memory', memory)
  BY <1>3, <1>4, <1>5, LetGoShows
<1>7. PICK S \in SUBSET {o} : Shown' = Without(Shown, S)
  BY <1>6, ShownIs
<1>8. S \in SUBSET Holder
  BY <1>3 DEF Holder
<1> QED BY <1>6, <1>7, <1>8, WithoutDrops

LEMMA DropIteratorShows ==
  ASSUME IInv, NEW i \in Iterator, DropIterator(i)
  PROVE  IC!Next /\ RefsFrom(memory', memory)
<1> DEFINE m == Released(memory, holds[i])
           H == [holds EXCEPT ![i] = None]
<1>0. PICK o : o = source[i]
  OBVIOUS
<1>1. holds[i] # None
  BY DEF DropIterator
<1>2. /\ Object \subseteq Holder /\ Iterator \subseteq Holder /\ i \notin Object
      /\ ReferencesResolve /\ Sound(memory, holds)
      /\ holds \in [Holder -> Buffer \union {None}]
      /\ source \in [Iterator -> Object \union {None}]
  BY HolderAssumption DEF Holder, IInv, Sound, RestOK
<1>3. o \in Object /\ o # i
  BY <1>0, <1>1, <1>2 DEF ReferencesResolve
<1>4. holds[o] # None
  BY <1>0, <1>2, <1>3 DEF HeldByIterator, ReferencesResolve
<1>5. /\ Sound(m, H) /\ RefsFrom(m, memory)
      /\ ShownIn(m, H) = [ShownIn(memory, holds) EXCEPT ![i] = None]
  BY <1>1, <1>2, ReleasedSound, ReleasedShows
<1>6. H[o] # None
  BY <1>2, <1>3, <1>4
<1>7. PICK kept : LetGo(o, kept, m, H)
  BY <1>0 DEF DropIterator
<1> HIDE DEF m, H
<1>8. /\ \E S \in SUBSET {o} : Shown' = Without(ShownIn(m, H), S)
      /\ RefsFrom(memory', m)
  BY <1>3, <1>5, <1>6, <1>7, LetGoShows
<1>9. PICK S \in SUBSET {o} : Shown' = Without(ShownIn(m, H), S)
  BY <1>8
<1>10. Shown' = Without(Shown, S \union {i})
  BY <1>5, <1>9, ShownIs DEF Without, ShownIn
<1>11. S \union {i} \in SUBSET Holder
  BY <1>2, <1>3
<1>12. RefsFrom(memory', memory)
  <2>1. ASSUME NEW b \in DOMAIN memory', NEW p \in Position, memory'[b].cells[p].ref # None
        PROVE  \E a \in DOMAIN memory : memory'[b].cells[p].ref = memory[a].cells[p].ref
    <3>1. PICK c \in DOMAIN m : memory'[b].cells[p].ref = m[c].cells[p].ref
      BY <1>8, <2>1 DEF RefsFrom
    <3> QED BY <1>5, <2>1, <3>1 DEF RefsFrom
  <2> QED BY <2>1 DEF RefsFrom
<1> QED BY <1>10, <1>11, <1>12, WithoutDrops

\* A walk that goes on reads, goes astray, or writes to its object alone.
LEMMA WalkOnShows ==
  ASSUME IInv, NEW v \in Value, WalkOn(v)
  PROVE  /\ (Last.mode # "reads" /\ Astray) \/ [IC!Next]_Shown
         /\ RefsFrom(memory', memory)
<1>1. /\ walks # << >> /\ walks \in Seq(Walk) /\ Last.position <= Length
      /\ holds' = holds /\ Sound(memory, holds)
      /\ \A a \in DOMAIN memory : memory[a] \in [refs : Nat, cells : [Position -> Cell]]
  BY DEF WalkOn, Running, IInv, RestOK, Sound, Stored
<1>2. Last \in Walk /\ Last.position \in Position
  <2>1. Last \in Walk
    BY <1>1, WalkDropped DEF Last
  <2>2. Last.position \in 1 .. Length + 1 /\ Length \in Nat
    BY <2>1, ValueAssumption DEF Walk
  <2> QED BY <1>1, <2>1, <2>2 DEF Position
<1>3. CASE Target \notin DOMAIN memory \/ Last.mode = "reads"
  <2>1. memory' = memory
    BY <1>3 DEF WalkOn
  <2>2. Shown' = Shown
    BY <1>1, <2>1, ShownIs
  <2> QED BY <2>1, <2>2, RefsFromSelf
<1>4. CASE Target \in DOMAIN memory /\ Last.mode # "reads"
  <2>1. PICK b \in DOMAIN memory : b = Target
    BY <1>4
  <2>2. PICK p \in Position : p = Last.position
    BY <1>2
  <2>3. memory' = [memory EXCEPT ![b].cells[p] = Plain(v)]
    BY <1>4, <2>1, <2>2 DEF WalkOn
  <2>4. RefsFrom(memory', memory)
    <3>1. RefsFrom([memory EXCEPT ![b].cells[p] = Plain(v)], memory)
      BY <1>1, RefsFromSelf, CellRefs
    <3> QED BY <2>3, <3>1
  <2>5. ASSUME ~Astray PROVE IC!Next
    <3>1. PICK o \in Object : o = Last.object
      BY <1>2 DEF Walk
    <3>2. o \in Holder /\ HoldersIn(holds, b) = {o}
      BY <2>1, <2>5, <3>1 DEF Astray, Holders, HoldersIn, Holder
    <3>3. PICK c \in Cell : c = Plain(v) /\ c.value = v
      BY ValueCells DEF Plain
    <3>4. /\ holds[o] = b
          /\ ShownIn([memory EXCEPT ![b].cells[p] = c], holds)
                = [ShownIn(memory, holds) EXCEPT ![o] = [@ EXCEPT ![p] = c.value]]
      <4>1. Sound(memory, holds)
        BY <1>1
      <4> QED BY ONLY <3>2, <4>1, CellShows
    <3>5. Shown' = [Shown EXCEPT ![o] = [@ EXCEPT ![p] = v]]
      BY <1>1, <2>3, <3>3, <3>4, ShownIs
    <3>6. holds[o] # None
      BY <1>1, <3>4, HolderAssumption DEF Sound, Stored
    <3>7. IC!Write(o, p, v)
      BY <3>2, <3>5, <3>6, ShownFacts DEF IC!Write
    <3> QED BY <3>2, <3>7 DEF IC!Next
  <2> QED BY <1>4, <2>4, <2>5
<1> QED BY <1>3, <1>4

LEMMA NextShows ==
  ASSUME IInv, RefPlaced(memory), [Next]_vars
  PROVE  Independent /\ RefPlaced(memory')
<1>0. ASSUME RefsFrom(memory', memory) PROVE RefPlaced(memory')
  BY <1>0, PlacedFrom
<1>1. ASSUME memory' = memory, holds' = holds
      PROVE  Independent /\ RefPlaced(memory')
  <2>1. Shown' = Shown
    BY <1>1, ShownIs
  <2> QED BY <1>1, <2>1 DEF Independent
<1>2. CASE \E o \in Object, b \in Buffer : New(o, b)
  BY <1>0, <1>2, NewShows DEF Independent
<1>3. CASE \E o, c \in Object : Clone(o, c)
  BY <1>0, <1>3, CloneShows DEF Independent
<1>4. CASE \E o \in Object, i \in Iterator : GetIterator(o, i)
  BY <1>0, <1>4, GetIteratorShows DEF Independent
<1>5. ASSUME NEW o \in Object, NEW p \in Position, NEW v \in Value,
             Write(o, p, v) \/ WriteFetched(o, p, v)
      PROVE  Independent /\ RefPlaced(memory')
  BY <1>0, <1>5, WriteShows, WriteFetchedShows, WriteFetchedPlaces DEF Independent
<1>6. ASSUME NEW o \in Object,
             Allocate(o) \/ Unset(o) \/ Apply(o) \/ PutAll(o) \/ Map(o)
      PROVE  Independent /\ RefPlaced(memory')
  <2>1. CASE Map(o)
    BY <1>1, <2>1 DEF Map
  <2>2. CASE Apply(o) \/ PutAll(o)
    BY <1>0, <2>2, SeparateShows DEF Apply, PutAll, Independent
  <2>3. CASE Allocate(o)
    BY <1>0, <2>3, AllocateShows DEF Independent
  <2>4. CASE Unset(o)
    BY <1>0, <2>4, UnsetShows DEF Independent
  <2> QED BY <1>6, <2>1, <2>2, <2>3, <2>4
<1>7. CASE \E i \in Iterator : DropIterator(i)
  BY <1>0, <1>7, DropIteratorShows DEF Independent
<1>8. ASSUME NEW v \in Value, WalkOn(v)
      PROVE  Independent /\ RefPlaced(memory')
  BY <1>0, <1>8, WalkOnShows DEF Independent
<1>9. CASE Return
  BY <1>0, <1>9, ReturnShows DEF Independent
<1>10. CASE Stopped \/ UNCHANGED vars
  BY <1>1, <1>10 DEF Stopped, vars
<1> QED BY <1>2, <1>3, <1>4, <1>5, <1>6, <1>7, <1>8, <1>9, <1>10 DEF Next

\* Clones and iterators behave as copies made at once, but where a cell fetched
\* for writing, or the buffer that apply() or putAll() writes to, is not one
\* collection's alone (ds_seq.c:82-113, 693-712, php_seq.c:21-25).
THEOREM SharingIsInvisible == Spec => ImplementsIndependentCopies
<1>1. Init => IC!Init /\ IInv /\ RefPlaced(memory)
  BY InitShows, InitHolds
<1>2. IInv /\ RefPlaced(memory) /\ [Next]_vars => IInv' /\ RefPlaced(memory)'
  BY NextShows, NextHolds
<1>3. IInv /\ RefPlaced(memory) /\ [Next]_vars => [Independent]_vars
  BY NextShows
<1>4. Spec => [][Independent]_vars
  BY <1>1, <1>2, <1>3, PTL DEF Spec
<1>5. [Independent]_vars =>
        [\/ \E o \in Object, p \in Position, v \in Value :
              WriteFetched(o, p, v) /\ SeenElsewhere(o, p)
         \/ (\E v \in Value : WalkOn(v)) /\ Last.mode # "reads" /\ Astray
         \/ [IC!Next]_Shown]_vars
  BY DEF Independent
<1> QED BY <1>1, <1>4, <1>5, PTL DEF Spec, ImplementsIndependentCopies
=============================================================================
