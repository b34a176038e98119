---------------------------- MODULE CopyOnWrite ----------------------------
(***************************************************************************)
(* Collections that share their buffers: clone() and getIterator() hand    *)
(* out a reference to the buffer, and a method that changes a collection   *)
(* first separates it, that is, gives it a copy if the buffer is shared.   *)
(* The protocol is the same for ds_seq_t, ds_htable_t and ds_heap_t; the   *)
(* definitions are mapped to the sequence's.                               *)
(*                                                                         *)
(* Some methods call the user's code while they walk through the buffer.   *)
(* The walk keeps the pointer that it had when it began, and the callback  *)
(* may do anything: clone the collection, change it, drop the clone.       *)
(* Positions are fixed: what the operations do to a buffer is the subject  *)
(* of DsSeq, DsHtable and DsHeap.                                          *)
(***************************************************************************)
EXTENDS Integers, Sequences, FiniteSets

CONSTANTS
  Object,      \* PHP objects that may exist at a time
  Iterator,    \* iterators that may exist at a time
  None,
  Buffer,      \* addresses of buffers
  Length,      \* the number of values in every buffer
  Value,
  Reference,   \* PHP references that cells may be made into
  Initial,     \* the value a new collection is filled with
  MaxDepth     \* bound of the model: callbacks nest no deeper

ASSUME HolderAssumption ==
  /\ Object \intersect Iterator = {}
  /\ IsFiniteSet(Object) /\ IsFiniteSet(Iterator)
  /\ None \notin Object \union Iterator \union Buffer \union Reference
ASSUME ValueAssumption == Initial \in Value /\ Length \in Nat /\ MaxDepth \in Nat

VARIABLES
  memory,    \* the buffers allocated: [refs, cells] by address
  holds,     \* the buffer of each object and iterator, or None
  source,    \* the object each iterator was made for, or None
  named,     \* the objects that the program has in a variable
  walks,     \* the methods in the midst of a callback, innermost last
  fault      \* a walk went on in a buffer that was freed

vars == <<memory, holds, source, named, walks, fault>>

Holder == Object \union Iterator
Position == 1 .. Length

\* None is not the contents of a buffer.
ASSUME NoneAssumption == None \notin [Position -> Value]

Cell == [value : Value, ref : Reference \union {None}]
Plain(v) == [value |-> v, ref |-> None]
Walk == [object : Object, buffer : Buffer, position : 1 .. Length + 1,
         mode : {"reads", "writes", "puts"}]

-----------------------------------------------------------------------------
(* Buffers.                                                                *)

Holders(b) == {h \in Holder : holds[h] = b}

\* An address that the allocator may return.  One that a walk still has is
\* left out: the walk's next step shows the mistake, whoever owns the memory.
Unused(b) == b \notin DOMAIN memory /\ \A n \in DOMAIN walks : walks[n].buffer # b

Allocated(m, b, cells) ==
  [a \in DOMAIN m \union {b} |->
     IF a = b THEN [refs |-> 0, cells |-> cells] ELSE m[a]]

Referenced(m, b) == [m EXCEPT ![b].refs = @ + 1]

\* A mistake: the last release is not noticed.
ReleasedLate(m, b) ==
  IF m[b].refs >= 0
  THEN [m EXCEPT ![b].refs = @ - 1]
  ELSE [a \in DOMAIN m \ {b} |-> m[a]]

Released(m, b) ==
  IF m[b].refs > 0
  THEN [m EXCEPT ![b].refs = @ - 1]
  ELSE [a \in DOMAIN m \ {b} |-> m[a]]

\* A mistake: a collection that shares its buffer with one other keeps it.
WritableAmongTwo(o) ==
  IF memory[holds[o]].refs > 1 THEN {b \in Buffer : Unused(b)} ELSE {holds[o]}

\* The addresses that o's buffer may have once it is separated ...
Writable(o) ==
  IF memory[holds[o]].refs > 0 THEN {b \in Buffer : Unused(b)} ELSE {holds[o]}

\* A mistake: the buffer left behind keeps its reference.
SeparatedLeaking(o, b) ==
  IF b = holds[o] THEN memory ELSE Allocated(memory, b, memory[holds[o]].cells)

\* ... and what is in memory when that is b.
Separated(o, b) ==
  IF b = holds[o] THEN memory
  ELSE Allocated(Released(memory, holds[o]), b, memory[holds[o]].cells)

\* Cells that are the same reference have the same value.
Through(m, r, v) ==
  [b \in DOMAIN m |->
     [m[b] EXCEPT !.cells = [p \in Position |->
        IF @[p].ref = r THEN [@[p] EXCEPT !.value = v] ELSE @[p]]]]

ReferredTo(r) == \E b \in DOMAIN memory : \E p \in Position : memory[b].cells[p].ref = r

-----------------------------------------------------------------------------
(* What the program does, in its main line or in a callback.               *)

Last == walks[Len(walks)]

Running ==
  /\ fault = "none"
  /\ walks # << >> => Last.position <= Length

Usable(o) == Running /\ o \in named

\* new Ds\Seq, or a method that returns a new sequence.
New(o, b) ==
  /\ Running
  /\ holds[o] = None /\ Unused(b)
  /\ memory' = Allocated(memory, b, [p \in Position |-> Plain(Initial)])
  /\ holds' = [holds EXCEPT ![o] = b]
  /\ named' = named \union {o}
  /\ UNCHANGED <<source, walks, fault>>

\* clone $o and $o->copy().
Clone(o, c) ==
  /\ Usable(o)
  /\ holds[c] = None
  /\ memory' = Referenced(memory, holds[o])
  /\ holds' = [holds EXCEPT ![c] = holds[o]]
  /\ named' = named \union {c}
  /\ UNCHANGED <<source, walks, fault>>

\* foreach and getIterator(): a reference to the buffer and one to the object.
GetIterator(o, i) ==
  /\ Usable(o)
  /\ holds[i] = None
  /\ memory' = Referenced(memory, holds[o])
  /\ holds' = [holds EXCEPT ![i] = holds[o]]
  /\ source' = [source EXCEPT ![i] = o]
  /\ UNCHANGED <<named, walks, fault>>

\* A method that changes the collection at once: set, push, remove, ...
Write(o, p, v) ==
  /\ Usable(o)
  /\ \E b \in Writable(o) :
       /\ memory' = [Separated(o, b) EXCEPT ![b].cells[p] = Plain(v)]
       /\ holds' = [holds EXCEPT ![o] = b]
  /\ UNCHANGED <<source, named, walks, fault>>

\* A method that needs a longer buffer, or allocate(): realloc may move it.
Allocate(o) ==
  /\ Usable(o)
  /\ \E b \in Writable(o) \union {a \in Buffer : Unused(a)} :
       /\ memory' = Separated(o, b)
       /\ holds' = [holds EXCEPT ![o] = b]
  /\ UNCHANGED <<source, named, walks, fault>>

\* $o[p][...] = v: read_dimension makes the cell itself a reference and hands
\* it out, and separates nothing.  Copies of the cell are the same reference.
WriteFetched(o, p, v) ==
  /\ Usable(o)
  /\ LET r == memory[holds[o]].cells[p].ref
     IN  IF r # None
         THEN memory' = Through(memory, r, v)
         ELSE \E fresh \in Reference :
                /\ ~ReferredTo(fresh)
                /\ memory' = [memory EXCEPT ![holds[o]].cells[p] =
                                [value |-> v, ref |-> fresh]]
  /\ UNCHANGED <<holds, source, named, walks, fault>>

-----------------------------------------------------------------------------
(* Objects and iterators that go away.  An object does when no variable, no *)
(* iterator and no method under way refers to it.                          *)

\* The object o is let go: it is freed, which releases its buffer, unless it
\* is kept.  The iterator that held memory m and H is gone.
LetGo(o, kept, m, H) ==
  /\ memory' = IF kept THEN m ELSE Released(m, H[o])
  /\ holds' = IF kept THEN H ELSE [H EXCEPT ![o] = None]

HeldByIterator(o, I) == \E i \in I : source[i] = o

HeldByWalk(o, W) == \E n \in DOMAIN W : W[n].object = o

Unset(o) ==
  /\ Usable(o)
  /\ named' = named \ {o}
  /\ LetGo(o, HeldByIterator(o, Iterator) \/ HeldByWalk(o, walks), memory, holds)
  /\ UNCHANGED <<source, walks, fault>>

\* A mistake: the reference to the object is not given back.
DropIteratorOnly(i) ==
  /\ Running
  /\ holds[i] # None
  /\ source' = [source EXCEPT ![i] = None]
  /\ memory' = Released(memory, holds[i])
  /\ holds' = [holds EXCEPT ![i] = None]
  /\ UNCHANGED <<named, walks, fault>>

DropIterator(i) ==
  /\ Running
  /\ holds[i] # None
  /\ source' = [source EXCEPT ![i] = None]
  /\ LET o == source[i]
     IN  LetGo(o, o \in named \/ HeldByIterator(o, Iterator \ {i}) \/ HeldByWalk(o, walks),
               Released(memory, holds[i]), [holds EXCEPT ![i] = None])
  /\ UNCHANGED <<named, walks, fault>>

-----------------------------------------------------------------------------
(* Methods that call the user for each value.  A sort() with a comparator  *)
(* and push() and pop() of a heap with one do as apply() does.             *)

Entered(o, b, mode) ==
  walks' = Append(walks, [object |-> o, buffer |-> b, position |-> 1, mode |-> mode])

Separate(o, mode) ==
  /\ Usable(o) /\ Len(walks) < MaxDepth
  /\ \E b \in Writable(o) :
       /\ memory' = Separated(o, b)
       /\ holds' = [holds EXCEPT ![o] = b]
       /\ Entered(o, b, mode)
  /\ UNCHANGED <<source, named, fault>>

\* apply(): separate, then walk through the buffer as it was then.  A sequence or a
\* heap that is constructed of a Traversable does the same: it pushes what that
\* yields into the buffer that it began with (ds_seq.c:630, ds_heap.c:189).
Apply(o) == Separate(o, "writes")

\* putAll() and the constructors of a map and a set with a Traversable, which is the
\* user's code: separate, then put what it yields into the buffer there is at each
\* step.
PutAll(o) == Separate(o, "puts")

\* map(), filter() and reduce() only read.
Map(o) ==
  /\ Usable(o) /\ Len(walks) < MaxDepth
  /\ Entered(o, holds[o], "reads")
  /\ UNCHANGED <<memory, holds, source, named, fault>>

\* The buffer that the innermost method is about to read or write.
Target == IF Last.mode = "puts" THEN holds[Last.object] ELSE Last.buffer

\* The innermost callback returns v; apply() and putAll() store it, and the
\* walk goes on.
WalkOn(v) ==
  /\ Running /\ walks # << >>
  /\ IF Target \in DOMAIN memory
     THEN /\ memory' = IF Last.mode = "reads" THEN memory
                       ELSE [memory EXCEPT ![Target].cells[Last.position] = Plain(v)]
          /\ walks' = [walks EXCEPT ![Len(walks)].position = @ + 1]
          /\ UNCHANGED fault
     ELSE fault' = "freed" /\ UNCHANGED <<memory, walks>>
  /\ UNCHANGED <<holds, source, named>>

\* The walk is over, or the callback has thrown; the method lets go of $this.
Return ==
  /\ fault = "none" /\ walks # << >>
  /\ walks' = SubSeq(walks, 1, Len(walks) - 1)
  /\ LET o == Last.object
     IN  LetGo(o, o \in named \/ HeldByIterator(o, Iterator) \/ HeldByWalk(o, walks'),
               memory, holds)
  /\ UNCHANGED <<source, named, fault>>

\* Execution is not followed past an access to a freed buffer.
Stopped == fault # "none" /\ UNCHANGED vars

-----------------------------------------------------------------------------
Init ==
  /\ memory = [b \in {} |-> [refs |-> 0, cells |-> << >>]]
  /\ holds = [h \in Holder |-> None]
  /\ source = [i \in Iterator |-> None]
  /\ named = {}
  /\ walks = << >>
  /\ fault = "none"

Next ==
  \/ \E o \in Object, b \in Buffer : New(o, b)
  \/ \E o, c \in Object : Clone(o, c)
  \/ \E o \in Object, i \in Iterator : GetIterator(o, i)
  \/ \E o \in Object, p \in Position, v \in Value : Write(o, p, v) \/ WriteFetched(o, p, v)
  \/ \E o \in Object : Allocate(o) \/ Unset(o) \/ Apply(o) \/ PutAll(o) \/ Map(o)
  \/ \E i \in Iterator : DropIterator(i)
  \/ \E v \in Value : WalkOn(v)
  \/ Return
  \/ Stopped

Spec == Init /\ [][Next]_vars

-----------------------------------------------------------------------------
(* Properties.                                                             *)

\* What the program can reach exists, and iterators and walks are of objects
\* that exist (ds_seq.h:31-38, php_seq_iterator.h:6-12).
TypeOK ==
  /\ DOMAIN memory \subseteq Buffer
  /\ \A b \in DOMAIN memory :
       /\ memory[b] = [refs |-> memory[b].refs, cells |-> memory[b].cells]
       /\ memory[b].refs \in Nat
       /\ memory[b].cells \in [Position -> Cell]
  /\ holds \in [Holder -> Buffer \union {None}]
  /\ source \in [Iterator -> Object \union {None}]
  /\ named \subseteq Object
  /\ walks \in Seq(Walk)
  /\ fault \in {"none", "freed"}

\* What keeps an object alive has one to keep.
ReferencesResolve ==
  /\ \A o \in Object :
       o \in named \/ HeldByIterator(o, Iterator) \/ HeldByWalk(o, walks) <=> holds[o] # None
  /\ \A i \in Iterator : source[i] = None <=> holds[i] = None

\* A buffer counts one reference less than it has holders: none is freed under
\* a holder, none is left behind without one, and a buffer is known to be
\* shared exactly when it is, whatever order clones, writes, iterators and
\* destructions come in (ds_seq.c:97-113).
RefsAreHolders ==
  /\ \A h \in Holder : holds[h] # None => holds[h] \in DOMAIN memory
  /\ \A b \in DOMAIN memory : memory[b].refs + 1 = Cardinality(Holders(b))

Shown == [h \in Holder |->
            IF holds[h] = None THEN None
            ELSE [p \in Position |-> memory[holds[h]].cells[p].value]]

IC == INSTANCE IndependentCopies WITH shown <- Shown, NoCells <- None

\* Another holder sees o's cell too.
SeenElsewhere(o, p) ==
  \/ memory[holds[o]].refs > 0
  \/ /\ memory[holds[o]].cells[p].ref # None
     /\ \E b \in DOMAIN memory \ {holds[o]} :
          \E q \in Position : memory[b].cells[q].ref = memory[holds[o]].cells[p].ref

\* The innermost apply() or putAll() writes to the buffer of others as well, or
\* no longer to its object's.
Astray == Holders(Target) # {Last.object}

\* Clones and iterators behave as copies made at once, as long as no fetch for
\* writing meets a cell that another one has too and no callback of apply() or
\* putAll() shared the buffer that is written (ds_seq.c:82-113, 693-712, php_seq.c:21-25).
ImplementsIndependentCopies ==
  /\ IC!Init
  /\ [][\/ \E o \in Object, p \in Position, v \in Value :
             WriteFetched(o, p, v) /\ SeenElsewhere(o, p)
        \/ (\E v \in Value : WalkOn(v)) /\ Last.mode # "reads" /\ Astray
        \/ [IC!Next]_Shown]_vars
=============================================================================
