------------------------------- MODULE DsSeq -------------------------------
(***************************************************************************)
(* The sequence under Ds\Seq (src/ds/ds_seq.c): a ring buffer whose        *)
(* capacity is a power of two, so that `& (capacity - 1)` is arithmetic    *)
(* modulo the capacity.                                                    *)
(*                                                                         *)
(* A cell outside the window of live values is shown as Hole, whatever the *)
(* moves have left in it.  tail is "normal" when it is below capacity;     *)
(* several functions leave it equal to capacity, the others do not expect  *)
(* that, and what they do then is a fault.                                 *)
(***************************************************************************)
EXTENDS Integers, Sequences, FiniteSets, Scan

CONSTANTS
  Value,
  Hole,          \* a cell that holds no value
  MinCapacity,   \* DS_SEQ_MIN_CAPACITY
  Capacities,    \* the powers of two that a capacity can be
  MaxSize,       \* bound of the model: no sequence is longer
  MaxArgs,       \* bound of the model: variadic calls pass at most so many
  MaxTurns       \* bound of the model: rotate's argument

ASSUME HoleAssumption == Hole \notin Value
ASSUME CapacityAssumption ==
  /\ Capacities \subseteq Nat \ {0}
  /\ MinCapacity \in Capacities
  /\ \A c \in Capacities : c >= MinCapacity
  /\ \A c \in Capacities : c \div 2 >= MinCapacity => c \div 2 \in Capacities
ASSUME SizeAssumption ==
  /\ MaxSize \in Nat /\ MaxArgs \in Nat /\ MaxTurns \in Nat
  /\ \A n \in 0 .. MaxSize : \E c \in Capacities : n <= c
  /\ \A c \in Capacities : c < MaxSize => 2 * c \in Capacities

VARIABLES
  seq,       \* the ds_seq_t
  pc,        \* "idle", or the operation whose loop is under way
  lo, hi,    \* the head and tail of reverse's loop
  turns,     \* what is left of rotate's argument
  fault      \* "overrun" once a cell outside the buffer was read or written

loopVars == <<lo, hi, turns>>
vars == <<seq, pc, lo, hi, turns, fault>>

Args == UNION {[1 .. n -> Value] : n \in 1 .. MaxArgs}

-----------------------------------------------------------------------------
(* Buffers.                                                                *)

\* ds_seq_lookup_index
Cell(s, p) == (s.head + p) % s.capacity

Window(s) == {Cell(s, p) : p \in 0 .. s.size - 1}

Contents(s) == [p \in 1 .. s.size |-> s.buffer[Cell(s, p - 1)]]

Tidy(s) ==
  [s EXCEPT !.buffer =
     [i \in 0 .. s.capacity - 1 |-> IF i \in Window(s) THEN s.buffer[i] ELSE Hole]]

\* memmove(&b[dst], &b[src], n)
Move(b, dst, src, n) ==
  [i \in DOMAIN b |-> IF i \in dst .. dst + n - 1 THEN b[src + i - dst] ELSE b[i]]

\* The values vs in successive cells from cell i, around the end of b.
Filled(b, i, vs, c) ==
  [j \in DOMAIN b |-> LET r == (j - i) % c
                      IN  IF r < Len(vs) THEN vs[r + 1] ELSE b[j]]

\* ds_next_power_of_2(n, DS_SEQ_MIN_CAPACITY)
CapacityFor(n) ==
  CHOOSE c \in Capacities : n <= c /\ \A d \in Capacities : n <= d => c <= d

\* A new sequence whose values are laid out from cell 0.  Nothing makes tail
\* normal when they fill the buffer.
FromBuffer(c, vs) ==
  [buffer |-> [i \in 0 .. c - 1 |-> IF i < Len(vs) THEN vs[i + 1] ELSE Hole],
   capacity |-> c, head |-> 0, tail |-> Len(vs), size |-> Len(vs)]

Fresh(c) == FromBuffer(c, << >>)

\* Room for the wrapped values between themselves and the head.
RoomBetween(h, t, r) == r < h - t

\* The buffer with its values moved to the front: in place when they are
\* contiguous or leave room between, through a new buffer when they do not.
FrontBuffer(s) ==
  LET h == s.head
      t == s.tail
      r == s.capacity - h
  IN  IF h < t THEN Move(s.buffer, 0, h, s.size)
      ELSE IF RoomBetween(h, t, r)
      THEN Move(Move(s.buffer, r, 0, t), 0, h, r)
      ELSE [i \in 0 .. s.capacity - 1 |->
              IF i < r THEN s.buffer[h + i]
              ELSE IF i < r + t THEN s.buffer[i - r] ELSE Hole]

\* A mistake: tail stays where the values ended before they were moved.
ResetHeadOnly(s) ==
  IF s.head = 0 THEN s ELSE [s EXCEPT !.buffer = FrontBuffer(s), !.head = 0]

ResetHead(s) ==
  IF s.head = 0 THEN s
  ELSE [s EXCEPT !.buffer = FrontBuffer(s), !.head = 0, !.tail = s.size]

Reallocate(s, c) ==
  LET b == ResetHead(s).buffer
  IN  [buffer |-> [i \in 0 .. c - 1 |-> IF i < s.capacity THEN b[i] ELSE Hole],
       capacity |-> c, head |-> 0, tail |-> s.size, size |-> s.size]

Allocate(s, n) ==
  IF CapacityFor(n) > s.capacity THEN Reallocate(s, CapacityFor(n)) ELSE s

\* A mistake: a small buffer is halved too.
TruncatesAny(s) == s.size <= s.capacity \div 4

Truncates(s) == s.size <= s.capacity \div 4 /\ s.capacity \div 2 >= MinCapacity

AutoTruncate(s) ==
  IF Truncates(s) THEN Reallocate(s, s.capacity \div 2) ELSE s

-----------------------------------------------------------------------------
(* Values put in and taken out.  These are operators from sequences to     *)
(* sequences; n is the number of values put in.                            *)

Pushed(s, vs) ==
  LET n == Len(vs) IN
  [s EXCEPT !.buffer = Filled(s.buffer, s.tail, vs, s.capacity),
            !.tail = (s.tail + n) % s.capacity,
            !.size = s.size + n]

Unshifted(s, vs) ==
  LET n == Len(vs)
      h == (s.head - n) % s.capacity
  IN  [s EXCEPT !.buffer = Filled(s.buffer, h, vs, s.capacity),
                !.head = h, !.size = s.size + n]

\* A mistake: no overflow while the values fit to the right of their head.
Overflows(s, n) == s.size + n > s.capacity

\* The values after the insertion point do not fit to the right of tail.
OverflowsRight(s, n) == s.tail + n > s.capacity

\* Insertion before cell i of a contiguous sequence, or left of a wrapped
\* around head: what follows moves right, after all of it moved to the front
\* if there is no room.
OpenedRight(s, i, vs) ==
  LET n == Len(vs)
      o == OverflowsRight(s, n)
      j == IF o THEN i - s.head ELSE i
      t == IF o THEN s.size ELSE s.tail
      b == IF o THEN Move(s.buffer, 0, s.head, s.size) ELSE s.buffer
  IN  [s EXCEPT !.buffer = Filled(Move(b, j + n, j, t - j), j, vs, s.capacity),
                !.head = IF o THEN 0 ELSE s.head,
                !.tail = t + n, !.size = s.size + n]

\* Insertion between a wrapped around head and the end of the buffer: what
\* precedes moves left.
OpenedLeft(s, i, vs) ==
  LET n == Len(vs)
      h == s.head - n
  IN  [s EXCEPT !.buffer = Filled(Move(s.buffer, h, s.head, i - s.head),
                                  i - n, vs, s.capacity),
                !.head = h, !.size = s.size + n]

Inserted(s, p, vs) ==
  LET i == Cell(s, p)
  IN  IF i <= s.tail THEN OpenedRight(s, i, vs) ELSE OpenedLeft(s, i, vs)

Shifted(s) ==
  AutoTruncate([s EXCEPT !.buffer = [@ EXCEPT ![s.head] = Hole],
                         !.head = (s.head + 1) % s.capacity,
                         !.size = s.size - 1])

Popped(s) ==
  LET t == (s.tail - 1) % s.capacity
  IN  AutoTruncate([s EXCEPT !.buffer = [@ EXCEPT ![t] = Hole],
                             !.tail = t, !.size = s.size - 1])

\* A mistake: the last value is not moved into the gap.
ClosedShort(s, i) ==
  AutoTruncate(
    [s EXCEPT !.buffer = Move(s.buffer, i, i + 1, s.tail - 2 - i),
              !.tail = s.tail - 1, !.size = s.size - 1])

\* Removal of cell i, not the first or the last: the gap closes from the
\* right, taking the cell at tail along, or from the left when i lies between
\* a wrapped around head and the end of the buffer.
Closed(s, i) ==
  AutoTruncate(
    IF i < s.tail
    THEN [s EXCEPT !.buffer = Move(s.buffer, i, i + 1, s.tail - i),
                   !.tail = s.tail - 1, !.size = s.size - 1]
    ELSE [s EXCEPT !.buffer = Move(s.buffer, s.head + 1, s.head, i - s.head),
                   !.head = s.head + 1, !.size = s.size - 1])

\* Without the values, which clear() destroys and leaves in their cells.
Cleared(s) ==
  [buffer |-> [i \in 0 .. MinCapacity - 1 |-> s.buffer[i]],
   capacity |-> MinCapacity, head |-> 0, tail |-> 0, size |-> 0]

\* Closing the gap from the right reads past the end of the buffer.
Overreads(s, i) == i < s.tail /\ s.tail = s.capacity

-----------------------------------------------------------------------------
(* The operations.                                                         *)

Idle == pc = "idle" /\ fault = "none"

GoOnWith(s) ==
  /\ seq' = Tidy(s)
  /\ UNCHANGED <<pc, loopVars, fault>>

Overrun ==
  /\ fault' = "overrun"
  /\ UNCHANGED <<seq, pc, loopVars>>

\* Write vs from tail on: the first write is out of bounds unless tail is
\* normal.
Append_(s, vs) == IF s.tail = s.capacity THEN Overrun ELSE GoOnWith(Pushed(s, vs))

Full(s) == s.size = s.capacity

Push(v) ==
  /\ Idle
  /\ seq.size < MaxSize
  /\ Append_(IF Full(seq) THEN Reallocate(seq, 2 * seq.capacity) ELSE seq, <<v>>)

\* push(), unshift() and insert() with one or more values.
Insert(p, vs) ==
  /\ Idle
  /\ seq.size + Len(vs) <= MaxSize
  /\ LET s == Allocate(seq, seq.size + Len(vs))
     IN  IF p = seq.size THEN Append_(s, vs)
         ELSE GoOnWith(IF p = 0 THEN Unshifted(s, vs) ELSE Inserted(s, p, vs))

\* shift(), pop() and remove() of the value at position p.
Remove(p) ==
  /\ Idle
  /\ IF p = 0 THEN GoOnWith(Shifted(seq))
     ELSE IF p = seq.size - 1 THEN GoOnWith(Popped(seq))
     ELSE IF Overreads(seq, Cell(seq, p)) THEN Overrun
     ELSE GoOnWith(Closed(seq, Cell(seq, p)))

\* pop() of the only value: remove() takes it for the first one.
PopLast == Idle /\ seq.size = 1 /\ GoOnWith(Popped(seq))

Set(p, v) ==
  /\ Idle
  /\ GoOnWith([seq EXCEPT !.buffer = [@ EXCEPT ![Cell(seq, p)] = v]])

Clear == Idle /\ GoOnWith(Cleared(seq))

EnsureCapacity(n) == Idle /\ GoOnWith(Allocate(seq, n))

\* join() resets the head to hand the buffer over; it changes nothing else.
Join == Idle /\ GoOnWith(ResetHead(seq))

\* qsort() over the buffer once the head is reset: any order may result from
\* a user's comparator.
Sort(p) ==
  /\ Idle
  /\ LET s == ResetHead(seq)
     IN  GoOnWith([s EXCEPT !.buffer =
                     [i \in 0 .. s.capacity - 1 |->
                        IF i < s.size THEN s.buffer[p[i]] ELSE s.buffer[i]]])

Shuffles(n) ==
  {p \in [0 .. n - 1 -> 0 .. n - 1] : \A i, j \in 0 .. n - 1 : p[i] = p[j] => i = j}

\* apply(); values that the callback does not reach stay what they are.
Apply(f) ==
  /\ Idle
  /\ GoOnWith([seq EXCEPT !.buffer =
                 [i \in 0 .. seq.capacity - 1 |->
                    IF i \in Window(seq) THEN f[(i - seq.head) % seq.capacity]
                    ELSE seq.buffer[i]]])

-----------------------------------------------------------------------------
(* reverse() and rotate(), which loop in place.                            *)

\* ds_reverse_zval_range over a contiguous sequence.
ReverseRange ==
  /\ Idle
  /\ seq.head < seq.tail
  /\ GoOnWith([seq EXCEPT !.buffer =
                 [i \in 0 .. seq.capacity - 1 |->
                    IF i \in seq.head .. seq.tail - 1
                    THEN seq.buffer[seq.head + seq.tail - 1 - i]
                    ELSE seq.buffer[i]]])

ReverseBegin ==
  /\ Idle
  /\ seq.head >= seq.tail
  /\ pc' = "reverse" /\ lo' = seq.head /\ hi' = seq.tail
  /\ UNCHANGED <<seq, turns, fault>>

Swapped(b, i, j) == [b EXCEPT ![i] = b[j], ![j] = b[i]]

ReverseSwap ==
  /\ pc = "reverse" /\ lo # hi
  /\ LET t == (hi - 1) % seq.capacity
     IN  /\ seq' = [seq EXCEPT !.buffer = Swapped(@, lo, t)]
         /\ hi' = t
  /\ lo' = (lo + 1) % seq.capacity
  /\ UNCHANGED <<pc, turns, fault>>

ReverseEnd ==
  /\ pc = "reverse" /\ lo = hi
  /\ pc' = "idle" /\ lo' = 0 /\ hi' = 0
  /\ UNCHANGED <<seq, turns, fault>>

RotateBegin(n) ==
  /\ Idle
  /\ seq.size >= 2
  /\ pc' = "rotate"
  /\ turns' = IF n < 0 THEN -((-n) % seq.size) ELSE n % seq.size
  /\ UNCHANGED <<seq, lo, hi, fault>>

\* Shift and push: the first value goes behind the last one.
RotateLeft ==
  /\ pc = "rotate" /\ fault = "none" /\ turns > 0
  /\ IF seq.tail = seq.capacity
     THEN Overrun
     ELSE /\ seq' = [seq EXCEPT !.buffer = Swapped(@, seq.tail, seq.head),
                                !.head = (seq.head + 1) % seq.capacity,
                                !.tail = (seq.tail + 1) % seq.capacity]
          /\ turns' = turns - 1
          /\ UNCHANGED <<pc, lo, hi, fault>>

\* Pop and unshift: the last value goes before the first one.
RotateRight ==
  /\ pc = "rotate" /\ turns < 0
  /\ LET h == (seq.head - 1) % seq.capacity
         t == (seq.tail - 1) % seq.capacity
     IN  seq' = [seq EXCEPT !.buffer = Swapped(@, t, h), !.head = h, !.tail = t]
  /\ turns' = turns + 1
  /\ UNCHANGED <<pc, lo, hi, fault>>

RotateEnd ==
  /\ pc = "rotate" /\ turns = 0
  /\ pc' = "idle"
  /\ UNCHANGED <<seq, loopVars, fault>>

Loop ==
  \/ ReverseSwap \/ ReverseEnd
  \/ RotateLeft \/ RotateRight \/ RotateEnd

-----------------------------------------------------------------------------
(* The program goes on with a sequence made from this one.  merge() clones *)
(* and pushes.                                                             *)

\* A clone that a mutation of a shared sequence makes (ds_seq_separate), and
\* map(): one value for each.
TakeClone == Idle /\ GoOnWith(FromBuffer(seq.capacity, Contents(seq)))

TakeMap(f) ==
  Idle /\ GoOnWith(FromBuffer(seq.capacity, [p \in 1 .. seq.size |-> f[p - 1]]))

TakeReversed ==
  /\ Idle
  /\ GoOnWith(FromBuffer(seq.capacity,
       [p \in 1 .. seq.size |-> Contents(seq)[seq.size + 1 - p]]))

TakeFilter(S) ==
  LET n == Cardinality(S) IN
  Idle /\ GoOnWith(IF seq.size = 0 THEN Fresh(MinCapacity)
                   ELSE FromBuffer(CapacityFor(n),
                          [p \in 1 .. n |-> Contents(seq)[Nth(S, p - 1)]]))

\* slice() pushes into a sequence allocated for all n values.
TakeSlice(p, n) ==
  /\ Idle
  /\ p + n <= seq.size
  /\ GoOnWith(IF n = 0 THEN Fresh(MinCapacity)
              ELSE Pushed(Fresh(CapacityFor(n)), SubSeq(Contents(seq), p + 1, p + n)))

\* Execution is not followed past an access outside the buffer.
Stopped == fault # "none" /\ UNCHANGED vars

-----------------------------------------------------------------------------
Init ==
  /\ seq = Fresh(MinCapacity)
  /\ pc = "idle" /\ lo = 0 /\ hi = 0 /\ turns = 0
  /\ fault = "none"

Position == 0 .. seq.size - 1

Next ==
  \/ \E v \in Value : Push(v)
  \/ \E p \in 0 .. seq.size, vs \in Args : Insert(p, vs)
  \/ \E p \in Position : Remove(p)
  \/ PopLast
  \/ \E p \in Position, v \in Value : Set(p, v)
  \/ Clear
  \/ \E n \in 0 .. MaxSize : EnsureCapacity(n)
  \/ Join
  \/ \E p \in Shuffles(seq.size) : Sort(p)
  \/ \E f \in [Position -> Value] : Apply(f) \/ TakeMap(f)
  \/ ReverseRange \/ ReverseBegin
  \/ \E n \in -MaxTurns .. MaxTurns : RotateBegin(n)
  \/ Loop
  \/ TakeClone
  \/ TakeReversed
  \/ \E S \in SUBSET (1 .. seq.size) : TakeFilter(S)
  \/ \E p, n \in 0 .. seq.size : TakeSlice(p, n)
  \/ Stopped

\* The loops of reverse and rotate run in the calling thread.
Fairness == WF_vars(Loop)

Spec == Init /\ [][Next]_vars /\ Fairness

-----------------------------------------------------------------------------
(* Properties.                                                             *)

Fields == {"buffer", "capacity", "head", "tail", "size"}

\* The sequence keeps the shape of a ds_seq_t; tail may reach capacity
\* (ds_seq.h:31-38).
TypeOK ==
  /\ seq = [f \in Fields |-> seq[f]]
  /\ seq.capacity \in Capacities
  /\ seq.buffer \in [0 .. seq.capacity - 1 -> Value \union {Hole}]
  /\ seq.head \in 0 .. seq.capacity - 1
  /\ seq.tail \in 0 .. seq.capacity
  /\ seq.size \in 0 .. seq.capacity
  /\ pc \in {"idle", "reverse", "rotate"}
  /\ lo \in 0 .. seq.capacity - 1 /\ hi \in 0 .. seq.capacity - 1
  /\ turns \in Int
  /\ fault \in {"none", "overrun"}

\* size, head and tail agree: tail is one past the last value, wrapped around
\* or equal to capacity.
Measured(s) ==
  \/ s.head + s.size = s.tail
  \/ s.head + s.size = s.tail + s.capacity
  \/ s.size = 0 /\ s.head = 0 /\ s.tail = s.capacity

\* A cell holds a value exactly when it lies in the window that head and size
\* describe, and tail with them: no move, insertion, removal or reallocation
\* leaves a value outside or exposes an unset cell (ds_seq.c:126-198, 341-489).
WindowHoldsValues ==
  /\ Measured(seq)
  /\ \A i \in 0 .. seq.capacity - 1 : seq.buffer[i] # Hole <=> i \in Window(seq)

\* An insertion puts the values exactly before position p, a removal takes
\* exactly the value at p, and each turn of rotate moves one value from one end
\* to the other, wherever the window wraps, moves or is reallocated, though a
\* turn swaps through a cell that may be unset, or the value itself when the
\* buffer is full (ds_seq.c:303-381, 383-489, 539-566).
EditsArePositional ==
  [][fault' = "none" =>
       LET c == Contents(seq) IN
       /\ \A p \in 0 .. seq.size, vs \in Args : Insert(p, vs) =>
            Contents(seq)' = SubSeq(c, 1, p) \o vs \o SubSeq(c, p + 1, seq.size)
       /\ \A p \in Position : Remove(p) =>
            Contents(seq)' = SubSeq(c, 1, p) \o SubSeq(c, p + 2, seq.size)
       /\ RotateLeft => Contents(seq)' = Append(Tail(c), Head(c))
       /\ RotateRight =>
            Contents(seq)' = <<c[seq.size]>> \o SubSeq(c, 1, seq.size - 1)]_vars

\* Seq::push is documented to "append one or more values", and to preserve order
\* (tests/Seq/push.phpt:2, 37): afterwards the pushed value is the last.
PushAppends ==
  [][\A v \in Value : Push(v) => Contents(seq)' = Append(Contents(seq), v)]_vars

\* Seq::reverse is to "reverse in-place" (tests/Seq/reverse.phpt:2), which takes
\* as many swaps as half its values: the loop ends.
ReverseEnds == pc = "reverse" ~> pc = "idle"

VS == INSTANCE ValueSequence WITH items <- Contents(seq)

\* The ring buffer is a sequence of values: every operation does to the values
\* from head on what the abstract operation does to a sequence, and a step that
\* leaves the buffer changes nothing the model shows.
ImplementsValueSequence == VS!Spec

=============================================================================
