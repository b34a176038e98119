----------------------------- MODULE Comparator -----------------------------
(***************************************************************************)
(* The one comparator slot of the extension.  A method that compares with  *)
(* the user's callable puts it in the module's globals, where the          *)
(* comparison function of qsort and of the heap finds it.  The callable    *)
(* may call such methods in its turn: sort() and sorted() put back what    *)
(* they found; the methods of a heap do not, and an iterator over a heap   *)
(* compares with whatever is there.                                        *)
(*                                                                         *)
(* A heap without a comparator leaves the slot alone and calls nobody, so  *)
(* only heaps with one are modelled; their callable stands for itself.     *)
(***************************************************************************)
EXTENDS Naturals, Sequences

CONSTANTS
  Heap,        \* heaps, each with a comparator of its own
  Sorter,      \* callables given to sort() and sorted()
  Iterator,    \* heap iterators that may exist at a time
  None,
  MaxDepth     \* bound of the model: methods nest no deeper

ASSUME ComparatorAssumption ==
  /\ None \notin Heap \union Sorter \union Iterator
  /\ MaxDepth \in Nat

VARIABLES
  slot,       \* DSG(user_compare_fci) and its cache
  methods,    \* the methods under way that compare, innermost last
  over,       \* the heap that each iterator was made for, or None
  running     \* the iterators with their running flag set

slotVars == <<slot, methods, over, running>>

Callable == Heap \union Sorter \union {None}

Method == [
  uses : Callable,                    \* what the slot held when it began
  by : Iterator \union {None},        \* the iterator, if it is one's method
  sorts : BOOLEAN,
  saved : Callable,                   \* for a sort, what to put back
  calling : BOOLEAN,                  \* the callable runs
  disturbed : BOOLEAN]                \* another heap was called in between

Top == methods[Len(methods)]

Below == SubSeq(methods, 1, Len(methods) - 1)

\* The program's code runs: its main line, or the callable of the top method.
UserRuns == methods # << >> => Top.calling

\* The methods once those calls left c in the slot: the innermost one, in
\* whose callable they were made, goes on with it.
Disturbed(ms, c) ==
  IF ms = << >> THEN ms
  ELSE [ms EXCEPT ![Len(ms)].disturbed = @ \/ ms[Len(ms)].uses # c]

Entered(ms, uses, by, sorts, saved) ==
  Append(ms, [uses |-> uses, by |-> by, sorts |-> sorts, saved |-> saved,
              calling |-> FALSE, disturbed |-> FALSE])

-----------------------------------------------------------------------------
(* Calls from the program.                                                 *)

\* A heap's push, pop, toArray, jsonSerialize, construction, var_dump.
HeapMethod(h) ==
  /\ UserRuns /\ Len(methods) < MaxDepth
  /\ slot' = h
  /\ methods' = Entered(Disturbed(methods, h), h, None, FALSE, None)
  /\ UNCHANGED <<over, running>>

\* getIterator() fetches the comparator at once, and compares later.
GetIterator(h, i) ==
  /\ UserRuns
  /\ over[i] = None
  /\ slot' = h
  /\ over' = [over EXCEPT ![i] = h]
  /\ methods' = Disturbed(methods, h)
  /\ UNCHANGED running

\* The iterator is destroyed.
DropIterator(i) ==
  /\ UserRuns
  /\ over[i] # None /\ i \notin running
  /\ over' = [over EXCEPT ![i] = None]
  /\ UNCHANGED <<slot, methods, running>>

\* A mistake: the running flag is not looked at.
MoveAlways(i) ==
  /\ UserRuns /\ Len(methods) < MaxDepth
  /\ over[i] # None
  /\ running' = running \union {i}
  /\ methods' = Entered(methods, slot, i, FALSE, None)
  /\ UNCHANGED <<slot, over>>

\* next() and rewind() of an iterator pop from its heap; they throw when the
\* same iterator is in one of them.
Move(i) ==
  /\ UserRuns /\ Len(methods) < MaxDepth
  /\ over[i] # None /\ i \notin running
  /\ running' = running \union {i}
  /\ methods' = Entered(methods, slot, i, FALSE, None)
  /\ UNCHANGED <<slot, over>>

\* sort() and sorted() of a sequence, a map or a set, with a callable or none.
Sort(c) ==
  /\ UserRuns /\ Len(methods) < MaxDepth
  /\ slot' = c
  /\ methods' = Entered(methods, c, None, TRUE, slot)
  /\ UNCHANGED <<over, running>>

\* The argument of sort() is no callable: the slot, emptied before the
\* argument is parsed, stays empty.
SortRefused ==
  /\ UserRuns
  /\ slot' = None
  /\ methods' = Disturbed(methods, None)
  /\ UNCHANGED <<over, running>>

-----------------------------------------------------------------------------
(* Steps of the innermost method.                                          *)

\* It compares two values: the slot's callable is called.
Compare ==
  /\ methods # << >> /\ ~Top.calling
  /\ slot # None
  /\ methods' = [methods EXCEPT ![Len(methods)].calling = TRUE]
  /\ UNCHANGED <<slot, over, running>>

\* The callable returns, or throws: the method goes on in both cases.
CallableReturns ==
  /\ methods # << >> /\ Top.calling
  /\ methods' = [methods EXCEPT ![Len(methods)].calling = FALSE]
  /\ UNCHANGED <<slot, over, running>>

\* A mistake: sorted() returns without putting the callable back.
LeftIn == slot

\* What a method leaves in the slot when it ends.
Restored == IF Top.sorts THEN Top.saved ELSE slot

\* A mistake: the flag goes down when any iterator's method ends.
NoneRuns == {}

\* The iterators that still run when the top method ends.
StillRunning == running \ {Top.by}

\* The method ends.  What disturbed it disturbs the one that its caller is in,
\* unless it has put back what it found.
Finish ==
  /\ methods # << >> /\ ~Top.calling
  /\ slot' = Restored
  /\ running' = StillRunning
  /\ methods' = IF Below = << >> \/ Top.sorts THEN Below
                ELSE [Below EXCEPT ![Len(Below)].disturbed = @ \/ Top.disturbed]
  /\ UNCHANGED over

-----------------------------------------------------------------------------
SlotInit ==
  /\ slot = None
  /\ methods = << >>
  /\ over = [i \in Iterator |-> None]
  /\ running = {}

SlotNext ==
  \/ \E h \in Heap : HeapMethod(h)
  \/ \E h \in Heap, i \in Iterator : GetIterator(h, i)
  \/ \E i \in Iterator : DropIterator(i) \/ Move(i)
  \/ \E c \in Sorter \union {None} : Sort(c)
  \/ SortRefused
  \/ Compare \/ CallableReturns
  \/ Finish

SlotSpec == SlotInit /\ [][SlotNext]_slotVars

-----------------------------------------------------------------------------
(* Properties.                                                             *)

\* The methods under way are in each other's callables, and the iterators of
\* those under way are the ones whose flag is set and exist.
SlotTypeOK ==
  /\ slot \in Callable
  /\ methods \in Seq(Method)
  /\ \A n \in DOMAIN methods : n < Len(methods) => methods[n].calling
  /\ over \in [Iterator -> Heap \union {None}]
  /\ running = {methods[n].by : n \in DOMAIN methods} \ {None}
  /\ \A i \in running : over[i] # None

\* What the nesting rests on: a method that is not disturbed will go on with
\* its callable once the one within it ends, which restores it or never left it.
Nested ==
  \A n \in DOMAIN methods :
    n < Len(methods) /\ ~methods[n].disturbed =>
      IF methods[n + 1].sorts
      THEN methods[n + 1].saved = methods[n].uses
      ELSE methods[n + 1].disturbed \/ methods[n + 1].uses = methods[n].uses

\* Sorts nest: a method compares throughout with the callable that it began
\* with, whatever sorts, iterators and methods of the same heap its callables
\* call to whatever depth, unless one of them called another heap or a sort
\* that was refused, and that not within a sort (parameters.h:85-91,
\* php_seq_ce.c:111-138).
UndisturbedKeepTheirs ==
  methods # << >> /\ ~Top.disturbed => slot = Top.uses

\* No iterator is moved from its own comparator, even through other methods
\* (README.md:25, php_heap_iterator.c:56-90).
IteratorsNotReentered ==
  \A m, n \in DOMAIN methods :
    methods[m].by = methods[n].by /\ methods[m].by # None => m = n

\* The inductive invariant of the proofs: each method under way relates to the
\* one it was called from, and the flags of the iterators to both.
SlotIInv == SlotTypeOK /\ Nested /\ UndisturbedKeepTheirs /\ IteratorsNotReentered

\* "Rewinding must preserve the custom comparator's ordering too"
\* (tests/Heap/getIterator_rewind.phpt:26): the comparisons of an iterator are
\* made with the comparator of its heap.
IteratorsCompareAsTheirHeap ==
  [][Compare /\ Top.by # None => slot = over[Top.by]]_slotVars
=============================================================================
