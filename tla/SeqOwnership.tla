---------------------------- MODULE SeqOwnership ----------------------------
(***************************************************************************)
(* What Ds\Seq owns (src/ds/ds_seq.c, src/php/handlers): one reference to  *)
(* the value in each cell of its window, and the references its methods    *)
(* hold while they run.  The buffer is that of DsSeq with its cells as     *)
(* they are: moves leave copies of the bits they moved behind.             *)
(*                                                                         *)
(* map, filter, apply, set and clear run user code, callbacks or the       *)
(* destructor of a value they release, between their accesses to the       *)
(* buffer.  That code may edit the sequence.  Values taken out go to the   *)
(* program, which may release them once the method has returned.           *)
(***************************************************************************)
EXTENDS Integers, Sequences, FiniteSets

CONSTANTS
  Value, Hole, MinCapacity, Capacities, MaxSize,
  Gone,      \* the bits of a value whose reference has been released
  MaxLost    \* bound of the model: references that maps have lost

ASSUME GoneAssumption == Hole \notin Value /\ Gone \notin Value /\ Gone # Hole
ASSUME CapacityAssumption ==
  /\ Capacities \subseteq Nat \ {0}
  /\ MinCapacity \in Capacities
  /\ \A c \in Capacities : c >= MinCapacity
  /\ \A c \in Capacities : c \div 2 >= MinCapacity => c \div 2 \in Capacities
ASSUME SizeAssumption ==
  /\ MaxSize \in Nat /\ MaxLost \in Nat
  /\ \A n \in 0 .. MaxSize : \E c \in Capacities : n <= c
  /\ \A c \in Capacities : c < MaxSize => 2 * c \in Capacities

VARIABLES
  seq,       \* the ds_seq_t
  counted,   \* for each value, the references counted for seq and its methods
  lost,      \* for each value, those that no one will release any more
  copies,    \* moves may have left copies of values outside of the window
  call,      \* the method whose user code may run, and its local variables
  fault      \* what the method did to cells that are not what it expects

vars == <<seq, counted, lost, copies, call, fault>>

S == INSTANCE DsSeq WITH
  Value <- Value \union {Gone}, MaxArgs <- 1, MaxTurns <- 0,
  pc <- "idle", lo <- 0, hi <- 0, turns <- 0, fault <- "none"

Faults ==
  {"overrun",   \* a cell past the buffer was used
   "freed",     \* a pointer into a buffer that was replaced was used
   "twice",     \* a reference was released or handed out again
   "astray",    \* a cell outside of the window was used as if inside
   "misfit"}    \* a result has another size than it was built for

\* No method is under way.
NoCall ==
  [op |-> "none", phase |-> "walk", at |-> 0, head |-> 0, size |-> 0,
   capacity |-> 0, built |-> << >>, freed |-> FALSE, edited |-> FALSE]

\* DS_SEQ_FOREACH reads head, size and capacity once.
Walk(op) ==
  [NoCall EXCEPT !.op = op, !.head = seq.head, !.size = seq.size,
                 !.capacity = seq.capacity]

\* The cell that the walk is at.
Current == (call.head + call.at) % call.capacity

Live(c) == c \in S!Window(seq) /\ seq.buffer[c] \in Value

\* How often v occurs in the values vs.
Times(v, vs) == Cardinality({i \in DOMAIN vs : vs[i] = v})

Counting(vs) == [v \in Value |-> counted[v] + Times(v, vs)]

Releasing(vs) == [v \in Value |-> counted[v] - Times(v, vs)]

Fails(kind) ==
  /\ fault' = kind
  /\ UNCHANGED <<seq, counted, lost, copies, call>>

-----------------------------------------------------------------------------
(* Edits: all of push, unshift, insert, remove and reset_head, outside of  *)
(* any method or from the user code of one.                                *)

UserCode == call.op = "none" \/ call.phase \in {"callback", "destructor"}

\* reset_head moves the values to the front within their buffer.
ResetsInPlace(s) ==
  s.head # 0 /\ (s.head < s.tail \/ S!RoomBetween(s.head, s.tail, s.capacity - s.head))

\* reset_head moves them into a new buffer.
ResetsApart == seq.head # 0 /\ ~ResetsInPlace(seq)

\* s is what the edit makes of the sequence.  The buffer is replaced when the
\* capacity changes, or reset_head, the only edit that keeps the size, has no
\* room.
Edited(s, refs, leaves) ==
  /\ seq' = s
  /\ counted' = refs
  /\ copies' = leaves
  /\ call' = IF call.op = "none" THEN call
             ELSE [call EXCEPT !.edited = TRUE,
                     !.freed = @ \/ s.capacity # seq.capacity \/ (s.size = seq.size /\ ResetsApart)]
  /\ UNCHANGED <<lost, fault>>

EditFails(kind) ==
  /\ fault' = kind
  /\ call' = [call EXCEPT !.edited = call.op # "none"]
  /\ UNCHANGED <<seq, counted, lost, copies>>

\* Growth of a full buffer leaves nothing outside of its values.
Grown == IF S!Full(seq) THEN S!Reallocate(seq, 2 * seq.capacity) ELSE seq

Push(v) ==
  /\ UserCode
  /\ seq.size < MaxSize
  /\ IF Grown.tail = Grown.capacity THEN EditFails("overrun")
     ELSE Edited(S!Pushed(Grown, <<v>>), Counting(<<v>>), copies /\ ~S!Full(seq))

Unshift(v) ==
  /\ UserCode
  /\ seq.size < MaxSize
  /\ Edited(S!Unshifted(Grown, <<v>>), Counting(<<v>>), copies /\ ~S!Full(seq))

\* Making room on the right of a full right side moves all values to the front.
Insert(p, v) ==
  /\ UserCode
  /\ seq.size < MaxSize
  /\ Edited(S!Inserted(Grown, p, <<v>>), Counting(<<v>>),
            \/ copies /\ ~S!Full(seq)
            \/ S!Cell(Grown, p) <= Grown.tail /\ S!OverflowsRight(Grown, 1))

\* What a removal that makes s, before it truncates, leaves behind: values
\* moved right leave their first cell, values moved left take the cell at tail
\* along, which is that of the first value when the buffer is full.
RemovalLeaves(i) ==
  LET s == [seq EXCEPT !.size = @ - 1] IN
  \/ i \notin {S!Cell(seq, 0), S!Cell(seq, seq.size - 1)} /\ (i >= seq.tail \/ S!Full(seq))
  \/ S!Truncates(s)

Remove(p) ==
  /\ UserCode
  /\ LET i == S!Cell(seq, p)
         inner == p \notin {0, seq.size - 1}
     IN  IF seq.buffer[i] = Gone THEN EditFails("twice")
         ELSE IF inner /\ S!Overreads(seq, i) THEN EditFails("overrun")
         ELSE Edited(IF p = 0 THEN S!Shifted(seq)
                     ELSE IF inner THEN S!Closed([seq EXCEPT !.buffer[i] = Hole], i)
                     ELSE S!Popped(seq),
                     Releasing(<<seq.buffer[i]>>),
                     copies \/ RemovalLeaves(i))

\* join() and sort() move the values to the front.  An empty sequence whose
\* head has moved is taken for a full one, and its buffer copied.
ResetHead ==
  /\ UserCode
  /\ Edited(S!ResetHead(seq), counted,
            ResetsInPlace(seq) \/ (copies /\ (seq.size = 0 \/ ~ResetsApart)))

-----------------------------------------------------------------------------
(* map() and filter(), which build a new buffer.                           *)

Begin(op) ==
  /\ call.op = "none"
  /\ call' = Walk(op)
  /\ UNCHANGED <<seq, counted, lost, copies, fault>>

Finish == call' = NoCall

\* The callback is called with the value in the current cell.
CallBack ==
  /\ call.op \in {"map", "filter", "apply"}
  /\ call.phase = "walk" /\ call.at < call.size
  /\ IF Current >= seq.capacity THEN Fails("overrun")
     ELSE IF ~Live(Current) THEN Fails("astray")
     ELSE /\ call' = [call EXCEPT !.phase = "callback", !.freed = FALSE]
          /\ UNCHANGED <<seq, counted, lost, copies, fault>>

Calling(op) == call.op = op /\ call.phase = "callback"

\* The value vs, none or one, goes to the new buffer.
Built(vs) ==
  /\ call' = [call EXCEPT !.phase = "walk", !.at = @ + 1, !.built = @ \o vs]
  /\ counted' = Counting(vs)
  /\ UNCHANGED <<seq, lost, copies, fault>>

MapReturns(v) == Calling("map") /\ Built(<<v>>)

\* The value that filter() keeps is read again, from where it was.
FilterReturns(keeps) ==
  /\ Calling("filter")
  /\ IF ~keeps THEN Built(<< >>)
     ELSE IF call.freed THEN Fails("freed")
     ELSE IF ~Live(Current) THEN Fails("astray")
     ELSE Built(<<seq.buffer[Current]>>)

\* A mistake: filter() stops before the first value, as map() does.
ReleasedAsInMap(op, vs) == IF vs = << >> THEN vs ELSE Tail(vs)

\* What is released of the values built when the callback of op throws: map()
\* leaves out the first one.
Released(op, vs) == IF op = "map" /\ vs # << >> THEN Tail(vs) ELSE vs

BuildThrows ==
  /\ Calling("map") \/ Calling("filter")
  /\ counted' = Releasing(Released(call.op, call.built))
  /\ lost' = IF Calling("map") /\ call.built # << >>
             THEN [lost EXCEPT ![Head(call.built)] = @ + 1]
             ELSE lost
  /\ \A v \in Value : lost'[v] <= MaxLost
  /\ Finish
  /\ UNCHANGED <<seq, copies, fault>>

\* The new sequence is the program's.  map() gives it the size and capacity
\* that this one has now.
BuildEnds ==
  /\ call.op \in {"map", "filter"}
  /\ call.phase = "walk" /\ call.at = call.size
  /\ IF call.op = "map" /\ (seq.size # call.size \/ seq.capacity # call.capacity)
     THEN Fails("misfit")
     ELSE /\ counted' = Releasing(call.built)
          /\ Finish
          /\ UNCHANGED <<seq, lost, copies, fault>>

-----------------------------------------------------------------------------
(* apply() and set(), which release a value and put another in its cell,   *)
(* and clear(), which releases them all.                                   *)

\* The value in the current cell is released; its destructor may run.
Destroy(next) ==
  IF call.freed THEN Fails("freed")
  ELSE IF Current >= seq.capacity THEN Fails("overrun")
  ELSE IF ~Live(Current) THEN Fails("astray")
  ELSE /\ seq' = [seq EXCEPT !.buffer[Current] = Gone]
       /\ call' = [next EXCEPT !.phase = "destructor", !.freed = FALSE]
       /\ counted' = [Counting(next.built) EXCEPT ![seq.buffer[Current]] = @ - 1]
       /\ UNCHANGED <<lost, copies, fault>>

ApplyReturns(v) == Calling("apply") /\ Destroy([call EXCEPT !.built = <<v>>])

\* Values that the callback has not reached stay.
ApplyThrows ==
  /\ Calling("apply")
  /\ Finish
  /\ UNCHANGED <<seq, counted, lost, copies, fault>>

\* The call of set() holds the argument itself.
SetReleases(p, v) ==
  /\ call.op = "none"
  /\ LET c == [Walk("set") EXCEPT !.at = p, !.built = <<v>>, !.phase = "destructor"]
         i == S!Cell(seq, p)
     IN  /\ seq' = [seq EXCEPT !.buffer[i] = Gone]
         /\ counted' = [Counting(<<v>>) EXCEPT ![seq.buffer[i]] = @ - 1]
         /\ call' = c
  /\ UNCHANGED <<lost, copies, fault>>

\* The new value is written to where the old one was.
Store ==
  /\ call.op \in {"apply", "set"} /\ call.phase = "destructor"
  /\ IF call.freed THEN Fails("freed")
     ELSE IF Current \notin S!Window(seq) \/ seq.buffer[Current] # Gone
     THEN Fails("astray")
     ELSE /\ seq' = [seq EXCEPT !.buffer[Current] = call.built[1]]
          /\ call' = IF call.op = "set" THEN NoCall
                     ELSE [call EXCEPT !.phase = "walk", !.at = @ + 1, !.built = << >>]
          /\ UNCHANGED <<counted, lost, copies, fault>>

ApplyEnds ==
  /\ call.op = "apply" /\ call.phase = "walk" /\ call.at = call.size
  /\ Finish
  /\ UNCHANGED <<seq, counted, lost, copies, fault>>

\* Nothing is done to a cell that a destructor has emptied.
ClearReleases ==
  /\ call.op = "clear" /\ call.phase = "walk" /\ call.at < call.size
  /\ IF Current < seq.capacity /\ seq.buffer[Current] = Hole
     THEN /\ call' = [call EXCEPT !.at = @ + 1]
          /\ UNCHANGED <<seq, counted, lost, copies, fault>>
     ELSE IF Current < seq.capacity /\ seq.buffer[Current] = Gone THEN Fails("twice")
     ELSE Destroy(call)

ClearGoesOn ==
  /\ call.op = "clear" /\ call.phase = "destructor"
  /\ call' = [call EXCEPT !.phase = "walk", !.at = @ + 1, !.freed = FALSE]
  /\ UNCHANGED <<seq, counted, lost, copies, fault>>

\* size is reset last: what destructors have put in is dropped.
ClearEnds ==
  /\ call.op = "clear" /\ call.phase = "walk" /\ call.at = call.size
  /\ IF \E i \in S!Window(seq) : seq.buffer[i] \in Value THEN Fails("astray")
     ELSE /\ seq' = S!Cleared(seq)
          /\ copies' = (copies \/ call.size > 0)
          /\ Finish
          /\ UNCHANGED <<counted, lost, fault>>

Methods == {"map", "filter", "apply", "clear"}

\* Execution is not followed past a fault.
Stopped == fault # "none" /\ UNCHANGED vars

-----------------------------------------------------------------------------
Init ==
  /\ seq = S!Fresh(MinCapacity)
  /\ counted = [v \in Value |-> 0] /\ lost = [v \in Value |-> 0]
  /\ copies = FALSE
  /\ call = NoCall
  /\ fault = "none"

Position == 0 .. seq.size - 1

Edit ==
  \/ \E v \in Value : Push(v) \/ Unshift(v)
  \/ \E p \in 1 .. seq.size - 1, v \in Value : Insert(p, v)
  \/ \E p \in Position : Remove(p)
  \/ ResetHead

Next ==
  \/ /\ fault = "none"
     /\ \/ Edit
        \/ \E op \in Methods : Begin(op)
        \/ CallBack
        \/ \E v \in Value : MapReturns(v) \/ ApplyReturns(v)
        \/ \E keeps \in BOOLEAN : FilterReturns(keeps)
        \/ BuildThrows \/ BuildEnds
        \/ \E p \in Position, v \in Value : SetReleases(p, v)
        \/ ApplyThrows \/ Store \/ ApplyEnds
        \/ ClearReleases \/ ClearGoesOn \/ ClearEnds
  \/ Stopped

Spec == Init /\ [][Next]_vars

-----------------------------------------------------------------------------
(* Properties.                                                             *)

\* The sequence keeps the shape of a ds_seq_t over raw cells (ds_seq.h:31-38),
\* and no count is negative.
TypeOK ==
  /\ S!TypeOK
  /\ counted \in [Value -> Nat] /\ lost \in [Value -> 0 .. MaxLost]
  /\ copies \in BOOLEAN
  /\ call.op \in Methods \union {"none", "set"}
  /\ call.phase \in {"walk", "callback", "destructor"}
  /\ call.at \in 0 .. MaxSize
  /\ fault \in Faults \union {"none"}

\* How many cells of the set cs hold v.
Holding(cs, v) == Cardinality({i \in cs : seq.buffer[i] = v})

\* Every reference counted is one of a cell of the window, or one that the
\* method under way holds, or the first result of a map() whose callback threw,
\* which no one releases: nothing else is lost and nothing is released twice,
\* whatever is moved, and whoever edits the sequence from a callback or a
\* destructor, unless the method meets a fault, and a fault needs such an edit
\* or a tail left at the capacity (ds_seq.c:200-213, 693-790, 400).
CountsBalance ==
  IF fault = "none"
  THEN \A v \in Value :
         counted[v] = Holding(S!Window(seq), v) + Times(v, call.built) + lost[v]
  ELSE call.edited \/ seq.tail = seq.capacity

\* A mistake: the cells from the first one on, wherever head is.
FirstCells == 0 .. seq.size - 1

\* The cells that get_gc hands to the cycle collector.
ReportedCells == 0 .. (IF seq.head = 0 THEN seq.size ELSE seq.capacity) - 1

\* The collector is told of exactly the references that the sequence owns,
\* though get_gc hands it cells outside of the window when head has moved: a
\* removal unsets the cell it empties.  It is told of more only while a method
\* has released a value that still lies in its cell, and after moves or clear()
\* have left copies in the buffer (php_seq_handlers.c:115-122, common.h:60-72).
CollectorSeesOwn ==
  (fault = "none" /\ call.phase # "destructor" /\ call.op # "clear"
     /\ (seq.head = 0 \/ ~copies)) =>
    /\ \A v \in Value : Holding(ReportedCells, v) = Holding(S!Window(seq), v)
    /\ Holding(ReportedCells, Gone) = 0

=============================================================================
