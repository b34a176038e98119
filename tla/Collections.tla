----------------------------- MODULE Collections -----------------------------
(***************************************************************************)
(* Ds\Map and Ds\Set (src/ds/ds_map.c, src/ds/ds_set.c) above the table of *)
(* DsHtable: a collection is the sequence of its entries in buffer order.  *)
(* Modelled are the algebra, which makes a collection out of two, slices   *)
(* and positions, whose integers have a width, and the methods that call   *)
(* the user for each entry, which may throw in the midst of it.            *)
(*                                                                         *)
(* A method's native comparison, a callback's answer and what a Traversable *)
(* yields are the program's choice.                                        *)
(***************************************************************************)
EXTENDS Integers, Sequences, Functions, Scan

CONSTANTS
  Variable,    \* the program's variables, each with a collection
  Key,         \* integers: keys of a map, values of a set
  Value,
  NoValue,     \* what is there for the value of a set's entry, NULL or IS_UNDEF:
               \* nothing reads it; and the value of a map's that is IS_UNDEF
  NoKey,       \* IS_UNDEF, the key of an entry that reads as deleted
  LongBits,    \* the width of zend_long
  IndexBits,   \* the width of uint32_t
  MinCapacity, \* DS_SEQ_MIN_CAPACITY and the like, a power of two
  Argument,    \* the indices and lengths that slices are asked for
  ArrayKeys,   \* sequences of keys: those of the arrays that are passed
  MaxBulk      \* bound of the model: Traversables yield no more

PowerOf2[k \in 0 .. LongBits] == IF k = 0 THEN 1 ELSE 2 * PowerOf2[k - 1]

Long == -PowerOf2[LongBits - 1] .. PowerOf2[LongBits - 1] - 1

\* What a zend_long becomes when it is passed as a uint32_t.
Truncated(n) == n % PowerOf2[IndexBits]

ASSUME WidthAssumption ==
  /\ LongBits \in Nat \ {0} /\ IndexBits \in 1 .. LongBits
  /\ MinCapacity \in {PowerOf2[k] : k \in 0 .. IndexBits - 1}
  /\ Argument \subseteq Long
  /\ Key \subseteq Long /\ \A k \in Key : Truncated(k) \in Key
ASSUME ArrayAssumption == \A ks \in ArrayKeys : ks \in Seq(Key) /\ IsInjective(ks)
ASSUME NoValueAssumption == NoValue \notin Value
ASSUME NoKeyAssumption == NoKey \notin Key

VARIABLES
  entries,    \* the entries of each variable's collection
  kind,       \* "map" or "set"
  call,       \* the method that is calling the user: [op, on, at, built]
  fault       \* "overrun" once a slice went on past the end of the table, "freed"
              \* once an object is left with a set that was freed, "keyless" once
              \* a collection counts an entry without a key

vars == <<entries, kind, call, fault>>

Walks == {"map", "filter", "unserialize"}
Ops == Walks \union {"putAll", "merge"}
NoCall == [op |-> "none", on |-> NoValue, at |-> 0, built |-> << >>]

-----------------------------------------------------------------------------
(* Entries and tables of entries.                                          *)

KeysOf(t) == {t[i].key : i \in DOMAIN t}

\* A mistake: the value of a key that is there already is kept.
PutKeeps(t, e) == IF e.key \in KeysOf(t) THEN t ELSE Append(t, e)

Put(t, e) ==
  IF e.key \in KeysOf(t)
  THEN [i \in DOMAIN t |-> IF t[i].key = e.key THEN e ELSE t[i]]
  ELSE Append(t, e)

\* The entries at the positions S, in order.
Kept(t, S) == [n \in 1 .. Cardinality(S) |-> t[Nth(S, n - 1)]]

Diff(t, u) == Kept(t, {i \in DOMAIN t : t[i].key \notin KeysOf(u)})

Xor(t, u) == Diff(t, u) \o Diff(u, t)

Intersect(t, u) == Kept(t, {i \in DOMAIN t : t[i].key \in KeysOf(u)})

\* The entries of u are put into t, one by one.
Merged(t, u) ==
  LET merged[n \in 0 .. Len(u)] == IF n = 0 THEN t ELSE Put(merged[n - 1], u[n])
  IN  merged[Len(u)]

Without(t, k) == Kept(t, {i \in DOMAIN t : t[i].key # k})

Backwards(t) == [i \in DOMAIN t |-> t[Len(t) + 1 - i]]

\* The orders that qsort may leave the entries in.
Orders(t) ==
  {[i \in DOMAIN t |-> t[p[i]]] : p \in {q \in [DOMAIN t -> DOMAIN t] : IsInjective(q)}}

\* A mistake: a set's bucket takes the value as well.
EntryOfMap(sort, k, v) == [key |-> k, value |-> v]

\* The entry of a map's pair, or of a set's value.
EntryOf(sort, k, v) == [key |-> k, value |-> IF sort = "map" THEN v ELSE NoValue]

-----------------------------------------------------------------------------
(* Positions and slices.                                                   *)

AtLeast0(n) == IF n < 0 THEN 0 ELSE n

\* Addition of zend_longs: an overflow is undefined, and the build either
\* wraps it around or compares the sum as if there were none.
Sums(i, n) ==
  LET half == PowerOf2[LongBits - 1]
  IN  {i + n, ((i + n + half) % PowerOf2[LongBits]) - half}

\* A mistake: a negative index counts from the position after the end.
SliceFromAfter(i, size) == IF i < 0 THEN AtLeast0(size + i + 1) ELSE i

SliceFrom(i, size) == IF i < 0 THEN AtLeast0(size + i) ELSE i

\* The lengths that slice arguments <<i, n>> may be normalised to.
SliceLengths(i, n, size) ==
  LET from == SliceFrom(i, size)
      len == IF n < 0 THEN AtLeast0(size + n - from) ELSE n
  IN  IF size = 0 \/ i >= size THEN {0}
      ELSE {IF sum > size THEN AtLeast0(size - from) ELSE len : sum \in Sums(from, len)}

\* The slice of a length within the table.
SliceOf(t, i, len) ==
  IF len = 0 THEN << >>
  ELSE SubSeq(t, SliceFrom(i, Len(t)) + 1, SliceFrom(i, Len(t)) + len)

ReachesPastEnd(t, i, len) == len > 0 /\ SliceFrom(i, Len(t)) + len > Len(t)

\* A mistake: the position after the last is let through.
FoundUpTo(t, p) == IF Truncated(p) <= Len(t) THEN Truncated(p) + 1 ELSE 0

\* Where lookup_by_position finds position p, or 0: skip, get, first and last.
Found(t, p) == IF Truncated(p) < Len(t) THEN Truncated(p) + 1 ELSE 0

\* ds_next_power_of_2(n, min): the bits below the highest one of n - 1 are set,
\* and adding 1 carries over the top of a uint32_t.
NextPowerOf2(n, min) ==
  IF n < min THEN min
  ELSE Truncated(CHOOSE p \in {PowerOf2[k] : k \in 0 .. IndexBits} :
                   n <= p /\ (p = 1 \/ p \div 2 < n))

\* The capacity that is allocated for n values, and for allocate(n).
CapacityFor(n) == NextPowerOf2(Truncated(n), MinCapacity)

-----------------------------------------------------------------------------
(* What the program does at once.                                          *)

\* What the user's code does in the midst of merge, map or filter does not
\* reach the method, which fills a table of its own; that it may change the
\* collection that map and filter walk is the subject of CopyOnWrite.  putAll
\* puts into the collection that is there at each step.
Open == fault = "none" /\ call.op \in {"none", "putAll"}

\* The variable of an object whose method is under way keeps the object.
Assignable(x) == Open /\ call.on # x

Change(x, t) ==
  /\ Open
  /\ entries' = [entries EXCEPT ![x] = t]
  /\ UNCHANGED <<kind, call, fault>>

Assign(x, sort, t) ==
  /\ Assignable(x)
  /\ entries' = [entries EXCEPT ![x] = t]
  /\ kind' = [kind EXCEPT ![x] = sort]
  /\ UNCHANGED <<call, fault>>

\* put, add, $map[k] = v and $set[] = v.
PutOne(x, k, v) == Change(x, Put(entries[x], EntryOf(kind[x], k, v)))

\* remove; when the key is not there a map's throws or returns the default.
RemoveOne(x, k) ==
  /\ k \in KeysOf(entries[x])
  /\ Change(x, Without(entries[x], k))

\* unset($map[k]), which a set does not support.
Unset(x, k) == kind[x] = "map" /\ Change(x, Without(entries[x], k))

Clear(x) == Change(x, << >>)

\* sort and ksort, whatever the comparison answers.
Sort(x) == \E t \in Orders(entries[x]) : Change(x, t)

ReverseAll(x) == Change(x, Backwards(entries[x]))

\* apply() with a callback that leaves the map alone, and throws after n.
Apply(x, n, v) ==
  /\ kind[x] = "map"
  /\ Change(x, [i \in DOMAIN entries[x] |->
                  IF i <= n THEN [entries[x][i] EXCEPT !.value = v] ELSE entries[x][i]])

PhpArrays ==
  UNION {{[i \in DOMAIN ks |-> [key |-> ks[i], value |-> vs[i]]] :
            vs \in [DOMAIN ks -> Value]} : ks \in ArrayKeys}

\* putAll and the constructor of a map with an array whose keys are integers: the
\* loop reads each into a uint32_t.
PutArray(x, a) ==
  /\ kind[x] = "map"
  /\ Change(x, Merged(entries[x],
       [i \in DOMAIN a |-> [a[i] EXCEPT !.key = Truncated(@)]]))

\* The same of a set, which takes the array's values and leaves its keys.
AddArray(x, a) ==
  /\ kind[x] = "set"
  /\ Change(x, Merged(entries[x], [i \in DOMAIN a |-> EntryOf("set", a[i].key, NoValue)]))

\* new Ds\Map and new Ds\Set.
New(x, sort) == Assign(x, sort, << >>)

\* copy() and clone.
Copy(x, y) == Assign(x, kind[y], entries[y])

\* sorted() and ksorted().
Sorted(x, y) == \E t \in Orders(entries[y]) : Assign(x, kind[y], t)

Reversed(x, y) == Assign(x, kind[y], Backwards(entries[y]))

\* keys(): a set over a clone of the map's table.  The values stay in it, but
\* nothing reads a value through a set.
Keys(x, y) ==
  /\ kind[y] = "map"
  /\ Assign(x, "set", [i \in DOMAIN entries[y] |->
                        EntryOf("set", entries[y][i].key, NoValue)])

\* __serialize() gives the pairs of a map or the values of a set, each with its
\* own key whatever its width, and __unserialize() puts them into a new one.
RoundTrip(x, y) == Assign(x, kind[y], Merged(<< >>, entries[y]))

\* diff, intersect, xor and union.
Combine(x, y, z) ==
  /\ kind[y] = kind[z]
  /\ LET t == entries[y]
         u == entries[z]
     IN  \E r \in {Diff(t, u), Intersect(t, u), Xor(t, u), Merged(t, u)} :
           Assign(x, kind[y], r)

Slice(x, y, i, n) ==
  \E len \in SliceLengths(i, n, Len(entries[y])) :
    IF ReachesPastEnd(entries[y], i, len)
    THEN /\ Assignable(x)
         /\ fault' = "overrun" /\ UNCHANGED <<entries, kind, call>>
    ELSE Assign(x, kind[y], SliceOf(entries[y], i, len))

-----------------------------------------------------------------------------
(* Methods that call the user for each entry.                              *)

Busy(op) == fault = "none" /\ call.op = op

\* What a method starts from: merge clones the collection and puts into the
\* clone, the others fill a table of their own.
StartsFrom(op, x) == IF op = "merge" THEN entries[x] ELSE << >>

\* putAll and the constructors with a Traversable, merge, map and filter; and
\* the unserialize handlers, which read what the serialize handlers wrote of a
\* collection.
Begin(op, x) ==
  /\ fault = "none" /\ call = NoCall
  /\ call' = [op |-> op, on |-> x, at |-> 0, built |-> StartsFrom(op, x)]
  /\ UNCHANGED <<entries, kind, fault>>

\* The Traversable yields v for key k, or k itself to a set.
PutNext(k, v) ==
  /\ call.at < MaxBulk
  /\ LET e == EntryOf(kind[call.on], k, v)
     IN  \/ /\ Busy("putAll")
            /\ entries' = [entries EXCEPT ![call.on] = Put(@, e)]
            /\ call' = [call EXCEPT !.at = @ + 1]
         \/ /\ Busy("merge")
            /\ call' = [call EXCEPT !.at = @ + 1, !.built = Put(@, e)]
            /\ UNCHANGED entries
  /\ UNCHANGED <<kind, fault>>

\* The Traversable's current() or key() throws: the put that follows does not look
\* for the exception, and adds an entry under the key that is unset by then, with
\* what current() gave.  It is counted but reads as deleted.  That of a merge
\* is freed with what was built.
YieldThrows(v) ==
  /\ call' = NoCall
  /\ \/ /\ Busy("putAll")
        /\ entries' = [entries EXCEPT
             ![call.on] = Append(@, EntryOf(kind[call.on], NoKey, v))]
        /\ fault' = "keyless"
     \/ Busy("merge") /\ UNCHANGED <<entries, fault>>
  /\ UNCHANGED kind

\* A mistake: the walk goes through the buckets from the end.
CurrentFromEnd == entries[call.on][Len(entries[call.on]) - call.at]

Current == entries[call.on][call.at + 1]

Walking(op) == Busy(op) /\ call.at < Len(entries[call.on])

WalkOn(built) ==
  /\ call' = [call EXCEPT !.at = @ + 1, !.built = built]
  /\ UNCHANGED <<entries, kind, fault>>

\* A mistake: a set's map() takes each answer as a new value.
AddMappedTwice(t, k) == Append(t, EntryOf("set", k, NoValue))

AddMapped(t, k) == Put(t, EntryOf("set", k, NoValue))

\* The callback returns the value for a map's key, or a value of the new set.
MapNext(k, v) ==
  /\ Walking("map")
  /\ WalkOn(IF kind[call.on] = "map"
            THEN Append(call.built, [key |-> Current.key, value |-> v])
            ELSE AddMapped(call.built, k))

\* The callback returns TRUE or FALSE; without one the entry's own truth does.
FilterNext(answer) ==
  /\ Walking("filter")
  /\ WalkOn(IF answer THEN Append(call.built, Current) ELSE call.built)

\* The entries are written and read in buffer order.
UnserializeNext ==
  /\ Walking("unserialize")
  /\ WalkOn(Put(call.built, Current))

\* What was written cannot be read on from here: it was cut short, or an entry of
\* it is refused.  A map is freed and there is no object yet; a set is freed under
\* the object that was made for it.
UnserializeFails ==
  /\ Busy("unserialize")
  /\ IF kind[call.on] = "set"
     THEN fault' = "freed" /\ UNCHANGED <<entries, kind, call>>
     ELSE call' = NoCall /\ UNCHANGED <<entries, kind, fault>>

\* The Traversable, the table or what was written is at its end.
Return(x) ==
  /\ call # NoCall /\ fault = "none"
  /\ call.op \in Walks => call.at = Len(entries[call.on])
  /\ call' = NoCall
  /\ IF call.op = "putAll" THEN UNCHANGED <<entries, kind>>
     ELSE /\ entries' = [entries EXCEPT ![x] = call.built]
          /\ kind' = [kind EXCEPT ![x] = kind[call.on]]
  /\ UNCHANGED fault

\* The callback throws, or the Traversable in rewind(), valid() or next(): what was
\* built is freed, what was put stays.
Throw ==
  /\ call.op \in Ops \ {"unserialize"} /\ fault = "none"
  /\ call' = NoCall
  /\ UNCHANGED <<entries, kind, fault>>

\* Execution is not followed past a fault.
Stopped == fault # "none" /\ UNCHANGED vars

-----------------------------------------------------------------------------
Init ==
  /\ entries = [x \in Variable |-> << >>]
  /\ kind \in [Variable -> {"map", "set"}]
  /\ call = NoCall
  /\ fault = "none"

Next ==
  \/ \E x \in Variable, k \in Key :
       RemoveOne(x, k) \/ Unset(x, k) \/ \E v \in Value : PutOne(x, k, v)
  \/ \E x \in Variable : Clear(x) \/ Sort(x) \/ ReverseAll(x)
  \/ \E x \in Variable, a \in PhpArrays : PutArray(x, a) \/ AddArray(x, a)
  \/ \E x \in Variable, v \in Value : \E n \in DOMAIN entries[x] : Apply(x, n, v)
  \/ \E x \in Variable, sort \in {"map", "set"} : New(x, sort)
  \/ \E x, y \in Variable :
       \/ Copy(x, y) \/ Sorted(x, y) \/ Reversed(x, y) \/ Keys(x, y)
       \/ RoundTrip(x, y)
       \/ \E i, n \in Argument : Slice(x, y, i, n)
  \/ \E x, y, z \in Variable : Combine(x, y, z)
  \/ \E x \in Variable : Return(x) \/ \E op \in Ops : Begin(op, x)
  \/ \E k \in Key, v \in Value : PutNext(k, v) \/ MapNext(k, v)
  \/ \E v \in Value \union {NoValue} : YieldThrows(v)
  \/ \E answer \in BOOLEAN : FilterNext(answer)
  \/ UnserializeNext \/ UnserializeFails
  \/ Throw
  \/ Stopped

Spec == Init /\ [][Next]_vars

-----------------------------------------------------------------------------
(* Properties.                                                             *)

EntryOfKind(sort) ==
  [key : Key, value : IF sort = "map" THEN Value ELSE {NoValue}]

OfItsKind(x) == entries[x] \in Seq(EntryOfKind(kind[x]))

\* The last entry is one that nobody finds, and the others are as they should be.
EndsKeyless(x) ==
  LET last == Len(entries[x]) IN
  /\ entries[x] \in Seq([key : Key \union {NoKey}, value : Value \union {NoValue}])
  /\ last > 0 /\ entries[x][last].key = NoKey
  /\ SubSeq(entries[x], 1, last - 1) \in Seq(EntryOfKind(kind[x]))

\* Maps hold pairs and sets hold values, also those being built, and a method
\* under way has an object (ds_map.h, ds_set.h).  Only a Traversable whose
\* current() or key() throws leaves more than that behind: one entry without a
\* key, the last of the collection that it was put into, while the
\* others are sound (ds_map.c:282-292, ds_set.c:68-72).
TypeOK ==
  /\ kind \in [Variable -> {"map", "set"}]
  /\ DOMAIN entries = Variable
  /\ IF fault = "keyless"
     THEN \E x \in Variable : EndsKeyless(x) /\ \A y \in Variable \ {x} : OfItsKind(y)
     ELSE \A x \in Variable : OfItsKind(x)
  /\ \/ call = NoCall
     \/ call \in [op : Ops, on : Variable, at : Nat,
                  built : Seq(EntryOfKind(kind[call.on]))]
  /\ fault \in {"none", "overrun", "freed", "keyless"}

DistinctKeys(t) == \A i, j \in DOMAIN t : t[i].key = t[j].key => i = j

\* No collection, finished or being built, has a key twice: diff, intersect,
\* xor, slice, map and filter fill their results without looking for the key
\* (ds_htable.c:663-676, 878-1050, 1084-1135; ds_set.c:307-420).
KeysDistinct ==
  /\ \A x \in Variable : DistinctKeys(entries[x])
  /\ DistinctKeys(call.built)

\* The operations on two collections fit together, order and values included:
\* xor is what is left of the union without the intersection, the union has
\* the other's values where both have a key, and taking the difference twice
\* leaves the intersection (ds_htable.c:1084-1148).
AlgebraFits ==
  fault # "keyless" => \A x, y \in Variable :
    LET t == entries[x]
        u == entries[y]
        union == Merged(t, u)
    IN  /\ Xor(t, u) = Diff(union, Intersect(t, u))
        /\ KeysOf(Xor(Xor(t, u), u)) = KeysOf(t)
        /\ Diff(t, Diff(t, u)) = Intersect(t, u)
        /\ Intersect(u, union) = u
        /\ \A i \in DOMAIN u : \E j \in DOMAIN union : u[i] = union[j]

\* The positions, from 0, that slice(i, n) of a table of that size names.
Named(i, n, size) ==
  LET from == IF i < 0 THEN size + i ELSE i
      to == IF n < 0 THEN size + n ELSE AtLeast0(from) + n
  IN  {p \in 0 .. size - 1 : from <= p /\ p < to}

\* For every index and length, up to the limits of zend_long, a slice has the
\* entries of the positions named, in order; only an index and a length whose
\* sum overflows take it past the end of the table (common.c:115-147).
SlicesExplained ==
  fault # "keyless" => \A x \in Variable : \A i, n \in Argument :
    LET t == entries[x]
        size == Len(t)
    IN  \A len \in SliceLengths(i, n, size) :
          IF ReachesPastEnd(t, i, len)
          THEN n > 0 /\ SliceFrom(i, size) + n \notin Long
          ELSE LET s == SliceOf(t, i, len)
                   N == Named(i, n, size)
               IN  /\ \A p \in N : \E j \in DOMAIN s : s[j] = t[p + 1]
                   /\ \A j \in DOMAIN s : \E p \in N : s[j] = t[p + 1]
                   /\ \A j \in 1 .. Len(s) - 1 : \A p, q \in N :
                        s[j] = t[p + 1] /\ s[j + 1] = t[q + 1] => p < q

PositionsFound(t) ==
  \A p \in Long :
    \/ p \in 0 .. Len(t) - 1 /\ Found(t, p) = p + 1
    \/ p \notin 0 .. Len(t) - 1 /\ Found(t, p) = 0
    \/ p \notin 0 .. PowerOf2[IndexBits] - 1 /\ Truncated(p) < Len(t)

CapacitiesHold ==
  \A n \in Long : n >= 0 =>
    \/ CapacityFor(n) >= n /\ (CapacityFor(n) < 2 * n \/ CapacityFor(n) = MinCapacity)
    \/ n > PowerOf2[IndexBits - 1]

\* skip() and get() find the entry at their position and refuse every other
\* position, unless it is one that a uint32_t cannot hold: that is taken for
\* another.  A capacity holds what it is made for, and not twice as much, up to
\* half the range of a uint32_t; beyond, it may be 0 or too small
\* (ds_map.c:269-279, ds_set.c:130-140, ds_htable.c:392-396, common.c:8-21).
NarrowingExplained ==
  /\ CapacitiesHold
  /\ fault # "keyless" => \A x \in Variable : PositionsFound(entries[x])

IsSubSeqOf(s, t) ==
  \E f \in [DOMAIN s -> DOMAIN t] :
    /\ \A i, j \in DOMAIN s : i < j => f[i] < f[j]
    /\ \A i \in DOMAIN s : s[i] = t[f[i]]

KeySeq(t) == [i \in DOMAIN t |-> t[i].key]

\* Whatever the callbacks answer and change elsewhere, what is built follows the
\* entries walked so far: a map's map() has just their keys, a set's has no more
\* values than there were, filter() has some of them in the same order, and
\* unserialize() has them all.  One that fails leaves no object behind, but for a
\* set's, whose object keeps the set that was freed
\* (ds_htable.c:974-1050, 1205-1270, ds_set.c:307-420, php_set.c:58-88).
BuiltFollowsSource ==
  call.op \in Walks =>
    LET walked == SubSeq(entries[call.on], 1, call.at)
    IN  /\ call.op = "unserialize" => call.built = walked
        /\ call.op = "filter" => IsSubSeqOf(KeySeq(call.built), KeySeq(walked))
        /\ call.op = "map" => IF kind[call.on] = "map"
                              THEN KeySeq(call.built) = KeySeq(walked)
                              ELSE Len(call.built) <= call.at
        /\ fault = "freed" => call.op = "unserialize" /\ kind[call.on] = "set"

\* The entries whose keys no key of the array a is taken for.
Untouched(t, a) ==
  {t[j] : j \in {m \in DOMAIN t :
                  \A i \in DOMAIN a : Truncated(a[i].key) # t[m].key}}

\* After putAll of an array its pairs are in the map, but for the keys that a
\* uint32_t cannot hold, and those that such a key of the array is taken for;
\* the entries of other keys are as they were (ds_map.c:299-315).
ArraysExplained ==
  [][\A x \in Variable, a \in PhpArrays :
       PutArray(x, a) =>
         LET after == {entries'[x][j] : j \in DOMAIN entries'[x]} IN
         /\ Untouched(entries[x], a) \subseteq after
         /\ \A i \in DOMAIN a :
              \/ a[i] \in after
              \/ a[i].key \notin 0 .. PowerOf2[IndexBits] - 1
              \/ \E j \in DOMAIN a : j # i /\ Truncated(a[j].key) = a[i].key]_vars
=============================================================================
