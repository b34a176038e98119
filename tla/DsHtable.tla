------------------------------ MODULE DsHtable ------------------------------
(***************************************************************************)
(* The hash table under Ds\Map and Ds\Set (src/ds/ds_htable.c): a bucket   *)
(* buffer in insertion order, a lookup array whose entries head collision  *)
(* chains threaded through the buckets, deletion by undefining a bucket,   *)
(* and the pack, rehash, growth and truncation that keep the buffer small. *)
(*                                                                         *)
(* A table is a record with the fields of ds_htable_t; the functions of    *)
(* the source that edit a table in place are operators from tables to      *)
(* tables.  A lookup is a loop that may call user code (`equals`) at each  *)
(* bucket, so the walk along a collision chain is a step per bucket.       *)
(***************************************************************************)
EXTENDS Integers, FiniteSets, Scan

CONSTANTS
  Key, Value,        \* user keys and values; one Key per class of equal keys
  Undef,             \* the type tag of a deleted bucket's key
  Hash,              \* Hash[k]: what get_hash returns for k
  Mask(_, _),        \* Mask(h, c): h & (c - 1)
  MinCapacity,       \* DS_HTABLE_MIN_CAPACITY
  AllocCapacities,   \* what ds_htable_get_capacity_for_size can return
  MaxCapacity        \* bound of the model: no buffer grows beyond it

ASSUME UndefAssumption == Undef \notin Key
ASSUME CapacityAssumption ==
  /\ MinCapacity \in Nat \ {0}
  /\ MaxCapacity \in Nat /\ MinCapacity <= MaxCapacity
  /\ AllocCapacities \subseteq 1 .. MaxCapacity
ASSUME MaskAssumption ==
  \A k \in Key, c \in 1 .. MaxCapacity : Mask(Hash[k], c) \in 0 .. c - 1

VARIABLES
  table,      \* the ds_htable_t
  pc,         \* "idle", or "walk" while a collision chain is followed
  call,       \* the operation that walks: [op, key, value]
  cur, prev,  \* the walk's bucket index and, in a removal, the one before
  dirty,      \* a clear() left deleted buckets below next (see Clear)
  fault       \* the defect exercised by the last operation, or "none"

walkVars == <<pc, call, cur, prev>>
vars == <<table, pc, call, cur, prev, dirty, fault>>

Faults == {"none", "corrupt", "overrun"}
Ops == {"get", "put", "remove"}

-----------------------------------------------------------------------------
(* Sets of buffer indices, and the order of the live buckets.              *)

Live(t) == {i \in 0 .. t.next - 1 : t.key[i] # Undef}

KeySet(t) == {t.key[i] : i \in Live(t)}

IsPacked(t) == t.size = t.next

Slot(t, k) == Mask(Hash[k], t.capacity)

\* The live buckets below n whose collision chain starts at lookup[s].
Colliding(t, s, n) == {i \in Live(t) : i < n /\ Slot(t, t.key[i]) = s}

-----------------------------------------------------------------------------
(* Tables made and remade.                                                 *)

Fresh(c) ==
  [key |-> [i \in {} |-> Undef], value |-> [i \in {} |-> Undef],
   link |-> [i \in {} |-> NIL], lookup |-> [s \in 0 .. c - 1 |-> NIL],
   next |-> 0, size |-> 0, capacity |-> c, minDeleted |-> c]

\* Bucket i becomes bucket src[i] of t, for i below n.
Gather(t, src, n) ==
  [t EXCEPT !.key   = [i \in 0 .. n - 1 |-> t.key[src[i]]],
            !.value = [i \in 0 .. n - 1 |-> t.value[src[i]]],
            !.next  = n]

\* A mistake: the bucket enters its chain before it is linked to the rest.
ChainedLate(t, i) == Latest(Colliding(t, Slot(t, t.key[i]), i + 1))

\* The last bucket before i with the same slot.
ChainedAfter(t, i) == Latest(Colliding(t, Slot(t, t.key[i]), i))

\* DS_HTABLE_BUCKET_REHASH for each live bucket in buffer order over a reset
\* lookup: a bucket links to the last one before it with the same slot, and
\* the lookup to the last one of all.
Relink(t) ==
  [t EXCEPT
     !.link = [i \in 0 .. t.next - 1 |->
                 IF t.key[i] = Undef THEN NIL ELSE ChainedAfter(t, i)],
     !.lookup = [s \in 0 .. t.capacity - 1 |-> Latest(Colliding(t, s, t.next))],
     !.minDeleted = t.capacity]

\* A mistake: the live buckets are moved down in the opposite order.
CompactedBackwards(t) ==
  LET n == Cardinality(Live(t))
  IN  Gather(t, [i \in 0 .. n - 1 |-> Nth(Live(t), n - 1 - i)], n)

\* A mistake: the last live bucket is left where it is.
CompactedShort(t) ==
  LET n == Cardinality(Live(t)) - 1
  IN  Gather(t, [i \in 0 .. n - 1 |-> Nth(Live(t), i)], n)

Compacted(t) ==
  LET n == Cardinality(Live(t))
  IN  Gather(t, [i \in 0 .. n - 1 |-> Nth(Live(t), i)], n)

Rehash(t) == IF IsPacked(t) THEN Relink(t) ELSE Relink(Compacted(t))

\* pack() moves the live buckets above minDeleted down, the first of them
\* onto minDeleted itself, and cuts the buffer to size buckets.
Pack(t) ==
  IF IsPacked(t) THEN t
  ELSE LET m == t.minDeleted
           A == {i \in Live(t) : i > m}
           src == [i \in 0 .. t.size - 1 |->
                     IF i \in m .. m + Cardinality(A) - 1
                     THEN Nth(A, i - m) ELSE i]
       IN  [Gather(t, src, t.size) EXCEPT !.minDeleted = t.capacity]

\* What goes wrong in pack() when minDeleted is not a deleted bucket with only
\* live ones below it: it starts past the end of the buffer, or overwrites a
\* live bucket and keeps a deleted or a repeated one in its stead.
PackFault(t) ==
  IF IsPacked(t) THEN "none"
  ELSE IF t.minDeleted >= t.next THEN "overrun"
  ELSE IF KeySet(Pack(t)) # KeySet(t) THEN "corrupt"
  ELSE "none"

Truncates(t) ==
  t.size <= t.capacity \div 4 /\ t.capacity \div 2 >= MinCapacity

AutoTruncate(t) ==
  IF Truncates(t)
  THEN Rehash([Pack(t) EXCEPT !.capacity = t.capacity \div 2])
  ELSE t

\* A mistake: the buffer grows and the lookup does not.
IncreaseOnly(t) == [t EXCEPT !.capacity = 2 * t.capacity]

IncreaseCapacity(t) ==
  IF t.next > t.size + t.size \div 32
  THEN Rehash(t)
  ELSE Rehash([t EXCEPT !.capacity = 2 * t.capacity])

-----------------------------------------------------------------------------
(* Single buckets.                                                         *)

InitNextBucket(t, k, v) ==
  LET i == t.next IN
  [t EXCEPT !.key    = [j \in 0 .. i |-> IF j = i THEN k ELSE t.key[j]],
            !.value  = [j \in 0 .. i |-> IF j = i THEN v ELSE t.value[j]],
            !.link   = [j \in 0 .. i |-> IF j = i THEN t.lookup[Slot(t, k)]
                                         ELSE t.link[j]],
            !.lookup[Slot(t, k)] = i,
            !.next   = i + 1,
            !.size   = t.size + 1]

\* lookup_or_next makes room before the bucket is taken, put_distinct_bucket
\* after it.
Full(t) == t.next = t.capacity

PutNew(t, k, v) ==
  InitNextBucket(IF Full(t) THEN IncreaseCapacity(t) ELSE t, k, v)

PutDistinctBucket(t, k, v) ==
  LET u == InitNextBucket(t, k, v)
  IN  IF Full(u) THEN IncreaseCapacity(u) ELSE u

\* next without bucket i: back over the deleted buckets at the end.
NextWithout(t, i) ==
  IF i = t.next - 1 /\ t.size > 1 THEN Latest(Live(t) \ {i}) + 1 ELSE t.next

\* The link of bucket j without bucket i, which bucket p precedes.
LinkWithout(t, i, p, j) ==
  IF j = i THEN NIL ELSE IF j = p THEN t.link[i] ELSE t.link[j]

\* A mistake: the chain starts after i though buckets come before it.
LookupCut(t, i, p, s) ==
  IF s = Slot(t, t.key[i]) THEN t.link[i] ELSE t.lookup[s]

\* lookup[s] without bucket i, which heads its chain if p is NIL.
LookupWithout(t, i, p, s) ==
  IF p = NIL /\ s = Slot(t, t.key[i]) THEN t.link[i] ELSE t.lookup[s]

\* A mistake: the left-most deleted index is only ever raised.
MinDeletedKept(t, i) == t.minDeleted

MinDeletedWith(t, i) == IF i < t.minDeleted THEN i ELSE t.minDeleted

\* The removal of bucket i, which follows bucket p in its chain (or heads it).
DeleteBucket(t, i, p) ==
  LET n == NextWithout(t, i)
      undefined(f) == [j \in 0 .. n - 1 |-> IF j = i THEN Undef ELSE f[j]]
  IN  [t EXCEPT
         !.key    = undefined(t.key),
         !.value  = undefined(t.value),
         !.link   = [j \in 0 .. n - 1 |-> LinkWithout(t, i, p, j)],
         !.lookup = [s \in 0 .. t.capacity - 1 |-> LookupWithout(t, i, p, s)],
         !.next   = n,
         !.minDeleted = MinDeletedWith(t, i),
         !.size   = t.size - 1]

\* clear_buffer returns at once from a table of size 0, even when deleted
\* buckets are left below next.
ClearTable(t) ==
  LET b == IF t.size = 0 THEN t ELSE Fresh(t.capacity)
      c == IF t.capacity > MinCapacity THEN MinCapacity ELSE t.capacity
  IN  [b EXCEPT !.capacity = c, !.minDeleted = c,
                !.lookup = [s \in 0 .. c - 1 |-> NIL]]

-----------------------------------------------------------------------------
(* Reads by position, and the tables copied out of a table.                *)

\* The index of the bucket that lookup_by_position(p) returns, for p < size.
LookupByPosition(t, p) ==
  IF IsPacked(t) \/ p < t.minDeleted THEN p
  ELSE CHOOSE i \in Live(t) :
         /\ i >= t.minDeleted
         /\ t.minDeleted + Rank({j \in Live(t) : j >= t.minDeleted}, i) = p

FirstBucket(t) == Nth(Live(t), 0)

\* A mistake: an iterator moves to the next bucket, live or not.
NextInBuffer(t, i) == i + 1

\* Where an iterator on bucket i moves: the next live bucket, or past the end.
NextBucket(t, i) ==
  LET later == {j \in Live(t) : j > i}
  IN  IF later = {} THEN t.next ELSE Nth(later, 0)

\* The bucket that an iterator is on at each of its positions.
Visits(t) ==
  LET visit[p \in 0 .. t.size - 1] ==
        IF p = 0 THEN FirstBucket(t) ELSE NextBucket(t, visit[p - 1])
  IN  visit

\* A mistake: the range may take in the first deleted bucket.
ContiguousTo(t, j) == IsPacked(t) \/ j <= t.minDeleted + 1

\* No deleted bucket lies before index j.
Contiguous(t, j) == IsPacked(t) \/ j <= t.minDeleted

\* The index of the r-th bucket that slice(i, n) copies, for i + n <= size.
SliceSource(t, i, n, r) ==
  IF Contiguous(t, i + n) THEN i + r
  ELSE IF i < t.minDeleted
       THEN IF r = 0 THEN i ELSE Nth({j \in Live(t) : j > i}, r - 1)
  ELSE Nth(Live(t), i + r)

\* A new table of capacity c that init_next_bucket fills, bucket by bucket,
\* with buckets src[0], ..., src[n - 1] of t.
CopyOf(t, src, n, c) ==
  Relink([Gather(t, src, n) EXCEPT !.capacity = c, !.size = n])

Slice(t, i, n) ==
  IF n = 0 THEN Fresh(MinCapacity)
  ELSE CopyOf(t, [r \in 0 .. n - 1 |-> SliceSource(t, i, n, r)], n, n)

Filter(t, S) ==
  LET n == Cardinality(S)
  IN  CopyOf(t, [r \in 0 .. n - 1 |-> Nth(S, r)], n, t.capacity)

Reversed(t) ==
  LET L == Live(t)
      n == t.size
  IN  CopyOf(t, [r \in 0 .. n - 1 |-> Nth(L, n - 1 - r)], n, t.capacity)

-----------------------------------------------------------------------------
(* The walk along a collision chain, and the operations it serves.         *)

NoCall == [op |-> "none", key |-> Undef, value |-> Undef]

Idle == pc = "idle" /\ fault = "none"

\* get_hash(key) and the head of the key's chain: lookup_bucket_by_hash for
\* get, has_key, isset and put, ds_htable_remove's own loop for remove.
Begin(op, k, v) ==
  /\ Idle
  /\ pc' = "walk"
  /\ call' = [op |-> op, key |-> k, value |-> v]
  /\ cur' = table.lookup[Slot(table, k)]
  /\ prev' = NIL
  /\ UNCHANGED <<table, dirty, fault>>

Walking == pc = "walk" /\ fault = "none"

Return ==
  /\ pc' = "idle"
  /\ call' = NoCall
  /\ cur' = NIL
  /\ prev' = NIL

\* bucket_key_match fails: on to DS_HTABLE_BUCKET_NEXT.
Advance ==
  /\ Walking /\ cur # NIL
  /\ table.key[cur] # call.key
  /\ cur' = table.link[cur]
  /\ prev' = IF call.op = "remove" THEN cur ELSE NIL
  /\ UNCHANGED <<table, pc, call, dirty, fault>>

Hit(op) == Walking /\ call.op = op /\ cur # NIL /\ table.key[cur] = call.key

Miss == Walking /\ cur = NIL

GetHit ==
  /\ Hit("get")
  /\ Return
  /\ UNCHANGED <<table, dirty, fault>>

PutHit ==
  /\ Hit("put")
  /\ table' = [table EXCEPT !.value = [@ EXCEPT ![cur] = call.value]]
  /\ Return
  /\ UNCHANGED <<dirty, fault>>

RemoveHit ==
  /\ Hit("remove")
  /\ LET t == DeleteBucket(table, cur, prev)
     IN  /\ table' = AutoTruncate(t)
         /\ dirty' = (dirty /\ ~Truncates(t))
         /\ fault' = IF Truncates(t) THEN PackFault(t) ELSE "none"
  /\ Return

\* A get or a removal that finds nothing.
MissNoOp ==
  /\ Miss /\ call.op # "put"
  /\ Return
  /\ UNCHANGED <<table, dirty, fault>>

PutMiss ==
  /\ Miss /\ call.op = "put"
  /\ table' = PutNew(table, call.key, call.value)
  /\ table'.capacity <= MaxCapacity
  /\ dirty' = (dirty /\ ~Full(table))
  /\ Return
  /\ UNCHANGED fault

Step == Advance \/ GetHit \/ PutHit \/ RemoveHit \/ MissNoOp \/ PutMiss

-----------------------------------------------------------------------------
(* The operations that run to completion in one call.                      *)

Quiet == UNCHANGED walkVars

\* put_distinct_bucket fills the tables that diff, intersect and xor start
\* from ds_htable(), so it meets neither deleted buckets nor its own key.
PutDistinct(k, v) ==
  /\ Idle
  /\ IsPacked(table) /\ table.minDeleted = table.capacity
  /\ table.next < table.capacity /\ k \notin KeySet(table)
  /\ table' = PutDistinctBucket(table, k, v)
  /\ table'.capacity <= MaxCapacity
  /\ dirty' = FALSE
  /\ UNCHANGED fault /\ Quiet

Clear ==
  /\ Idle
  /\ table' = ClearTable(table)
  /\ dirty' = (table'.next > 0)
  /\ fault' = IF table'.next > table'.capacity THEN "overrun" ELSE "none"
  /\ Quiet

EnsureCapacity(c) ==
  /\ Idle
  /\ c > table.capacity
  /\ table' = Rehash([table EXCEPT !.capacity = c])
  /\ dirty' = FALSE
  /\ UNCHANGED fault /\ Quiet

\* pack(), a permutation of the first size buckets, rehash(): a sort by key or
\* by value, native or by the user's comparator.
Rearrange(p) ==
  /\ Idle
  /\ fault' = PackFault(table)
  /\ table' = IF PackFault(table) = "overrun" THEN table
              ELSE Rehash(Gather(Pack(table), p, table.size))
  /\ dirty' = FALSE
  /\ Quiet

Shuffles(n) ==
  {p \in [0 .. n - 1 -> 0 .. n - 1] : \A i, j \in 0 .. n - 1 : p[i] = p[j] => i = j}

Sort == \E p \in Shuffles(table.size) : Rearrange(p)

Reverse == Rearrange([i \in 0 .. table.size - 1 |-> table.size - 1 - i])

\* apply() gives each entry the value that the callback returns; when the
\* callback throws, the entries not reached keep theirs.
Apply(f) ==
  /\ Idle
  /\ table' = [table EXCEPT !.value =
       [i \in 0 .. table.next - 1 |->
          IF i \in Live(table) THEN f[i] ELSE table.value[i]]]
  /\ UNCHANGED <<dirty, fault>> /\ Quiet

\* The program goes on with a table copied out of this one.
GoOnWith(t) ==
  /\ table' = t
  /\ dirty' = FALSE
  /\ fault' = IF Cardinality(Live(t)) # t.size THEN "corrupt" ELSE "none"
  /\ Quiet

TakeSlice(i, n) ==
  /\ Idle
  /\ i + n <= table.size
  /\ GoOnWith(Slice(table, i, n))

TakeFilter(S) == Idle /\ GoOnWith(Filter(table, S))

TakeReversed == Idle /\ GoOnWith(Reversed(table))

TakeNew == Idle /\ GoOnWith(Fresh(MinCapacity))

\* Execution is not followed past a fault: what comes next reads memory that
\* holds no bucket, or a deleted bucket as if it held a key.
Stopped == fault # "none" /\ UNCHANGED vars

-----------------------------------------------------------------------------
Init ==
  /\ table = Fresh(MinCapacity)
  /\ pc = "idle" /\ cur = NIL /\ prev = NIL
  /\ call = NoCall
  /\ dirty = FALSE
  /\ fault = "none"

Next ==
  \/ \E op \in Ops, k \in Key, v \in Value : Begin(op, k, v)
  \/ Step
  \/ \E k \in Key, v \in Value : PutDistinct(k, v)
  \/ Clear
  \/ \E c \in AllocCapacities : EnsureCapacity(c)
  \/ Sort
  \/ Reverse
  \/ \E f \in [Live(table) -> Value] : Apply(f)
  \/ \E i, n \in 0 .. table.size : TakeSlice(i, n)
  \/ \E S \in SUBSET Live(table) : TakeFilter(S)
  \/ TakeReversed
  \/ TakeNew
  \/ Stopped

Spec == Init /\ [][Next]_vars

-----------------------------------------------------------------------------
(* Properties.  The parts of the invariant are predicates of a table.      *)

Fields ==
  {"key", "value", "link", "lookup", "next", "size", "capacity", "minDeleted"}

TableTypeOK(t) ==
  /\ t = [f \in Fields |-> t[f]]
  /\ t.next \in Nat /\ t.size \in Nat /\ t.minDeleted \in Nat
  /\ t.capacity \in 1 .. MaxCapacity
  /\ t.key \in [0 .. t.next - 1 -> Key \union {Undef}]
  /\ t.value \in [0 .. t.next - 1 -> Value \union {Undef}]
  /\ t.link \in [0 .. t.next - 1 -> Int]
  /\ t.lookup \in [0 .. t.capacity - 1 -> Int]

\* The table keeps the shape of a ds_htable_t, and a walk is under way exactly
\* when an operation is (ds_htable.h:152-160).
TypeOK ==
  /\ pc \in {"idle", "walk"}
  /\ call \in {NoCall} \union [op : Ops, key : Key, value : Value]
  /\ pc = "walk" <=> call # NoCall
  /\ cur \in Int /\ prev \in Int
  /\ dirty \in BOOLEAN
  /\ fault \in Faults
  /\ fault = "none" => TableTypeOK(table)

CountsLive(t) == t.size = Cardinality(Live(t))

Distinct(t) == \A i, j \in Live(t) : t.key[i] = t.key[j] => i = j

IsLatest(i, S) == IF S = {} THEN i = NIL ELSE i \in S /\ \A j \in S : j <= i

Chained(t) ==
  /\ \A s \in 0 .. t.capacity - 1 : IsLatest(t.lookup[s], Colliding(t, s, t.next))
  /\ \A i \in Live(t) :
       IsLatest(t.link[i], Colliding(t, Slot(t, t.key[i]), i))

HoleAtMin(t) == t.minDeleted < t.next /\ t.key[t.minDeleted] = Undef

LiveBelowMin(t) ==
  \A i \in 0 .. t.next - 1 : i < t.minDeleted => t.key[i] # Undef

\* size is exactly the number of live buckets, through every put, removal,
\* growth, truncation, compaction and copy: what a reader of `size` counts on
\* is there (ds_htable.c:678-734, 818-876).
SizeIsEntryCount == fault = "none" => CountsLive(table)

\* No key is ever in two buckets, though put only looks for it along one
\* collision chain before it takes a new bucket (ds_htable.c:702-718).
UniqueKeys == fault = "none" => Distinct(table)

\* A walk that reaches the end of its chain has met every bucket that could
\* hold the key: the key is not in the table (ds_htable.c:359-385, 818-829).
MissMeansAbsent == Miss => call.key \notin KeySet(table)

\* The next open index never passes the end of the buffer, so a put writes
\* inside it (ds_htable.c:634-643, 663-718).
WithinBuffer == fault = "none" => table.next <= table.capacity

\* lookup_by_position and slice return the entries a left-to-right scan
\* counts, whatever shortcut min_deleted lets them take, as long as no clear()
\* left deleted buckets behind (ds_htable.c:392-433, 878-952).
PositionsExact ==
  fault = "none" /\ ~dirty =>
    LET L == Live(table) IN
    /\ \A p \in 0 .. table.size - 1 : LookupByPosition(table, p) = Nth(L, p)
    /\ \A i, n \in 0 .. table.size : i + n <= table.size =>
         \A r \in 0 .. n - 1 : SliceSource(table, i, n, r) = Nth(L, i + r)

\* An iterator, which moves as long as its position is below size and never
\* looks for the end of the buffer, meets every live bucket, the last of them
\* at its last position (php_htable_iterator.c:6-37, 104-121; ds_htable.c:748-776).
IterationExact ==
  fault = "none" /\ table.size > 0 =>
    /\ {Visits(table)[p] : p \in 0 .. table.size - 1} = Live(table)
    /\ Visits(table)[table.size - 1] = Latest(Live(table))

\* The pack() of auto_truncate never meets a minDeleted that points at a live
\* bucket, though other removals leave such pointers (ds_htable.c:111-120).
RemovalNeverFaults == [][pc = "walk" => fault' = fault]_vars

\* The two ways into a fault: a pack() or a position read by a stale
\* minDeleted, and a clear() that shrinks the buffer below next.
FaultsExplained ==
  [][fault = "none" /\ fault' # "none" =>
       \/ ~IsPacked(table) /\ (~HoleAtMin(table) \/ dirty)
       \/ table.size = 0 /\ table.next > MinCapacity]_vars

\* After a sort or a reversal, size is still the "Number of active buckets in
\* the table" (ds_htable.h:156).
SortKeepsActiveBuckets ==
  [][Sort \/ Reverse => table'.size = Cardinality(Live(table'))]_vars

\* Every lookup ends: each link of a chain leads to a bucket nearer the front of
\* the buffer, whatever put, removed, rehashed or copied the buckets before
\* (ds_htable.c:371-375, 821-829).
WalksDescend == [][Advance => NIL <= cur' /\ cur' < cur]_vars

\* The strengthening of the properties above that every step preserves: what
\* the chains, minDeleted and the walk owe each other.
TableInv(t) ==
  /\ CountsLive(t) /\ Distinct(t) /\ Chained(t)
  /\ t.next <= t.capacity

\* Only a table too small to truncate is empty with deleted buckets left.
Hollow(t) == t.size = 0 /\ t.next > 0

\* Below minDeleted all is live, and it is a hole wherever it matters.
MinDeletedOK(t) ==
  /\ LiveBelowMin(t)
  /\ \/ HoleAtMin(t)
     \/ t.minDeleted > t.capacity \div 4
     \/ t.capacity \div 2 < MinCapacity

MinDeletedInv(t, d) ==
  /\ Hollow(t) \/ d => t.capacity \div 2 < MinCapacity
  /\ ~d => MinDeletedOK(t)

WalkInv ==
  pc = "walk" =>
    LET chain == Colliding(table, Slot(table, call.key), table.next)
    IN  /\ cur = NIL \/ cur \in chain
        /\ \A i \in Live(table) :
             table.key[i] = call.key => cur # NIL /\ i <= cur
        /\ IF prev = NIL
           THEN call.op = "remove" => cur = table.lookup[Slot(table, call.key)]
           ELSE prev \in chain /\ table.link[prev] = cur

IInv ==
  /\ TypeOK
  /\ fault = "none" => /\ TableInv(table)
                       /\ MinDeletedInv(table, dirty)
                       /\ WalkInv

Entries(t) ==
  LET L == Live(t)
      nth(r) == Nth(L, r - 1)
  IN  [r \in 1 .. Cardinality(L) |->
         [key |-> t.key[nth(r)], value |-> t.value[nth(r)]]]

OM == INSTANCE OrderedMap WITH entries <- Entries(table)

\* The table is an ordered map: what it shows in buffer order is what the
\* abstract map holds, and every operation is one of the map's or invisible,
\* but for those that exercise a defect (ds_htable.c:28-120, 634-734, 818-952).
ImplementsOrderedMap ==
  OM!Init /\ [][fault' = "none" => OM!Next \/ UNCHANGED Entries(table)]_vars

=============================================================================
