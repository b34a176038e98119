# A TLA+ model of the ds extension

This directory is a verification project for `ext-ds`, the PHP extension with
the classes `Ds\Map`, `Ds\Set`, `Ds\Seq`, `Ds\Heap`, `Ds\Pair` and the interface
`Ds\Key`. It holds TLA+ models of the parts of the C code that carry the
extension's own logic, configurations that check the models with TLC on small
instances, and theorems about them, for instances of any size, whose proofs
TLAPS checks. Paths and line numbers are those of the repository; `src/ds/...`
is its `src` directory.

## The system

Everything runs in the thread of one PHP request: there is no concurrency, no
I/O and nothing is persisted. What makes the code hard is elsewhere.

* **Callbacks.** Comparators, `apply`, `map`, `filter`, `reduce`, `hash`,
  `equals`, the destructors of values that are released, and the Traversables
  given to `putAll` and `merge` are user code, run in the midst of a loop over a
  buffer. They may throw, and they may call any
  method of any collection, the one that is being walked included.
* **Sharing.** Clones and iterators share the buffer of their collection, with a
  count, and a mutation separates first. The two together mean that what was
  true when a method began need not be true at its second step.
* **Long sequences of calls.** Tables and ring buffers keep shortcuts
  (`min_deleted`, `tail`) that an operation leaves and a later one trusts; the
  hazardous states take several operations to reach and do not show before yet
  another one.
* **Widths of integers.** Positions and keys pass between `zend_long` and
  `uint32_t`.

### Components

| component | code | state | operations | correct when |
|---|---|---|---|---|
| hash table | `ds/ds_htable.c` | buckets in insertion order, each with a link to the one before it in its collision chain; `lookup`, the heads of the chains; `next`, `size`, `capacity`, `min_deleted`, `refs` | lookup by key and by position, put, remove, clear, allocate, sort, reverse, apply, slice, filter, map, copies, the set algebra | every key is found along its chain; `size` counts the live buckets; positions count live buckets; growing, truncating and packing lose and reorder nothing |
| sequence | `ds/ds_seq.c` | a ring buffer: `head`, `tail`, `size`, `capacity`, a power of two | push, insert, remove, pop, set, sort, reverse, rotate, apply, map, filter, slice, merge | the window between head and tail holds exactly the values, in order; edits act at their position; loops end; each value's reference is counted once and released once |
| heap | `ds/ds_heap.c` | nodes, size, capacity | push, pop, peek, clear, allocate | no value is lost; the greatest is at the root |
| buffer sharing | `*_separate`, `*_release`, `*_clone`, the objects, handlers and iterators | reference counts; which object and which iterator has which buffer | clone, iterate, mutate, fetch for writing, destroy | clones and iterators look like copies of their own; a buffer lives as long as it has a holder |
| comparator slot | `php_ds.h` globals, `php/parameters.h`, `common.c`, `php_heap.c`, `php_heap_iterator.c` | the one callable in the module's globals; the `running` flag of heap iterators | sort and sorted (save, set, restore), heap methods (set), heap iterators (set once, use later) | each method compares with its own callable throughout, whatever its callables call |
| Map and Set | `ds/ds_map.c`, `ds/ds_set.c`, their classes and handlers | a table | the methods of the classes | keys are distinct; the operations on two collections fit together; slices and positions name the right entries; a method that throws leaves a sound collection, unless a Traversable's `current` or `key` throws |
| table iterators | `php/iterators/php_htable_iterator.c` | bucket, position | rewind, next, valid | each live bucket is met once |
| helpers | `common.c` | none | slice arguments, capacities, joins, exceptions | results within bounds |
| objects, classes, handlers | `php/` | the PHP objects | parsing, array access, casts, the collector's view, (un)serialization | they call the above in the right order |
| Pair, Key | `php_pair*.c`, `php_key_ce.c` | two readonly properties | construction, comparison | |
| module | `php_ds.c`, `php/arginfo.h` | none | registration | |

They interact by calls only. `Ds\Map` and `Ds\Set` own a table; every class's
method parses its arguments, separates the buffer and calls one function of the
structure beneath; iterators hold a buffer of their own right; sorts and heaps
call the user through the comparator slot. `PROJECT.json` lists the components
with their status, and the hazards with their lines and the properties about them.

## The modules

| module | models | abstract specification | proofs |
|---|---|---|---|
| `DsHtable` | the hash table, bucket by bucket | `OrderedMap` | `DsHtableProofs` |
| `DsSeq` | the ring buffer, cell by cell | `ValueSequence` | `DsSeqProofs` |
| `DsHeap` | the heap, a step per comparison | `PriorityBag` | `HeapProofs` |
| `SeqOwnership` | the references that the ring buffer and its methods own, with user code that edits it under them; what the collector is told | | `SeqOwnershipProofs` |
| `KeyIdentity` | what the table takes for the hash of a key, of any type, and for the same key | | `UserKeysProofs` |
| `UserKeys` | keys whose `hash` and `equals` throw and call the table that is being searched, and keys that change | | `UserKeysProofs` |
| `CopyOnWrite` | shared buffers, clones, iterators, callbacks in walks | `IndependentCopies` | `CopyOnWriteProofs` |
| `Comparator` | the comparator slot and heap iterators | | `HeapProofs` |
| `Collections` | Map and Set over the table | | `CollectionsProofs` |
| `Scan` | ranks in a set of indices: what a loop over the live buckets counts | | `ScanProofs` |

Each `MC...` module gives a component's constants their values for TLC. The
modules compose by their levels of detail rather than in one product:
`DsHtable` shows (`ImplementsOrderedMap`) that a table behaves as a sequence of
entries, and that is what `Collections` takes a table to be;
`CopyOnWrite` fixes the positions of a buffer and follows who shares it, and
`Comparator` leaves out the buffers and follows who compares. Two modules are
built on the operators of another one: `SeqOwnership` instantiates `DsSeq` and
edits its buffer with `Pushed`, `Inserted`, `Closed`, `ResetHead` and the others,
the raw cells kept; `UserKeys` instantiates `DsHtable` and edits its table with
`PutNew`, `DeleteBucket`, `AutoTruncate` and `ClearTable`, and extends `KeyIdentity`,
from which it takes the hash and the equality of its keys. Both add the interleavings
that the module beneath leaves out by running each operation to its end.

### DsHtable

`table` is a `ds_htable_t` as a record; functions that edit a table in place are
operators from tables to tables (`Rehash`, `Pack`, `IncreaseCapacity`,
`AutoTruncate`, `DeleteBucket`, `InitNextBucket`, `PutDistinctBucket`), with
the order in which the code applies them. What a loop over the buffer leaves is
written down directly: the loop of `ds_htable_rehash` moves the live buckets
down in order (`Compacted`) and chains each to the last one before it of the same
slot (`Relink`). A lookup (`Begin`, `Advance`, then `GetHit`, `PutHit`,
`RemoveHit`, `MissNoOp` or `PutMiss`) is a step per bucket of the chain, as
the user's `equals` may run at each. Keys stand for classes of equal keys; `Hash`
and `Mask` are parameters. The methods that make a table of another (`TakeSlice`,
`TakeFilter`, `TakeReversed`, `TakeNew`) continue with the new one, so that
everything is also tried on tables of such odd capacities as a slice's. `map`
and the algebra appear by the operation they repeat, `PutDistinct`.

`fault` says that an operation exercised a defect, after which execution is not
followed. `dirty` records one thing the code does not know of itself: a
`clear()` of a table without live buckets left its deleted ones behind.

### DsSeq

`seq` is the `ds_seq_t`; cells outside of the window are shown as `Hole`
whatever is left in them (`Tidy`), so that a window that takes one in is noticed.
The moves of `memmove` are explicit (`Move`), with each of the branches that
depend on where the window wraps. `reverse` of a wrapped window and `rotate`
are loops, a step per turn. A read or write outside of the buffer sets `fault`.

### SeqOwnership

`counted` is what the reference counts of the values would say of the sequence
and its methods; `CountsBalance` compares it with the cells of the window and the
locals of the method under way. A cell whose value has been released still holds its
bits, `Gone`, and a cell that a move has copied from keeps its copy: that is what
makes `get_gc` (`ReportedCells`) and a second release worth looking at. `call`
is the method under way (`map`, `filter`, `apply`, `set` or `clear`), with what
`DS_SEQ_FOREACH` read at its start; it stops at `callback` and `destructor`, and there
the program may edit the sequence with `Push`, `Unshift`, `Insert`, `Remove` and
`ResetHead`, each a whole operation. `freed` marks that such an edit replaced the buffer
into which the method has a pointer. When a method then uses what it should not
(`Faults`), execution is not followed any further: the code does not prevent it,
and `CountsBalance` says what must have happened before. Edits made by the
user code do not call user code again, and only one method at a time is under
way.

### KeyIdentity

No state: `KeyHash` is `get_hash` and `KeyIdentical` is `key_is_identical`, over
zvals that are records of a type and a value. A double is hashed by its bits, -0.0
as 0.0; an object that implements `Ds\Key` by what its `hash` returns, another one
by its handle; an array by what it is serialized to, in which a double keeps its sign
and an object is what its properties are at the time. `StringHash`, `DoubleBits`, the
classes and what the users' methods return are parameters, so that the theorem holds
whatever they are; TLC evaluates it of a sample (`SamplesHashAlike` in
`MCUserKeys`). Arrays hold no arrays, and references are left out.

### UserKeys

`calls` is the stack of the calls under way, `get`, `put` and `remove`, each with
the bucket, the link before it and the hash that its walk has. `Compare` calls
`equals` for a bucket of the same hash, or compares at once when the bucket's key has
none; `EqualsFails` goes on from the bucket
pointed to, whatever has become of it; a hit (`GetHit`, `PutHit`, `RemoveHit`) uses
it. The destructors of a value that is replaced or removed run in the midst of
`put` and `remove` (`PutStores`, `RemoveEnds`). An object whose `hash` throws is
taken to hash to 0 (`HashFor`); for a put that stores a key, which is modelled,
for the other two it is a miss, which is not. `hash` runs before the table is looked
at, so that what it calls comes before the call. `blurred` and `broken` are
history variables for the properties: the keys that a disturbed put has stored, and
that a removal wrote a link that it had read before an edit, from when on `blurred`
is all keys, as nothing is claimed of any. `clear` is one
step; what its destructors do is in `SeqOwnership`, over a buffer. `Write` changes an
object that an array among the keys holds, and so the hash of that array, while its
bucket keeps the old one.

### DsHeap

`push` and `pop` are a first step, a step per comparison (`SiftUp`,
`SiftDown`, with `LargerChild`) and a last one that places the value held. The
node that the sift has come to is void; `Occupied` are the others. A comparator
that throws compares as 0 from then on, and `spoiled` remembers that the order is
given up.

### CopyOnWrite

`memory` maps the addresses of buffers to counts and cells; `holds` says which
buffer an object or an iterator has. Methods that call the user while they walk
a buffer (`Apply`, `Map`, `PutAll`) are on the stack `walks`, with the pointer
they began with; between their steps the program may take any action, to a bounded
depth. A fetch for writing (`WriteFetched`, `$seq[0][] = 1`) makes a cell into
a PHP reference without separating the buffer, as the handlers do. The protocol
is the same for the three structures; the definitions are mapped to the sequence's.

### Comparator

`slot` is the callable in the module's globals, `methods` the stack of methods
that compare, each with the callable it began with. Heap iterators install theirs
when they are made and only then. `disturbed` is a history variable: a method of
another heap (or a refused sort) changed the slot in one of the method's
callables, and no sort was there to put it back. The specification is `SlotSpec`, and
its parts are named alike, so that `HeapProofs` can extend this module beside `DsHeap`.

### Collections

A collection is the sequence of its entries. `Combine` is the algebra of
`ds_htable_xor`, `diff`, `intersect` and `merge`; `Slice` follows
`ds_normalize_slice_args` over a `zend_long` of `LongBits` bits, an overflow
being whatever the build makes of it (`Sums`); `Found` and `PutArray` truncate
to a `uint32_t` of `IndexBits` bits as the calls do, and `NextPowerOf2` rounds
capacities up in as many bits, so that it wraps to 0 where the code's does. `putAll`, `merge`, `map`
and `filter` are a step per entry (`Begin`, `PutNext`, `MapNext`, `FilterNext`,
`Return`, `Throw`). A Traversable that throws in `rewind`, `valid` or `next` puts nothing
more (`Throw`); one that throws in `current` or `key` has the code put an entry whose key
is unset (`NoKey`, `YieldThrows`). That entry is counted and reads as deleted, so that the
table is no longer the sequence of entries that `DsHtable` shows it to be: `fault` is
`"keyless"`, and execution is not followed. `NoValue` stands for the value of a set's
entry, NULL after a first put of the value and unset after a second; nothing reads it.

Data are unserialized in two ways. `__unserialize` of the classes puts what
`__serialize` has written (`RoundTrip`). The `unserialize` handlers, and the functions
beneath them, read a format of their own, a step per entry (`UnserializeNext`), and
may find it broken (`UnserializeFails`): for a map the table is freed and no object
made, for a set the object is there already and keeps the freed table, which is
the `fault` `"freed"`.

## The runs

Passing runs explore every reachable state of their instance.

| run | question | instance | size |
|---|---|---|---|
| `htable` | chains, counts, positions, iteration, truncation; implementation of `OrderedMap`; what leads to a fault | 3 keys, 2 values, capacities up to 8 | 55,179 states, depth 36 |
| `owned` | references of values, what the collector is told, with user code that edits the sequence under its methods | 2 values, up to 4 of them, capacities 2 and 4; edits without bound, one lost reference per value | 3,849,429 states |
| `keys` | soundness of the table, keys twice or missed, with key objects that throw and re-enter, and an array that changes | 2 key objects and an array, up to 3 entries, capacities 2 and 4; calls 2 deep, 2 calls made by each | 3,510,529 states |
| `seq` | the window, edits by position, turns of rotate; implementation of `ValueSequence` | 2 values, up to 5 of them, capacities 2, 4, 8; 2 arguments, rotations by 2 | 6,142 states, depth 15 |
| `heap` | order, values kept, sifts end; implementation of `PriorityBag` | 3 values, two of them ties, up to 7 nodes | 16,390 states, depth 18 |
| `cow` | counts and holders; implementation of `IndependentCopies` but for two leaks | 2 objects, 1 iterator, 5 buffers, 2 references, callbacks 2 deep | 266,989 states |
| `cmp` | sorts nest, iterators are not re-entered | 2 heaps, 2 sorters, 2 iterators, 4 methods deep | 458,009 states, depth 22 |
| `collections` | the algebra, slices, positions, capacities, keys of arrays, methods and unserializations broken off | 2 variables, 3 keys, 2 values, a `zend_long` of 4 bits, a `uint32_t` of 3 | 185,798 states, depth 11 |

Why these bounds are enough to be of use:

* `htable`: two keys have equal hashes and the third meets them at capacity 2
  only, so that chains of three, chains of two and chains that part and join as
  the capacity changes all occur. With 3 entries in a buffer of 8 truncation, packing,
  compaction, growth by compaction and growth by doubling happen; `MinCapacity`
  is 2 instead of 8 so that they do. The invariants are proved for every size besides.
* `seq`: capacity 8 with 5 values and capacity 4 with 4 give windows at every
  offset, wrapped and not, full and not, and both branches of each move.
* `owned`: capacity 4 with up to 4 values grows, truncates, wraps and fills; a
  walk over a window that a callback may rearrange in any number of edits reaches
  every cell that it can reach. One reference lost is enough to tell whether it is
  counted; only `map` loses any.
* `keys`: the objects share a hash, and the array has the same one before its object
  is written to, and then what a throwing `hash` is taken for; in the smallest table all
  three share a chain, in the larger one they may part. A call within a call that makes two edits may remove a bucket and put
  another into its place; three levels would add only a call that the second one
  cannot tell from the program's. The sample of keys for
  `KeyIdentity` has both zeros, a NaN, a long and a
  double of the same hash, two longs that are the same in 32 bits, objects that do and
  do not implement `Ds\Key`, of two classes, one whose `hash` does not agree with its
  `equals`, and an object that is written to between the put and the lookup.
* `heap`: seven nodes are three full levels; a sift may pass two parents.
* `cow`: two objects, an iterator and two walks may each have a buffer of their
  own, so five never run out; one position is enough to tell which buffer a write
  reached.
* `collections`: the keys are -1, 0 and the number that -1 is truncated to; the
  arguments include the least and the greatest `zend_long`, and capacities are asked
  for on both sides of half the range of a `uint32_t`.

Symmetry is used over values that are only compared for equality, never in a run
with a liveness property.

Each property of a passing run has a mutant in `PROJECT.json`: an operator,
marked "A mistake" in the module, that replaces the one after it and violates the
property.

### Fairness

Only two are assumed. `DsHeap` has weak fairness of `Step` and `DsSeq` of
`Loop`: both are the body of a loop in the calling thread, which runs on unless
a comparator does not return; that one is not modelled as able to stop. Nothing is
assumed of what the program calls. `SiftEnds` is the liveness property that
passes; `ReverseEnds` is the one that does not.

### What the runs found

A violation run states what the repository says and shows that the code does not.

* `seq_push`: `push` writes one cell past the buffer. `ds_seq_insert_va` and
  others leave `tail` equal to the capacity; a `shift` makes room at the front,
  so that `ds_seq_push` sees no need to grow (`ds_seq.c:400`).
* `seq_reverse_hangs`: `reverse` of a wrapped sequence with an odd number of
  values does not end: head and tail pass each other (`ds_seq.c:276`).
* `htable_sort_loses`: `sort` and `reverse` of a map or a set may lose an entry.
  `ds_htable_remove` moves `next` back and then lowers `min_deleted` to an
  index that may no longer be in the buffer (`ds_htable.c:859`); after a put
  that index is live, and `ds_htable_pack` overwrites it (`ds_htable.c:97`).
* `cmp_foreign`: a heap iterator compares with the comparator of whichever heap
  was used last (`php_heap_iterator.c:112`).

Some passing properties name an exception, and the exception is a defect that the
code has as well:

* `FaultsExplained` (`DsHtable`): a `clear()` of a table from which everything was
  removed returns before it resets `next` (`ds_htable.c:499`), and positions are
  then read off deleted buckets; of an emptied slice, whose buffer may be
  larger than the minimum, it shrinks the buffer below `next` (518).
* `ImplementsIndependentCopies` (`CopyOnWrite`): a fetch for writing of a shared
  buffer neither separates it nor undoes the reference
  (`php_seq_handlers.c:34-38`, `php_map_handlers.c:31-35`). `apply()` separates
  before its first callback only: a callback that clones or iterates shares the
  buffer anew, and the results are stored in the clone too (`Astray`;
  `ds_seq.c:708`, `ds_htable.c:961`); `putAll()` of a map and the
  constructors of maps and sets do the same with what a Traversable yields
  (`ds_map.c:282-334`, `ds_set.c:68-110`), into the table that the collection has at each
  step; those of sequences and heaps push into the buffer that they began with, as `apply()`
  does (`ds_seq.c:630`, `ds_heap.c:189`). Its `Stopped` states are walks that go on in a buffer that a callback made the
  collection leave or reallocate.
* `UndisturbedKeepTheirs` (`Comparator`): the methods of a heap, called from
  another's comparator or a sort's, leave their comparator behind
  (`php_heap.c:30-36`), and a `sort()` whose argument is refused leaves the slot
  empty (`parameters.h:77-80`).
* `TypeOK` (`Collections`): `putAll()` and the constructors of maps and sets do not look
  for an exception between asking a Traversable for its `current` and `key` and putting what it
  gave (`ds_map.c:285-288`, `ds_set.c:70`). When one of them throws, an unset key is put. It
  counts in `size` and `next`, and is deleted to everything that reads the table. The
  same in a `merge()` goes away with its result. `AlgebraFits`, `SlicesExplained` and
  `NarrowingExplained` say nothing of a table with such an entry.
* `SlicesExplained` (`Collections`): an index and a length whose sum overflows take
  a slice past the end of the table (`common.c:138`).
* `NarrowingExplained` (`Collections`): `Map::skip` and `Set::get` take a position
  modulo 2^32 (`ds_map.c:270-279`, `ds_set.c:130-140`), and a capacity above 2^31 is
  rounded to 0 or cut to one that is too small (`common.c:8-21`).
* `BuiltFollowsSource` (`Collections`): when the data of a set are broken, the
  `unserialize` handler frees the table that the set's object, made before, still has
  (`php_set.c:85`).
* `ArraysExplained` (`Collections`): integer keys of an array that a `uint32_t` cannot
  hold, the negative ones among them, come out as others (`ds_map.c:301`).
* `CountsBalance` (`SeqOwnership`): a `map()` whose callback throws never releases its
  first result (`ds_seq.c:731`). Its faults are walks in buffers that user code
  has changed, and a `map()` whose result takes the size that the sequence has
  after the callbacks (744).
* `CollectorSeesOwn` (`SeqOwnership`): once moves have left copies of values outside of
  the window, and the head has moved, `get_gc` reports them as well
  (`php_seq_handlers.c:119`).
* `DuplicatesExplained`, `MissesExplained` (`UserKeys`): a put whose `hash` throws goes
  on and stores its key under the hash 0 (`ds_htable.c:313`), where lookups do not
  find it; one whose `equals` throws or puts stores a key that is there already. An
  array that is a key is hashed by what it is serialized to (239): once an object in it
  has changed, it is not found any more, and may be put again. The theorem about
  `IdenticalKeysHashAlike` has one more such case: `[0.0]` and `[-0.0]` are identical
  and hash apart. (That a `Ds\Key` hashes as it equals is the user's to see to.)
* `TableSound` (`UserKeys`): a removal whose `equals` edits the table unlinks its
  bucket from what its walk had read (`ds_htable.c:838-843`), at the slot of the hash that was looked up even
  if the bucket has another key by then, and a call whose bucket goes
  away under it uses it all the same. Such a removal may leave other buckets in no chain. It
  may also leave the lookup of a slot, or a link, at a bucket that is not taken yet: when the
  bucket before its own was the last of the buffer and `equals` removed it, `next` is below
  that bucket, the write goes to what is unused, and the bucket taken out stays the
  head of its chain even when `next` falls below it, too. If the next key put there is of that
  slot, it is linked to what the lookup says, itself: a later walk along that chain
  does not end. With `MinCapacity = 2` a truncation, which rehashes, comes in between; with
  `MinCapacity = 4` TLC has the bucket linked to itself in some twenty steps once
  `LinksDescend` is an invariant.

`reverse` of a full wrapped sequence does nothing at all: head equals tail, and
the loop ends before it begins (`ds_seq.c:276`). `ImplementsValueSequence` admits
it: an abstract reversal is any rearrangement, and a step may change nothing.

## The theorems

The proofs use no assumption but the named `ASSUME`s of the modules: `Undef`,
`Hole`, `Empty`, `NoValue`, `NoKey` and `None` are no keys, values or holders, capacities are
positive and closed under the doubling and halving that the bound allows, the hash of a
key masks to a slot, `Ranking` maps values to integers, a `uint32_t` is no wider
than a `zend_long`, and the keys of a PHP array are distinct. TLC evaluates each on
its instance.

Every property of the passing runs is proved but one, `SiftEnds`, which is a matter of
liveness, so that the runs' bounds matter for that one only.

* **`DsHtableProofs`**, `Spec => []IInv` and what follows from it:
  `TypeCorrect`, `EntriesCounted` (`SizeIsEntryCount`), `KeysUnique` (`UniqueKeys`),
  `LookupsComplete` (`MissMeansAbsent`), `BufferRespected`, `RemovalsSafe`,
  `LookupsDescend`, `PositionsRight` (`PositionsExact`) and `FaultsAccounted`
  (`FaultsExplained`). `IInv` says of a table without a fault (`TableInv`) that
  size counts its live buckets, keys are distinct, `next` is within the capacity and
  each lookup entry and each link is the *latest* live bucket of its slot, before
  the bucket itself for a link. From the last one lookups are complete: a walk
  descends through the buckets of one slot and leaves none out (`WalkInv`).
  `MinDeletedInv` is the delicate part. `min_deleted` may be stale, and only a
  table with more than a quarter of its capacity below it, or too small to
  truncate, can have it so: which is why the `pack()` within a removal never meets a
  stale one (`RemovalsSafe`) though `sort` does. The argument goes operator by
  operator (`RehashKeeps`, `PackKeeps`, `InsertKeeps`, `DeleteKeeps`, `CopySound`, ...)
  and then action by action (`...Holds`). Positions come from the same part: below
  `min_deleted` every bucket is live, unless a `clear()` left deleted ones there, so
  that a position is an index there and a count from there on
  (`NthInPrefix`, `NthAbovePrefix`). `FaultsAccounted` is `PackKeeps` read
  backwards: a pack that loses a bucket had a stale `min_deleted` to go by.
  `RefinesOrderedMap` (`ImplementsOrderedMap`) is about the entries that a table shows,
  the n-th live bucket being the n-th entry. Every table that an operator makes copies
  live buckets of another one; the lemmas say from where (`Compacted`, gathered, appended
  or one left out) and that the copies are in order, so that they are the n-th
  live buckets there too (`NthUnique`). A removal deletes at the *rank* of its bucket.
  `IterationsComplete` (`IterationExact`) follows `Visits` from step to step by the
  least step that would go wrong.
  The last section (`Held`) is about tables whose chains are broken or lack buckets that a
  removal has bypassed and not yet deleted (`Ordered(t, D)`: the chains are those of the
  live buckets without `D`), as `UserKeys` needs them: what an insertion, a deletion in either
  half, a compaction and a growth do to such a table (`InsertHeld`, `BypassHeld`,
  `DropHeld`, `PutNewHeld`, ...).
* **`HeapProofs`**. The heap: `Spec => []IInv` with `TypeCorrect`, `ValuesKept`, `Ordered`
  and `GreatestFirst`. `HeapOrdered` says nothing of a sift under way. `IInv` does:
  but for the void node the heap is in order; what is below the void node is below
  what is above it (`Bridged`); and the value held is above the void node's
  children on the way up (`ChildrenBelow`), below its parent on the way down. That
  the root is a greatest value takes an induction along the ancestors of a node
  (`OrderReachesRoot`), done with the least counterexample. `RefinesPriorityBag`
  (`ImplementsPriorityBag`) counts how often a value lies in the nodes, the one held
  included: a sift moves one value into the void node and makes its own void,
  which changes no count, so that only the first step of a push and the last one of a pop
  are steps of the bag, and what a pop takes is a greatest value unless a comparator threw.
  The comparator slot: `SlotSpec => []SlotIInv` (`SlotInvariant`) with `SlotTypeCorrect`,
  `SortsNest` and `NoReentry`, for every depth of nesting. `UndisturbedKeepTheirs` is about
  the top of the stack only; `Nested` says what each method owes the one below, so that the
  property comes back when the top one ends.
* **`CopyOnWriteProofs`**, `Spec => []IInv` with `TypeCorrect`,
  `ObjectsLiveWhileReferred` (`ReferencesResolve`) and `BuffersCountHolders`
  (`RefsAreHolders`), for any number of objects, iterators and buffers. A count is the
  cardinality of a set of holders, so the argument is about finite sets that gain
  and lose a member. It is kept in one lemma for each thing that the protocol does
  to a buffer (`ReferencedSound`, `AllocatedSound`, `ReleasedSound`, `SeparatedSound`),
  which take a sound memory (`Sound`) to a sound one; an action is a few of
  those in a row. A walk refers to an object and holds no
  count of its own, so `Sound` speaks of objects and iterators only.
  `SharingIsInvisible` (`ImplementsIndependentCopies`) is about what the holders show.
  A write goes to the buffer that a separation has made the writer's only one, which the
  counts prove; where it does not, it is one of the two exceptions that
  the property names. The PHP reference that a fetch leaves in a cell stays at its
  position whoever comes to share the buffer (`RefPlaced`), which is what makes the
  leak through it one that the abstract specification can say.
* **`DsSeqProofs`**, `Spec => []IInv` with `TypeCorrect` and `WindowKept`
  (`WindowHoldsValues`), for any capacities, powers of two or not. `IInv` is
  `Settled`, the fields fit each other and a cell holds something exactly when it is
  in the window, and `LoopInv`: the two ends of reverse's loop stand for mirrored
  cells, however far they have gone past each other, which is what keeps a loop
  that never ends from doing any harm to the window; and rotate has a value to turn.
  The argument goes operator by operator: each one (`FrontHoldsValues`,
  `PushedSound`, `MovedRightSound`, `OpenedLeftSound`, `ClosedSound`, ...) leaves
  values in the whole window it describes (`Sound`), and what the model empties
  around it makes that `Settled` (`TidySettles`). Arithmetic modulo the capacity is
  stated once, as the two cases of a window that wraps or does not (`Around`).
  `EditsActInPlace` (`EditsArePositional`) and `RefinesValueSequence`
  (`ImplementsValueSequence`) are about `Contents`, the values from head on. A buffer shows
  them (`Shows`) at `Spot`, the cell of a position without a modulus; a lemma for each
  operator (`PushedShows`, `OpenedRightShows`, `ClosedShows`, `FrontShows`, ...) says what it
  does to them, which is one of two things: values are put in at a position (`Spliced`), or one
  is taken out (`Dropped`). A turn of reverse's loop exchanges two values of
  the window or, past its middle, two cells outside of it, so that the values are permuted
  (`Permutes`) whether or not the loop ends.
  The last section is about the cells as they are, those outside of the window included, which
  the model of `DsSeq` empties (`Tidy`) and that of `SeqOwnership` keeps: what each operator
  leaves in them (`Typed`), and when it leaves them unset (`Clean`).
* **`SeqOwnershipProofs`**, `Spec => []IInv` (`OwnershipInductive`) with `OwnerTyped`
  (`TypeOK`), `CountsBalanced` (`CountsBalance`) and `CollectorToldOfOwn` (`CollectorSeesOwn`),
  for any values, capacities and sizes. The buffer is that of `DsSeqProofs` over raw cells (`P`),
  so that an edit puts one value in at a position (`Puts`) or takes one out (`Takes`), and a
  count is how often a value occurs among the values of the window (`Times`), which `TimesSpliced`,
  `TimesDropped` and `TimesReplaced` follow. Neither property is inductive, since whether a
  method's next access is to a live cell depends on what it has read before its user code ran.
  `IInv` says what that is: as long as nobody has edited the sequence, the head, size and capacity
  that the walk has read are those of now (`Undisturbed`), and the released values lie exactly where
  the method has left them (`Emptied`): nowhere, in the cell that apply and set are about to
  write, or in those that clear has passed. Hence a fault of an undisturbed method
  is impossible, and the counts need no knowledge of it: user code may edit as it likes, for
  released values are never taken for live ones without a fault. For the collector it is enough
  that moves alone leave copies behind (`copies \/ Clean`).
* **`CollectionsProofs`**, `Spec => []IInv` with `TypeCorrect`, `NoKeyTwice`
  (`KeysDistinct`) and `WalksFollowed` (`BuiltFollowsSource`), for any collections, keys
  and widths. `IInv` is `SoundInv`, or `KeylessInv` once a Traversable has thrown in the
  midst of a put: from there nothing goes on (`NothingFollows`). `diff`, `intersect` and `xor` append without a look at what is there, so that
  keys stay distinct only because those of their source are (`KeptFacts`, `XorFacts`), and what
  a callback's method builds has no key twice only because it follows a collection that has
  none: the three are inductive together, with `WalkWithin`, that a walk has not passed the end
  of its collection. `AlgebraHolds`, `ArraysPut`, `NarrowingHolds` and `SlicesNamed` are about
  operators and need no more than types and distinct keys. What a merge puts is followed entry
  by entry (`MergedFacts`, `MergedHasLast`, `MergedTail`); that `xor` is the union
  without the intersection (`XorIsUnionWithout`) is two lists of the same positions in the same
  order (`KeptUnique`). `NarrowingHolds` has the powers of two in it, and so
  is a matter of `PowerOf2`'s steps.
* **`UserKeysProofs`**, `Spec => []IInv` with `UserCodeKeepsTable` (`TableSound`),
  `DuplicatesHaveReasons` (`DuplicatesExplained`) and `MissesHaveReasons`
  (`MissesExplained`), for any keys, hashes, capacities and depth of calls. None of the
  three is inductive. `IInv` has what user code cannot break at all: the table is `Held`
  (counts, types and pointers stay in the buffer, whatever the chains are worth), a call whose
  table was not edited under it has its bucket at hand (`CallOK`), a dying value is in the
  hands of one call (`Handed`), and buckets keep the hashes of their keys (`HashesKept`).
  And it has what holds until a removal unlinks a bucket of an edited table
  (`broken \/ Intact`): the chains are the *latest* live buckets of their slots, without those
  whose removals are in a destructor (`Taken`), which are unlinked and still live; a walk
  is on its chain and has not passed by the key (`WalkOK`), but only as long as no call above it
  removes or has edited the table (`Steady`), so that what a nested removal does to a walk
  beneath it need not be known; and equal keys are apart (`Apart`), the
  buckets included whose values are dying in a put and will be whole again. A lookup that
  ends at NIL has therefore seen every bucket of its hash; the put that follows it makes no
  duplicate, and the miss has its reason. The edits are those of `DsHtableProofs`,
  instantiated with keys that carry their hash (`P`); `SameReads` and `SameEdits` say that
  the operators of the model (`H`) are the ones proved about.
  `HashesFollowIdentity`: `IdenticalKeysHashAlike` of `KeyIdentity` holds
  for all keys and all hash functions, from two assumptions: a zval is its type and
  its value, and whether an object implements `Ds\Key` is a matter of its class. It
  goes type by type, through what is shared by elements of arrays and keys of their own.
* **`ScanProofs`** are the lemmas on `Rank`, `Nth` and `Latest` on which the table's
  proofs rest.

Out of the prover's reach, and so only model-checked: the liveness properties
(`SiftEnds`), as TLAPS 1.4.5 proves neither liveness under fairness nor facts
about ENABLED. The library's induction theorems take an operator as a
parameter, which none of the installed provers can instantiate; where a recursive function
runs over a finite range of indices (`Merged`, `PowerOf2`, `Visits`), its steps are
established, and followed, by the least index that would be a counterexample (`UpTo`,
`MergingExists`, `PowerSteps`). No module declares a RECURSIVE operator.

Every other property of the passing runs is proved, invariants and action properties.

## What is not modelled

* **Reads and conversions** (`toArray`, `sum`, `reduce`, `join`, JSON, dumps):
  they change nothing. That a callback may change the collection under `reduce` is
  the walk of `CopyOnWrite`'s `Map`.
* **Serialization** as text: a format of PHP's. Unserialization of maps and sets is in
  `Collections`; that of sequences and heaps pushes, which `DsSeq` and `DsHeap` have,
  and frees what it built on an error.
* **What becomes of a table that counts an entry without a key** (`YieldThrows`):
  `Collections` stops there, and in `DsHtable` and `UserKeys` a key is never unset.
  The Traversable of a sequence or a heap that throws in `current` leaves an unset value
  among its values (`ds_seq.c:632`, `ds_heap.c:190`); `DsSeq` and `DsHeap` never look at what
  a value is, and take it for a value like another.
* **Code that re-enters a heap that is in the midst of a sift**: a comparator, or the
  destructor of a value, that calls the same heap's methods; and comparators that edit the
  buffer in the midst of a `qsort`. `Comparator` has the calls, for the slot that they compare
  with, and no buffers; `DsHeap` has the buffer, and no calls.
* **Keys that are references**, which only a Traversable can yield, and arrays nested
  in arrays that are keys.
* **Reference counts of values** in the table and the heap. `SeqOwnership` follows
  those of the sequence; in the other models a value is a member of a set.
* **What an iterator sees** of a table that its own collection writes while it is
  the only holder: a write separates from an iterator, which keeps the old
  buffer, but for the walks that `CopyOnWrite` excepts.
* **Nested depth.** User code called from user code: two methods deep in `UserKeys` and
  `CopyOnWrite`, one in `SeqOwnership`, four in `Comparator`.
* **Time and memory.** Allocation does not fail; complexity is not measured.
* **Pair, Key, registration, argument tables**: without behaviour of their own.

## Plan

Done, in this order, the most important first: the table with its proofs; the
ring buffer with its proofs; the heap with its proofs; sharing with its proofs; the comparator slot
with its proofs; Map and Set; the references of values; keys with code of their
own; the widths of capacities and keys; the hash and identity of keys of every type;
unserialization of maps and sets. Next:

1. *More of the system.* The unserialization of sequences and heaps; the references of values in the table, where a bucket has two; destructors
   under the table's `clear`.
2. *More proofs.* Of the violations that the runs find, which exceptions are the only ones;
   that the walks of `SeqOwnership` meet every cell when nobody edits the sequence.
