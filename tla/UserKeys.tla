------------------------------ MODULE UserKeys ------------------------------
(***************************************************************************)
(* Keys with code of their own in the hash table (src/ds/ds_htable.c): the *)
(* hash() and equals() of objects that implement Ds\Key, and destructors.  *)
(* hash() runs before a method looks at the table; equals() runs in the    *)
(* middle of the walk along a chain, and destructors in the middle of a    *)
(* put or a removal.  What they call on the same table runs to its end     *)
(* before they return, so the calls under way form a stack, of which only  *)
(* the last one moves.  Besides there are arrays as keys, with objects in  *)
(* them that the program writes to.                                        *)
(*                                                                         *)
(* The table and its edits are those of DsHtable, hashes and equality of   *)
(* keys those of KeyIdentity.  A bucket's key is kept with the hash that   *)
(* it was put under.                                                       *)
(***************************************************************************)
EXTENDS Integers, Sequences, FiniteSets, Scan, KeyIdentity

CONSTANTS
  Key,           \* the zvals used as keys; one for all that are identical
  Undef,
  Mask(_, _), MinCapacity, MaxCapacity,
  MaxEntries,    \* bound of the model: puts stop at so many buckets
  MaxDepth,      \* bound of the model: calls under way at a time
  MaxMade        \* bound of the model: calls that one call's user code makes

ASSUME BoundAssumption ==
  /\ MaxDepth \in Nat \ {0}
  /\ MaxEntries \in 1 .. MaxCapacity
  /\ MaxMade \in Nat
ASSUME CapacityAssumption ==
  /\ MinCapacity \in Nat \ {0}
  /\ MaxCapacity \in Nat /\ MinCapacity <= MaxCapacity
ASSUME KeyAssumption ==
  /\ Key \subseteq Zval
  /\ \A k \in Key, p \in Props : KeyHash(k, p) \in Nat
  /\ \A k, l \in Key : KeyIdentical(k, l) <=> k = l

VARIABLES
  table,     \* the ds_htable_t
  props,     \* what the objects' properties are
  calls,     \* the calls under way, each with its local variables
  blurred,   \* keys put by a call that an exception or an edit disturbed, and all
             \* keys once a chain is broken
  broken,    \* a removal unlinked a bucket after the table was edited
  fault      \* what a call did with a bucket that is gone, or "none"

vars == <<table, props, calls, blurred, broken, fault>>

Hashes == {KeyHash(k, p) : k \in Key, p \in Props} \union {0}

ASSUME MaskAssumption ==
  \A h \in Hashes, c \in 1 .. MaxCapacity : Mask(h, c) \in 0 .. c - 1

Stored == [zval : Key, hash : Hashes]

ASSUME UndefAssumption == Undef \notin Stored

IsKeyed(k) == k.type = "object" /\ k.of \in Keyed

\* The bits of a value whose destructor runs.
Gone == "gone"

H == INSTANCE DsHtable WITH
  Key <- Stored, Value <- {"kept", Gone}, Hash <- [s \in Stored |-> s.hash],
  AllocCapacities <- {}, pc <- "idle", call <- << >>, cur <- NIL, prev <- NIL,
  dirty <- FALSE

Faults ==
  {"freed",     \* a bucket in a buffer that was replaced or packed was used
   "lost",      \* a value was read from or written to a deleted bucket
   "twice"}     \* a bucket was deleted again, or a dying value used

Top == calls[Len(calls)]

SetTop(f) == [calls EXCEPT ![Len(calls)] = f]

Running(phase) == fault = "none" /\ calls # << >> /\ Top.phase = phase

UserCode == calls # << >> => Top.phase \in {"equals", "destructor"}

\* User code runs, and may call a method of the map or set.
MayCall ==
  /\ UserCode
  /\ calls # << >> => Len(calls) < MaxDepth /\ Top.made < MaxMade

\* The calls under way, with one more that their user code has made.
Called == IF calls = << >> THEN calls ELSE SetTop([Top EXCEPT !.made = @ + 1])

\* BUCKET_DELETED of a bucket in the buffer: those beyond next are deleted.
Deleted(i) == i >= table.next \/ table.key[i] = Undef

NextOf(i) == IF Deleted(i) THEN NIL ELSE table.link[i]

\* The calls fs after an edit, which replaces or packs the buffer or does not.
Edited(fs, moves) ==
  [i \in DOMAIN fs |-> [fs[i] EXCEPT !.edited = TRUE, !.freed = @ \/ moves]]

Outer == SubSeq(calls, 1, Len(calls) - 1)

Fails(kind) ==
  /\ fault' = kind
  /\ UNCHANGED <<table, props, calls, blurred, broken>>

-----------------------------------------------------------------------------
(* The start of a call, and its walk.                                      *)

\* get_hash() of an object whose hash() throws is 0, and the call goes on: a put
\* with a new bucket, another call, left out, with a miss.
HashFor(k, throws) == IF throws THEN 0 ELSE KeyHash(k, props)

Puts == Cardinality({n \in DOMAIN calls : calls[n].op = "put"})

Begin(op, k, throws) ==
  /\ fault = "none" /\ MayCall
  /\ throws => IsKeyed(k)
  /\ op = "put" => table.size + Puts < MaxEntries
  /\ LET h == HashFor(k, throws)
     IN  calls' = Append(Called,
           [op |-> op, key |-> k, hash |-> h, phase |-> "walk",
            cur |-> table.lookup[Mask(h, table.capacity)], prev |-> NIL,
            matches |-> FALSE, thrown |-> throws, edited |-> FALSE, freed |-> FALSE,
            made |-> 0])
  /\ UNCHANGED <<table, props, blurred, broken, fault>>

\* The call with its bucket left behind; a removal remembers it.
Advanced(f) ==
  [f EXCEPT !.phase = "walk", !.cur = NextOf(f.cur), !.matches = FALSE,
            !.prev = IF f.op = "remove" THEN f.cur ELSE NIL]

\* equals() of a bucket's key b is called with key z.
HasEquals(b, z) == IsKeyed(b) /\ z.type = "object" /\ ClassOf(b.of) = ClassOf(z.of)

\* A bucket with the same hash is compared, by equals() where its key has one, but
\* not while an exception is on its way.
Compared(f) ==
  LET b == table.key[f.cur].zval
      g == [f EXCEPT !.matches = KeyIdentical(b, f.key)]
  IN  IF Deleted(f.cur) \/ table.key[f.cur].hash # f.hash THEN Advanced(f)
      ELSE IF HasEquals(b, f.key) /\ ~f.thrown THEN [g EXCEPT !.phase = "equals"]
      ELSE IF ~IsKeyed(b) /\ g.matches THEN [g EXCEPT !.phase = "found"]
      ELSE Advanced(f)

Compare ==
  /\ Running("walk") /\ Top.cur # NIL
  /\ calls' = SetTop(Compared(Top))
  /\ UNCHANGED <<table, props, blurred, broken, fault>>

\* equals() returns false or throws: the walk goes on from the bucket that it
\* pointed to.
EqualsFails(throws) ==
  /\ Running("equals")
  /\ throws \/ ~Top.matches
  /\ IF Top.freed THEN Fails("freed")
     ELSE /\ calls' = SetTop([Advanced(Top) EXCEPT !.thrown = throws])
          /\ UNCHANGED <<table, props, blurred, broken, fault>>

Return == calls' = Outer

\* The end of a chain, for a get or a removal.
Miss ==
  /\ Running("walk") /\ Top.cur = NIL /\ Top.op # "put"
  /\ Return
  /\ UNCHANGED <<table, props, blurred, broken, fault>>

\* A mistake: the bucket keeps the slot instead of the hash.
StoredSlot(f) == [zval |-> f.key, hash |-> Mask(f.hash, table.capacity)]

\* What a new bucket keeps: the key, and the hash that the walk used.
StoredAs(f) == [zval |-> f.key, hash |-> f.hash]

\* The end of a chain, for a put.
PutMiss ==
  /\ Running("walk") /\ Top.cur = NIL /\ Top.op = "put"
  /\ table' = H!PutNew(table, StoredAs(Top), "kept")
  /\ table'.capacity <= MaxCapacity
  /\ calls' = Edited(Outer, H!Full(table))
  /\ blurred' = IF Top.thrown \/ Top.edited THEN blurred \union {Top.key} ELSE blurred
  /\ UNCHANGED <<props, broken, fault>>

-----------------------------------------------------------------------------
(* Hits.                                                                   *)

\* The key of the bucket, which may be gone by now, is identical.
Hit(op) ==
  /\ Running("equals") \/ Running("found")
  /\ Top.matches /\ Top.op = op

FailsOr(kind) == Fails(IF Top.freed THEN "freed" ELSE kind)

GoneFromUnder == Top.freed \/ Deleted(Top.cur)

\* A value that is read while its destructor runs is given out again.
GetHit ==
  /\ Hit("get")
  /\ IF GoneFromUnder THEN FailsOr("lost")
     ELSE IF table.value[Top.cur] = Gone THEN Fails("twice")
     ELSE Return /\ UNCHANGED <<table, props, blurred, broken, fault>>

\* The value of the current bucket is destroyed, in table t.
Destroying(t) ==
  /\ table' = [t EXCEPT !.value[Top.cur] = Gone]
  /\ calls' = SetTop([Top EXCEPT !.phase = "destructor"])
  /\ UNCHANGED <<props, fault>>

PutHit ==
  /\ Hit("put")
  /\ IF GoneFromUnder THEN FailsOr("lost")
     ELSE IF table.value[Top.cur] = Gone THEN Fails("twice")
     ELSE Destroying(table) /\ UNCHANGED <<blurred, broken>>

PutStores ==
  /\ Running("destructor") /\ Top.op = "put"
  /\ IF GoneFromUnder THEN FailsOr("lost")
     ELSE /\ table' = [table EXCEPT !.value[Top.cur] = "kept"]
          /\ Return
          /\ UNCHANGED <<props, blurred, broken, fault>>

\* A mistake: the bucket is taken for the first of its chain.
UnlinkedFirst(t, i, p, h) == [t EXCEPT !.lookup[Mask(h, t.capacity)] = t.link[i]]

\* Bucket i is taken out of the chain of hash h, after p as the walk found it.
Unlinked(t, i, p, h) ==
  IF p = NIL THEN [t EXCEPT !.lookup[Mask(h, t.capacity)] = t.link[i]]
  ELSE IF p >= t.next THEN t
  ELSE [t EXCEPT !.link[p] = t.link[i]]

\* The bucket is unlinked before its value and its key are destroyed.
RemoveHit ==
  /\ Hit("remove")
  /\ IF GoneFromUnder THEN FailsOr("twice")
     ELSE IF table.value[Top.cur] = Gone THEN Fails("twice")
     ELSE /\ Destroying(Unlinked(table, Top.cur, Top.prev, Top.hash))
          /\ broken' = (broken \/ Top.edited)
          /\ blurred' = IF broken' THEN Key ELSE blurred

\* The rest of a removal; the bucket is in no chain any more.
RemoveEnds ==
  /\ Running("destructor") /\ Top.op = "remove"
  /\ LET t == H!DeleteBucket(table, Top.cur, Top.cur)
     IN  IF GoneFromUnder THEN FailsOr("twice")
         ELSE /\ table' = H!AutoTruncate(t)
              /\ calls' = Edited(Outer, H!Truncates(t))
              /\ UNCHANGED <<props, blurred, broken, fault>>

\* clear(), of a table with entries and in one step.
Clear ==
  /\ fault = "none" /\ MayCall
  /\ table.size > 0
  /\ IF \E i \in H!Live(table) : table.value[i] = Gone THEN Fails("twice")
     ELSE /\ table' = H!ClearTable(table)
          /\ calls' = Edited(Called, table.capacity > MinCapacity)
          /\ blurred' = {} /\ broken' = FALSE
          /\ UNCHANGED <<props, fault>>

\* The program writes to an object.
Write(p) ==
  /\ fault = "none" /\ UserCode
  /\ props' = p
  /\ UNCHANGED <<table, calls, blurred, broken, fault>>

\* Execution is not followed past a fault.
Stopped == fault # "none" /\ UNCHANGED vars

-----------------------------------------------------------------------------
Init ==
  /\ table = H!Fresh(MinCapacity)
  /\ props \in Props
  /\ calls = << >>
  /\ blurred = {} /\ broken = FALSE
  /\ fault = "none"

Ops == {"get", "put", "remove"}

Next ==
  \/ \E op \in Ops, k \in Key : Begin(op, k, FALSE)
  \/ \E k \in Key : Begin("put", k, TRUE)
  \/ Compare
  \/ \E throws \in BOOLEAN : EqualsFails(throws)
  \/ Miss \/ PutMiss
  \/ GetHit \/ PutHit \/ PutStores \/ RemoveHit \/ RemoveEnds
  \/ Clear
  \/ \E p \in Props : Write(p)
  \/ Stopped

Spec == Init /\ [][Next]_vars

-----------------------------------------------------------------------------
(* Properties.                                                             *)

Call ==
  [op : Ops, key : Key, hash : Hashes,
   phase : {"walk", "equals", "found", "destructor"},
   cur : NIL .. MaxCapacity, prev : NIL .. MaxCapacity,
   matches : BOOLEAN, thrown : BOOLEAN, edited : BOOLEAN, freed : BOOLEAN,
   made : 0 .. MaxMade]

\* The calls whose destructor runs, and that will find their bucket again.
Owners == {n \in DOMAIN calls : calls[n].phase = "destructor" /\ ~calls[n].freed}

\* The buckets that a removal under way has unlinked.
Doomed == {calls[n].cur : n \in {m \in Owners : calls[m].op = "remove"}}

\* The buckets whose values are not being destroyed.
Whole == {i \in H!Live(table) : table.value[i] # Gone}

\* Each chain holds exactly the buckets of its slot, last first.
ChainsComplete ==
  LET chain(s, n) == H!Colliding(table, s, n) \ Doomed IN
  /\ \A s \in 0 .. table.capacity - 1 : table.lookup[s] = Latest(chain(s, table.next))
  /\ \A i \in H!Live(table) \ Doomed :
       table.link[i] = Latest(chain(H!Slot(table, table.key[i]), i))

\* Links lead to the front of the buffer, and so every walk ends.
LinksDescend == \A i \in 0 .. table.next - 1 : table.link[i] \in NIL .. i - 1

\* Whatever keys throw and whatever they call, size counts the live buckets and
\* the table stays inside its buffer; every walk ends and the chains stay complete,
\* but for removals whose equals() edited the table before they unlinked a bucket,
\* which may leave a lookup that leads into a bucket not yet taken, and so to a
\* bucket that is linked to itself.  A call meets a bucket that is gone, or a value
\* that is dying, only when the table is edited under it or used by a destructor
\* (ds_htable.c:359-385, 702-734, 818-876).
TableSound ==
  /\ calls \in Seq(Call) /\ Len(calls) <= MaxDepth
  /\ props \in Props
  /\ blurred \subseteq Key /\ broken \in BOOLEAN
  /\ fault \in Faults \union {"none"}
  /\ H!TableTypeOK(table)
  /\ H!CountsLive(table) /\ table.next <= table.capacity
  /\ broken \/ (LinksDescend /\ ChainsComplete)
  /\ fault # "none" =>
       \E n \in DOMAIN calls : calls[n].edited \/ calls[n].phase = "destructor"

\* Two buckets have equal keys only if one was put by a call whose hash() or
\* equals() threw or edited the table, or a removal has broken a chain before, or
\* if the key is an array that has changed, and so its hash, between the two puts
\* (ds_htable.c:239-318, 702-718).
DuplicatesExplained ==
  broken \/
  \A i, j \in Whole :
    i # j /\ table.key[i].zval = table.key[j].zval =>
      \/ table.key[i].zval \in blurred
      \/ table.key[i].zval.type = "array" /\ table.key[i].hash # table.key[j].hash

\* A get or a removal misses a key that is in the table only if its own hash()
\* or equals() threw or edited the table, the key was put by such a call, a
\* removal has broken a chain, or the key is an array that has another hash by now
\* (ds_htable.c:239-259, 359-385, 818-876).
MissesExplained ==
  [][Miss =>
       \/ Top.thrown \/ Top.edited
       \/ broken \/ Top.key \in blurred
       \/ \A i \in Whole :
            table.key[i].zval = Top.key =>
              Top.key.type = "array" /\ table.key[i].hash # Top.hash]_vars

=============================================================================
