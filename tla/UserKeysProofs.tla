--------------------------- MODULE UserKeysProofs ---------------------------
(***************************************************************************)
(* Proofs about UserKeys: what keys with code of their own can and cannot  *)
(* do to the table, for any keys, hashes, capacities and depth of calls.   *)
(* What the edits do to the table is taken from the proofs about DsHtable. *)
(***************************************************************************)
EXTENDS UserKeys, SequenceTheorems, FiniteSetTheorems, TLAPS

P == INSTANCE DsHtableProofs WITH
  Key <- Stored, Value <- {"kept", Gone}, Hash <- [s \in Stored |-> s.hash],
  AllocCapacities <- {}, pc <- "idle", call <- << >>, cur <- NIL, prev <- NIL,
  dirty <- FALSE

LEMMA Assumptions == P!UndefAssumption /\ P!CapacityAssumption /\ P!MaskAssumption
<1>1. \A s \in Stored : s.hash \in Hashes
  BY DEF Stored
<1> QED BY <1>1, UndefAssumption, CapacityAssumption, MaskAssumption
           DEF P!UndefAssumption, P!CapacityAssumption, P!MaskAssumption

-----------------------------------------------------------------------------
(* The operators of DsHtable that UserKeys takes are those of its proofs.  *)

LEMMA SameCounts ==
  \A S : H!Cardinality(S) = Cardinality(S) /\ P!Cardinality(S) = Cardinality(S)
BY Zenon DEF H!Cardinality, P!Cardinality, Cardinality

LEMMA SameReads ==
  /\ P!NIL = NIL /\ \A S : P!Latest(S) = Latest(S)
  /\ \A t : H!Live(t) = P!Live(t)
  /\ \A t, k : H!Slot(t, k) = P!Slot(t, k)
  /\ \A t, s, n : H!Colliding(t, s, n) = P!Colliding(t, s, n)
  /\ \A t : H!Full(t) = P!Full(t)
  /\ \A t : H!Truncates(t) = P!Truncates(t)
  /\ \A t : H!TableTypeOK(t) <=> P!TableTypeOK(t)
  /\ \A t : H!CountsLive(t) <=> P!CountsLive(t)
<1>1. P!NIL = NIL /\ \A S : P!Latest(S) = Latest(S)
  BY DEF P!NIL, NIL, P!Latest, Latest
<1>2. \A t : H!Live(t) = P!Live(t)
  BY DEF H!Live, P!Live
<1>3. \A t, k : H!Slot(t, k) = P!Slot(t, k)
  BY DEF H!Slot, P!Slot
<1>4. \A t, s, n : H!Colliding(t, s, n) = P!Colliding(t, s, n)
  BY <1>2, <1>3 DEF H!Colliding, P!Colliding
<1>5. /\ \A t : H!Full(t) = P!Full(t)
      /\ \A t : H!Truncates(t) = P!Truncates(t)
  BY DEF H!Full, P!Full, H!Truncates, P!Truncates
<1>7. \A t : H!CountsLive(t) <=> P!CountsLive(t)
  BY <1>2, SameCounts, Zenon DEF H!CountsLive, P!CountsLive
<1>6. \A t : H!TableTypeOK(t) <=> P!TableTypeOK(t)
  BY DEF H!TableTypeOK, P!TableTypeOK, H!Fields, P!Fields
<1> QED BY <1>1, <1>2, <1>3, <1>4, <1>5, <1>6, <1>7

LEMMA SameEdits ==
  /\ \A t, k, v : H!PutNew(t, k, v) = P!PutNew(t, k, v)
  /\ \A t, i, p : H!DeleteBucket(t, i, p) = P!DeleteBucket(t, i, p)
  /\ \A t : H!AutoTruncate(t) = P!AutoTruncate(t)
  /\ \A t : H!ClearTable(t) = P!ClearTable(t)
  /\ \A c : H!Fresh(c) = P!Fresh(c)
<1>1. \A t : H!Relink(t) = P!Relink(t)
  BY Zenon
     DEF H!NIL, P!NIL, H!Latest, P!Latest, H!Live, P!Live, H!Slot,
         P!Slot, H!Colliding, P!Colliding, H!ChainedAfter,
         P!ChainedAfter, H!Relink, P!Relink
<1>2. \A t : H!Compacted(t) = P!Compacted(t)
  BY Zenon
     DEF H!NIL, P!NIL, H!Latest, P!Latest, H!Live, P!Live, H!Slot,
         P!Slot, H!Colliding, P!Colliding, H!Rank, P!Rank, H!Nth, P!Nth,
         H!Cardinality, P!Cardinality, H!Gather, P!Gather, H!Compacted,
         P!Compacted
<1>3. \A t : H!Rehash(t) = P!Rehash(t)
  BY <1>1, <1>2, Zenon
     DEF H!IsPacked, P!IsPacked, H!Rehash, P!Rehash
<1>4. \A t : H!Pack(t) = P!Pack(t)
  BY Zenon
     DEF H!NIL, P!NIL, H!Latest, P!Latest, H!Live, P!Live, H!Slot,
         P!Slot, H!Colliding, P!Colliding, H!Rank, P!Rank, H!Nth, P!Nth,
         H!Cardinality, P!Cardinality, H!Gather, P!Gather, H!IsPacked,
         P!IsPacked, H!Pack, P!Pack
<1>5. \A t : H!IncreaseCapacity(t) = P!IncreaseCapacity(t)
  BY <1>3, Zenon
     DEF H!IncreaseCapacity, P!IncreaseCapacity
<1>6. \A t, k, v : H!InitNextBucket(t, k, v) = P!InitNextBucket(t, k, v)
  BY Zenon
     DEF H!Slot, P!Slot, H!InitNextBucket, P!InitNextBucket
<1>7. \A t, k, v : H!PutNew(t, k, v) = P!PutNew(t, k, v)
  BY <1>5, <1>6, Zenon
     DEF H!Full, P!Full, H!PutNew, P!PutNew
<1>8. \A t : H!AutoTruncate(t) = P!AutoTruncate(t)
  BY <1>3, <1>4, Zenon
     DEF H!Truncates, P!Truncates, H!AutoTruncate, P!AutoTruncate
<1>9. \A c : H!Fresh(c) = P!Fresh(c)
  BY Zenon
     DEF H!NIL, P!NIL, H!Fresh, P!Fresh
<1>10. \A t : H!ClearTable(t) = P!ClearTable(t)
  BY Zenon
     DEF H!NIL, P!NIL, H!Fresh, P!Fresh, H!ClearTable, P!ClearTable
<1>11. \A t, i : H!NextWithout(t, i) = P!NextWithout(t, i)
  BY Zenon
     DEF H!NIL, P!NIL, H!Latest, P!Latest, H!Live, P!Live,
         H!NextWithout, P!NextWithout
<1>12. \A t, i, p, n : [j \in 0 .. n - 1 |-> H!LinkWithout(t, i, p, j)] = [j \in 0 .. n - 1 |-> P!LinkWithout(t, i, p, j)]
  BY Zenon
     DEF H!NIL, P!NIL, H!LinkWithout, P!LinkWithout
<1>13. \A t, i, p : [s \in 0 .. t.capacity - 1 |-> H!LookupWithout(t, i, p, s)] = [s \in 0 .. t.capacity - 1 |-> P!LookupWithout(t, i, p, s)]
  BY Zenon
     DEF H!NIL, P!NIL, H!Slot, P!Slot, H!LookupWithout, P!LookupWithout
<1>14. \A t, i : H!MinDeletedWith(t, i) = P!MinDeletedWith(t, i)
  BY Zenon
     DEF H!MinDeletedWith, P!MinDeletedWith
<1>15. ASSUME NEW t, NEW i, NEW p PROVE H!DeleteBucket(t, i, p) = P!DeleteBucket(t, i, p)
  <2> DEFINE n == P!NextWithout(t, i)
             undefined(f) == [j \in 0 .. n - 1 |-> IF j = i THEN Undef ELSE f[j]]
             without == [t EXCEPT
               !.key = undefined(t.key), !.value = undefined(t.value),
               !.link = [j \in 0 .. n - 1 |-> P!LinkWithout(t, i, p, j)],
               !.lookup = [s \in 0 .. t.capacity - 1 |-> P!LookupWithout(t, i, p, s)],
               !.next = n, !.minDeleted = P!MinDeletedWith(t, i), !.size = t.size - 1]
  <2>1. P!DeleteBucket(t, i, p) = without
    BY Zenon DEF P!DeleteBucket
  <2>2. H!DeleteBucket(t, i, p) = without
    <3>1. H!NextWithout(t, i) = n /\ H!MinDeletedWith(t, i) = P!MinDeletedWith(t, i)
      BY <1>11, <1>14
    <3>2. [j \in 0 .. n - 1 |-> H!LinkWithout(t, i, p, j)]
            = [j \in 0 .. n - 1 |-> P!LinkWithout(t, i, p, j)]
      BY <1>12
    <3>3. [s \in 0 .. t.capacity - 1 |-> H!LookupWithout(t, i, p, s)]
            = [s \in 0 .. t.capacity - 1 |-> P!LookupWithout(t, i, p, s)]
      BY <1>13
    <3> HIDE DEF n
    <3> QED BY <3>1, <3>2, <3>3, Zenon DEF H!DeleteBucket
  <2> QED BY <2>1, <2>2
<1> QED BY <1>7, <1>8, <1>9, <1>10, <1>15

-----------------------------------------------------------------------------
(* The invariant.  It is about a table t and calls cs, so that the edits of *)
(* one and the steps of the other can be taken apart.                       *)

\* The destructor of the call's bucket runs, and the bucket is where it was.
Owning(f) == f.phase = "destructor" /\ ~f.freed

\* The buckets in the hands of the puts, or of the removals, under way.
Taken(cs, op) == {cs[n].cur : n \in {m \in DOMAIN cs : Owning(cs[m]) /\ cs[m].op = op}}

\* All calls but the last wait for their user code to return.
Stacked(cs) ==
  /\ cs \in Seq(Call) /\ Len(cs) <= MaxDepth
  /\ \A n \in 1 .. Len(cs) - 1 : cs[n].phase \in {"equals", "destructor"}

\* As long as the table is not edited under it, a call has its bucket at hand.
CallOK(t, f) ==
  /\ f.freed => f.edited
  /\ f.phase # "walk" => f.cur # NIL
  /\ f.phase = "equals" => ~f.thrown
  /\ f.phase \in {"equals", "found"} /\ ~f.edited =>
       /\ f.cur \in P!Live(t)
       /\ t.key[f.cur].hash = f.hash
       /\ f.matches <=> t.key[f.cur].zval = f.key
  /\ Owning(f) => f.cur \in P!Live(t) /\ t.value[f.cur] = Gone
  /\ f.phase = "destructor" => f.op # "get"
  /\ f.thrown \/ f.key.type = "array" \/ \A p \in Props : f.hash = KeyHash(f.key, p)

\* A dying value is in the hands of one call, or of one that lost it.
Handed(t, cs) ==
  /\ \A m, n \in DOMAIN cs :
       Owning(cs[m]) /\ Owning(cs[n]) /\ cs[m].cur = cs[n].cur => m = n
  /\ \A i \in P!Live(t) : t.value[i] = Gone =>
       \E n \in DOMAIN cs :
         cs[n].phase = "destructor" /\ (cs[n].freed \/ cs[n].cur = i)

\* Every bucket has the hash of its key, but for disturbed puts and arrays.
HashesKept(t, bl) ==
  \A i \in P!Live(t) :
    \/ t.key[i].zval \in bl \/ t.key[i].zval.type = "array"
    \/ \A p \in Props : t.key[i].hash = KeyHash(t.key[i].zval, p)

\* The buckets of t that hash like h and are not in D.
Chain(t, D, h) ==
  {i \in P!Live(t) \ D : Mask(t.key[i].hash, t.capacity) = Mask(h, t.capacity)}

\* A call walks, or its equals() runs, and nothing has happened to its chain.
Steady(cs, n) ==
  /\ ~cs[n].edited /\ cs[n].phase # "destructor"
  /\ \A m \in DOMAIN cs : m > n => cs[m].op # "remove" \/ cs[m].phase # "destructor"

\* The walk is on its chain, and has not passed by the key.
WalkOK(t, f, D) ==
  /\ f.cur = NIL \/ f.cur \in Chain(t, D, f.hash)
  /\ f.op = "remove" =>
       IF f.prev = NIL THEN t.lookup[Mask(f.hash, t.capacity)] = f.cur
       ELSE f.prev \in Chain(t, D, f.hash) /\ t.link[f.prev] = f.cur
  /\ ~f.thrown =>
       \A i \in P!Live(t) \ D :
         t.key[i] = [zval |-> f.key, hash |-> f.hash] => f.cur # NIL /\ i <= f.cur

\* The buckets whose values are there, or will be again.
Kept(t, F) == {i \in P!Live(t) : t.value[i] # Gone} \union F

Apart(t, F, bl) ==
  \A i, j \in Kept(t, F) :
    i # j /\ t.key[i].zval = t.key[j].zval =>
      \/ t.key[i].zval \in bl
      \/ t.key[i].zval.type = "array" /\ t.key[i].hash # t.key[j].hash

\* What a removal that unlinked a bucket of an edited table ends.
Intact(t, cs, bl) ==
  /\ P!Ordered(t, Taken(cs, "remove"))
  /\ \A n \in DOMAIN cs : Steady(cs, n) => WalkOK(t, cs[n], Taken(cs, "remove"))
  /\ Apart(t, Taken(cs, "put"), bl)

Good(t, cs, bl, br) ==
  /\ P!Held(t) /\ Stacked(cs)
  /\ \A n \in DOMAIN cs : CallOK(t, cs[n])
  /\ Handed(t, cs) /\ HashesKept(t, bl)
  /\ br \/ Intact(t, cs, bl)

Disturbed(cs) == \E n \in DOMAIN cs : cs[n].edited \/ cs[n].phase = "destructor"

IInv ==
  /\ props \in Props /\ blurred \subseteq Key /\ broken \in BOOLEAN
  /\ fault \in Faults \union {"none"}
  /\ fault # "none" => Disturbed(calls)
  /\ Good(table, calls, blurred, broken)

-----------------------------------------------------------------------------
(* Facts about tables.                                                     *)

LEMMA TableFacts ==
  ASSUME NEW t, P!Held(t)
  PROVE  /\ t.next \in Nat /\ t.capacity \in 1 .. MaxCapacity /\ t.capacity \in Nat
         /\ t.next <= t.capacity /\ MaxCapacity \in Nat
         /\ t.key \in [0 .. t.next - 1 -> Stored \union {Undef}]
         /\ t.value \in [0 .. t.next - 1 -> {"kept", Gone} \union {Undef}]
         /\ t.lookup \in [0 .. t.capacity - 1 -> NIL .. t.capacity - 1]
         /\ t.link \in [0 .. t.next - 1 -> NIL .. t.capacity - 1]
         /\ \A i \in P!Live(t) :
              /\ i \in 0 .. t.next - 1 /\ i \in Nat /\ i < t.next /\ i # NIL
              /\ t.key[i] \in Stored /\ t.key[i] # Undef
              /\ t.key[i].zval \in Key /\ t.key[i].hash \in Hashes
              /\ P!Slot(t, t.key[i]) = Mask(t.key[i].hash, t.capacity)
         /\ \A i \in 0 .. t.next - 1 : t.key[i] # Undef => i \in P!Live(t)
         /\ \A h \in Hashes : Mask(h, t.capacity) \in 0 .. t.capacity - 1
<1>1. /\ t.next \in Nat /\ t.capacity \in 1 .. MaxCapacity /\ t.capacity \in Nat \ {0}
      /\ t.next <= t.capacity
      /\ t.key \in [0 .. t.next - 1 -> Stored \union {Undef}]
      /\ t.value \in [0 .. t.next - 1 -> {"kept", Gone} \union {Undef}]
      /\ t.lookup \in [0 .. t.capacity - 1 -> P!NIL .. t.capacity - 1]
      /\ t.link \in [0 .. t.next - 1 -> P!NIL .. t.capacity - 1]
      /\ \A i \in P!Live(t) : /\ i \in 0 .. t.next - 1 /\ i \in Nat /\ i < t.next
                              /\ t.key[i] \in Stored
  BY P!HeldFacts, Assumptions
<1>2. /\ P!NIL = NIL /\ MaxCapacity \in Nat /\ \A i \in Nat : i # NIL
      /\ \A s \in Stored : s # Undef /\ s.zval \in Key /\ s.hash \in Hashes
  BY SameReads, CapacityAssumption, UndefAssumption DEF Stored, NIL
<1>3. \A k \in Stored : P!Slot(t, k) = Mask(k.hash, t.capacity)
  BY DEF P!Slot
<1>4. \A i \in 0 .. t.next - 1 : t.key[i] # Undef => i \in P!Live(t)
  BY DEF P!Live
<1>5. \A h \in Hashes : Mask(h, t.capacity) \in 0 .. t.capacity - 1
  BY <1>1, MaskAssumption
<1> QED BY <1>1, <1>2, <1>3, <1>4, <1>5

\* The chain of a hash, as DsHtable has it.
LEMMA ChainIs ==
  ASSUME NEW t, P!Held(t), NEW D, NEW h
  PROVE  Chain(t, D, h) = P!Colliding(t, Mask(h, t.capacity), t.next) \ D
<1>1. \A i \in P!Live(t) : i < t.next /\ P!Slot(t, t.key[i]) = Mask(t.key[i].hash, t.capacity)
  BY TableFacts
<1> QED BY <1>1, Zenon DEF Chain, P!Colliding

\* lookup leads to the last bucket of a chain.
LEMMA HeadOfChain ==
  ASSUME NEW t, P!Held(t), NEW D, P!Ordered(t, D), NEW h \in Hashes, NEW l,
         l = t.lookup[Mask(h, t.capacity)]
  PROVE  /\ l = NIL \/ l \in Chain(t, D, h)
         /\ \A i \in Chain(t, D, h) : l # NIL /\ i <= l
<1>1. P!IsLatest(l, Chain(t, D, h))
  <2>1. PICK s : s = Mask(h, t.capacity)
    OBVIOUS
  <2>2. s \in 0 .. t.capacity - 1
    BY <2>1, TableFacts
  <2>3. P!IsLatest(t.lookup[s], P!Colliding(t, s, t.next) \ D)
    BY <2>2 DEF P!Ordered, P!ChainedBut
  <2>4. Chain(t, D, h) = P!Colliding(t, s, t.next) \ D
    BY <2>1, ChainIs
  <2> QED BY <2>1, <2>3, <2>4
<1>2. \A i \in Chain(t, D, h) : i # NIL
  BY TableFacts DEF Chain
<1> QED BY <1>1, <1>2, SameReads DEF P!IsLatest

\* A link leads from a bucket to the one before it in its chain.
LEMMA NextInChain ==
  ASSUME NEW t, P!Held(t), NEW D, P!Ordered(t, D), NEW h, NEW i \in Chain(t, D, h), NEW l,
         l = t.link[i]
  PROVE  /\ l = NIL \/ l \in Chain(t, D, h)
         /\ \A j \in Chain(t, D, h) : j < i => l # NIL /\ j <= l
<1> DEFINE s == Mask(h, t.capacity)
           B == P!Colliding(t, P!Slot(t, t.key[i]), i) \ D
<1>1. /\ i \in P!Live(t) \ D /\ P!Slot(t, t.key[i]) = s /\ i \in Nat /\ i < t.next
      /\ t.next \in Nat
  BY TableFacts DEF Chain
<1>2. P!IsLatest(l, B)
  BY <1>1 DEF P!Ordered, P!ChainedBut
<1>3. B = {j \in Chain(t, D, h) : j < i}
  <2>1. \A j \in P!Live(t) :
          j \in Nat /\ P!Slot(t, t.key[j]) = Mask(t.key[j].hash, t.capacity)
    BY TableFacts
  <2> QED BY <1>1, <2>1, Zenon DEF Chain, P!Colliding
<1>4. \A j \in Chain(t, D, h) : j # NIL
  BY TableFacts DEF Chain
<1> QED BY <1>2, <1>3, <1>4, SameReads DEF P!IsLatest

\* A bucket that is not deleted is live.
LEMMA NotDeleted ==
  ASSUME P!Held(table), NEW i \in Nat
  PROVE  ~Deleted(i) <=> i \in P!Live(table)
BY TableFacts DEF Deleted

\* What a walk goes on to is an index, or the end.
LEMMA NextOfType ==
  ASSUME P!Held(table), NEW i \in Nat
  PROVE  NextOf(i) \in NIL .. MaxCapacity
<1>1. CASE Deleted(i)
  BY <1>1, TableFacts DEF NextOf, NIL
<1>2. CASE ~Deleted(i)
  <2>1. i \in 0 .. table.next - 1
    BY <1>2, NotDeleted, TableFacts
  <2>2. table.link[i] \in NIL .. table.capacity - 1
    BY <2>1, TableFacts
  <2> QED BY <1>2, <2>2, TableFacts DEF NextOf, NIL
<1> QED BY <1>1, <1>2

\* The hash of what is no array does not depend on what is written to objects.
LEMMA HashSteady ==
  ASSUME NEW k, k.type # "array", NEW p, NEW q
  PROVE  KeyHash(k, p) = KeyHash(k, q)
BY DEF KeyHash

-----------------------------------------------------------------------------
(* Calls begin, go on and return, while the table stays as it is.          *)

\* g is f but for the number of calls that its user code has made.
Alike(f, g) ==
  /\ g.op = f.op /\ g.key = f.key /\ g.hash = f.hash /\ g.phase = f.phase
  /\ g.cur = f.cur /\ g.prev = f.prev /\ g.matches = f.matches
  /\ g.thrown = f.thrown /\ g.edited = f.edited /\ g.freed = f.freed

LEMMA AlikeCalls ==
  ASSUME NEW t, NEW f, NEW g, Alike(f, g)
  PROVE  /\ Owning(f) <=> Owning(g)
         /\ CallOK(t, f) <=> CallOK(t, g)
         /\ \A D : WalkOK(t, f, D) <=> WalkOK(t, g, D)
<1>1. Owning(f) <=> Owning(g)
  BY DEF Alike, Owning
<1>2. CallOK(t, f) <=> CallOK(t, g)
  BY <1>1 DEF Alike, CallOK
<1>3. \A D : WalkOK(t, f, D) <=> WalkOK(t, g, D)
  BY DEF Alike, WalkOK
<1> QED BY <1>1, <1>2, <1>3

\* What is taken, element by element.
LEMMA TakenIs ==
  ASSUME NEW cs, NEW op, NEW i
  PROVE  i \in Taken(cs, op)
           <=> \E n \in DOMAIN cs : Owning(cs[n]) /\ cs[n].op = op /\ cs[n].cur = i
BY DEF Taken

LEMMA SameTaken ==
  ASSUME NEW cs, NEW u,
         \A n \in DOMAIN cs : Owning(cs[n]) =>
           n \in DOMAIN u /\ Owning(u[n]) /\ u[n].op = cs[n].op /\ u[n].cur = cs[n].cur,
         \A n \in DOMAIN u : Owning(u[n]) =>
           n \in DOMAIN cs /\ Owning(cs[n]) /\ u[n].op = cs[n].op /\ u[n].cur = cs[n].cur
  PROVE  \A op : Taken(u, op) = Taken(cs, op)
<1> SUFFICES ASSUME NEW op PROVE Taken(u, op) = Taken(cs, op)
  OBVIOUS
<1>1. ASSUME NEW i \in Taken(u, op) PROVE i \in Taken(cs, op)
  BY <1>1, TakenIs
<1>2. ASSUME NEW i \in Taken(cs, op) PROVE i \in Taken(u, op)
  BY <1>2, TakenIs
<1> QED BY ONLY <1>1, <1>2, Zenon

LEMMA AlikeGood ==
  ASSUME NEW t, NEW cs, NEW bl, NEW br, Good(t, cs, bl, br), NEW u \in Seq(Call),
         Len(u) = Len(cs), \A n \in 1 .. Len(cs) : Alike(cs[n], u[n])
  PROVE  Good(t, u, bl, br)
<1>1. cs \in Seq(Call) /\ DOMAIN cs = 1 .. Len(cs) /\ DOMAIN u = DOMAIN cs
  BY DEF Good, Stacked
<1>2. \A n \in DOMAIN cs : Alike(cs[n], u[n]) /\ (Owning(cs[n]) <=> Owning(u[n]))
  BY <1>1, AlikeCalls
<1>3. \A op : Taken(u, op) = Taken(cs, op)
  <2>1. \A n \in DOMAIN cs : u[n].op = cs[n].op /\ u[n].cur = cs[n].cur
    BY <1>2 DEF Alike
  <2> QED BY ONLY <1>1, <1>2, <2>1, SameTaken
<1>4. Stacked(u)
  <2>1. \A n \in 1 .. Len(u) - 1 : n \in 1 .. Len(cs) - 1 /\ n \in DOMAIN cs
    BY <1>1
  <2> QED BY <1>1, <1>2, <2>1 DEF Good, Stacked, Alike
<1>5. \A n \in DOMAIN u : CallOK(t, u[n])
  BY <1>1, <1>2, AlikeCalls DEF Good
<1>6. Handed(t, u)
  BY <1>1, <1>2 DEF Good, Handed, Alike
<1>7. br \/ Intact(t, u, bl)
  <2> SUFFICES ASSUME Intact(t, cs, bl) PROVE Intact(t, u, bl)
    BY DEF Good
  <2>1. ASSUME NEW n \in DOMAIN u, Steady(u, n) PROVE WalkOK(t, u[n], Taken(u, "remove"))
    <3>1. Steady(cs, n)
      BY <1>1, <1>2, <2>1 DEF Steady, Alike
    <3>2. WalkOK(t, cs[n], Taken(cs, "remove"))
      BY <1>1, <3>1 DEF Intact
    <3> QED BY <1>1, <1>2, <1>3, <3>2, AlikeCalls
  <2> QED BY <1>3, <2>1 DEF Intact
<1> QED BY <1>4, <1>5, <1>6, <1>7 DEF Good

\* One more call.
LEMMA PushGood ==
  ASSUME NEW t, NEW cs, NEW bl, NEW br, Good(t, cs, bl, br), Len(cs) < MaxDepth,
         Len(cs) > 0 => cs[Len(cs)].phase \in {"equals", "destructor"},
         NEW f \in Call, f.phase = "walk", CallOK(t, f),
         br \/ WalkOK(t, f, Taken(cs, "remove"))
  PROVE  Good(t, Append(cs, f), bl, br)
<1> DEFINE u == Append(cs, f)
           l == Len(cs) + 1
<1>1. /\ cs \in Seq(Call) /\ DOMAIN cs = 1 .. Len(cs) /\ Len(cs) \in Nat
      /\ MaxDepth \in Nat
  BY BoundAssumption DEF Good, Stacked
<1>2. /\ u \in Seq(Call) /\ Len(u) = l /\ DOMAIN u = 1 .. l /\ u[l] = f
      /\ \A n \in DOMAIN cs : u[n] = cs[n] /\ n \in DOMAIN u
      /\ \A n \in DOMAIN u : n = l \/ n \in DOMAIN cs
  BY <1>1, AppendProperties
<1> HIDE DEF u
<1>3. ~Owning(f) /\ f.phase # "destructor"
  BY DEF Owning
<1>4. \A op : Taken(u, op) = Taken(cs, op)
  BY <1>2, <1>3, SameTaken
<1>5. Stacked(u)
  <2>1. ASSUME NEW n \in 1 .. Len(u) - 1 PROVE u[n].phase \in {"equals", "destructor"}
    <3>0. n \in 1 .. Len(cs)
      BY ONLY <1>1, <1>2, <2>1
    <3>1. n \in DOMAIN cs /\ (n \in 1 .. Len(cs) - 1 \/ (n = Len(cs) /\ Len(cs) > 0))
      <4>1. PICK c \in Nat : c = Len(cs)
        BY <1>1
      <4>2. n \in 1 .. c - 1 \/ (n = c /\ c > 0)
        BY ONLY <3>0, <4>1
      <4> QED BY ONLY <1>1, <3>0, <4>1, <4>2
    <3> QED BY <1>2, <3>1 DEF Good, Stacked
  <2> QED BY <1>1, <1>2, <2>1 DEF Stacked
<1>6. \A n \in DOMAIN u : CallOK(t, u[n])
  BY <1>2 DEF Good
<1>7. Handed(t, u)
  BY <1>2, <1>3 DEF Good, Handed
<1>8. br \/ Intact(t, u, bl)
  <2> SUFFICES ASSUME ~br PROVE Intact(t, u, bl)
    OBVIOUS
  <2>1. ASSUME NEW n \in DOMAIN u, Steady(u, n) PROVE WalkOK(t, u[n], Taken(u, "remove"))
    <3>1. CASE n = l
      BY <1>2, <1>4, <3>1
    <3>2. CASE n \in DOMAIN cs
      <4>1. Steady(cs, n)
        BY <1>2, <2>1, <3>2 DEF Steady
      <4> QED BY <1>2, <1>4, <3>2, <4>1 DEF Good, Intact
    <3> QED BY <1>2, <3>1, <3>2
  <2> QED BY <1>4, <2>1 DEF Good, Intact
<1> QED BY <1>5, <1>6, <1>7, <1>8 DEF Good, u

\* The calls but for the last.
Outside(cs) == SubSeq(cs, 1, Len(cs) - 1)

LEMMA OutsideIs ==
  ASSUME NEW cs \in Seq(Call), Len(cs) > 0
  PROVE  /\ Outside(cs) \in Seq(Call) /\ Len(Outside(cs)) = Len(cs) - 1 /\ Len(cs) \in Nat
         /\ DOMAIN Outside(cs) = 1 .. Len(cs) - 1 /\ DOMAIN cs = 1 .. Len(cs)
         /\ \A n \in DOMAIN Outside(cs) :
              /\ Outside(cs)[n] = cs[n]
              /\ n \in DOMAIN cs /\ n # Len(cs) /\ n \in Nat
         /\ \A n \in DOMAIN cs : n = Len(cs) \/ n \in DOMAIN Outside(cs)
         /\ Len(cs) \in DOMAIN cs
<1> DEFINE u == SubSeq(cs, 1, Len(cs) - 1)
<1>1. Len(cs) \in Nat /\ DOMAIN cs = 1 .. Len(cs) /\ Len(cs) \in 1 .. Len(cs)
  OBVIOUS
<1>2. u \in Seq(Call) /\ Len(u) = Len(cs) - 1
  BY <1>1, SubSeqProperties
<1>3. DOMAIN u = 1 .. Len(cs) - 1
  BY <1>1, <1>2
<1>4. \A n \in 1 .. Len(cs) - 1 : u[n] = cs[n]
  BY <1>1
<1>5. Outside(cs) = u
  BY DEF Outside
<1> HIDE DEF u
<1>6. PICK c \in Nat : c = Len(cs)
  BY <1>1
<1>7. /\ \A n \in 1 .. c - 1 : n \in 1 .. c /\ n # c /\ n \in Nat
      /\ \A n \in 1 .. c : n = c \/ n \in 1 .. c - 1
  OBVIOUS
<1> QED BY ONLY <1>1, <1>2, <1>3, <1>4, <1>5, <1>6, <1>7

\* The last call with other local variables.
LEMMA TopIs ==
  ASSUME NEW cs \in Seq(Call), Len(cs) > 0, NEW g \in Call, NEW u,
         u = [cs EXCEPT ![Len(cs)] = g]
  PROVE  /\ u \in Seq(Call) /\ Len(u) = Len(cs) /\ DOMAIN u = DOMAIN cs
         /\ Len(cs) \in DOMAIN cs /\ u[Len(cs)] = g /\ Len(cs) \in Nat
         /\ DOMAIN cs = 1 .. Len(cs)
         /\ \A n \in DOMAIN cs : n # Len(cs) => u[n] = cs[n]
<1>1. Len(cs) \in Nat /\ DOMAIN cs = 1 .. Len(cs) /\ Len(cs) \in DOMAIN cs
  OBVIOUS
<1>2. u \in Seq(Call) /\ Len(u) = Len(cs)
  BY <1>1, ExceptSeq
<1> QED BY <1>1, <1>2

\* The last call returns, and leaves no bucket behind.
LEMMA PopGood ==
  ASSUME NEW t, NEW cs, NEW bl, NEW br, Good(t, cs, bl, br), Len(cs) > 0,
         cs[Len(cs)].phase # "destructor"
  PROVE  Good(t, Outside(cs), bl, br)
<1>1. cs \in Seq(Call) /\ Len(cs) > 0
  BY DEF Good, Stacked
<1>2. PICK u : u = Outside(cs)
  OBVIOUS
<1>3. /\ u \in Seq(Call) /\ Len(u) = Len(cs) - 1 /\ Len(cs) \in Nat
      /\ DOMAIN u = 1 .. Len(cs) - 1
      /\ \A n \in DOMAIN u : u[n] = cs[n] /\ n \in DOMAIN cs /\ n # Len(cs) /\ n \in Nat
      /\ \A n \in DOMAIN cs : n = Len(cs) \/ n \in DOMAIN u
  BY <1>1, <1>2, OutsideIs
<1>4. ~Owning(cs[Len(cs)])
  BY DEF Owning
<1>5. \A op : Taken(u, op) = Taken(cs, op)
  BY <1>3, <1>4, SameTaken
<1>6. Stacked(u)
  <2>1. \A n \in 1 .. Len(u) - 1 : n \in DOMAIN u
    BY <1>3
  <2> QED BY <1>3, <2>1, BoundAssumption DEF Good, Stacked
<1>7. \A n \in DOMAIN u : CallOK(t, u[n])
  BY <1>3 DEF Good
<1>8. Handed(t, u)
  BY <1>3, <1>4 DEF Good, Handed
<1>9. br \/ Intact(t, u, bl)
  <2> SUFFICES ASSUME ~br PROVE Intact(t, u, bl)
    OBVIOUS
  <2>1. ASSUME NEW n \in DOMAIN u, Steady(u, n) PROVE WalkOK(t, u[n], Taken(u, "remove"))
    <3>1. Steady(cs, n)
      BY <1>3, <2>1 DEF Steady
    <3> QED BY <1>3, <1>5, <3>1 DEF Good, Intact
  <2> QED BY <1>5, <2>1 DEF Good, Intact
<1> QED BY <1>2, <1>6, <1>7, <1>8, <1>9 DEF Good

\* The last call goes on.
LEMMA StepGood ==
  ASSUME NEW t, NEW cs, NEW bl, NEW br, Good(t, cs, bl, br), Len(cs) > 0,
         NEW f, f = cs[Len(cs)], f.phase # "destructor",
         NEW g \in Call, g.phase # "destructor", g.edited = f.edited, CallOK(t, g),
         \/ br \/ f.edited
         \/ WalkOK(t, f, Taken(cs, "remove")) => WalkOK(t, g, Taken(cs, "remove"))
  PROVE  Good(t, [cs EXCEPT ![Len(cs)] = g], bl, br)
<1>1. cs \in Seq(Call)
  BY DEF Good, Stacked
<1>2. PICK u : u = [cs EXCEPT ![Len(cs)] = g]
  OBVIOUS
<1>3. /\ u \in Seq(Call) /\ Len(u) = Len(cs) /\ DOMAIN u = DOMAIN cs
      /\ Len(cs) \in DOMAIN cs /\ u[Len(cs)] = g /\ Len(cs) \in Nat
      /\ DOMAIN cs = 1 .. Len(cs)
      /\ \A n \in DOMAIN cs : n # Len(cs) => u[n] = cs[n]
  BY <1>1, <1>2, TopIs
<1>4. ~Owning(f) /\ ~Owning(g)
  BY DEF Owning
<1>5. \A op : Taken(u, op) = Taken(cs, op)
  BY <1>3, <1>4, SameTaken
<1>6. Stacked(u)
  <2>1. \A n \in 1 .. Len(u) - 1 : n \in DOMAIN cs /\ n # Len(cs) /\ n \in 1 .. Len(cs) - 1
    BY <1>3
  <2> QED BY <1>3, <2>1 DEF Good, Stacked
<1>7. \A n \in DOMAIN u : CallOK(t, u[n])
  BY <1>3 DEF Good
<1>8. Handed(t, u)
  <2>1. \A n \in DOMAIN cs : /\ Owning(u[n]) => Owning(cs[n]) /\ cs[n] = u[n]
                             /\ cs[n].phase = "destructor" => cs[n] = u[n]
    BY <1>3, <1>4
  <2> QED BY <1>3, <2>1 DEF Good, Handed
<1>9. br \/ Intact(t, u, bl)
  <2> SUFFICES ASSUME ~br PROVE Intact(t, u, bl)
    OBVIOUS
  <2>1. ASSUME NEW n \in DOMAIN u, Steady(u, n) PROVE WalkOK(t, u[n], Taken(u, "remove"))
    <3>1. Steady(cs, n)
      <4>1. \A m \in DOMAIN cs : cs[m].phase = "destructor" => cs[m] = u[m]
        BY <1>3
      <4>2. ~cs[n].edited /\ cs[n].phase # "destructor"
        BY <1>3, <2>1 DEF Steady
      <4> QED BY <1>3, <2>1, <4>1, <4>2 DEF Steady
    <3>2. WalkOK(t, cs[n], Taken(cs, "remove"))
      BY <1>3, <3>1 DEF Good, Intact
    <3>3. CASE n = Len(cs)
      BY <1>3, <1>5, <3>1, <3>2, <3>3 DEF Steady
    <3> QED BY <1>3, <1>5, <3>2, <3>3
  <2> QED BY <1>5, <2>1 DEF Good, Intact
<1> QED BY <1>2, <1>6, <1>7, <1>8, <1>9 DEF Good

-----------------------------------------------------------------------------
(* Edits of the table, and what the calls under way make of them.          *)

LEMMA EditedIs ==
  ASSUME NEW cs \in Seq(Call), NEW m \in BOOLEAN, NEW u, u = Edited(cs, m)
  PROVE  /\ u \in Seq(Call) /\ Len(u) = Len(cs) /\ DOMAIN u = DOMAIN cs
         /\ DOMAIN cs = 1 .. Len(cs) /\ Len(cs) \in Nat
         /\ \A n \in DOMAIN cs :
              /\ u[n].op = cs[n].op /\ u[n].key = cs[n].key /\ u[n].hash = cs[n].hash
              /\ u[n].phase = cs[n].phase /\ u[n].cur = cs[n].cur
              /\ u[n].thrown = cs[n].thrown /\ u[n].edited
              /\ u[n].freed <=> cs[n].freed \/ m
<1>1. DOMAIN cs = 1 .. Len(cs) /\ Len(cs) \in Nat /\ \A n \in DOMAIN cs : cs[n] \in Call
  OBVIOUS
<1>2. ASSUME NEW n \in DOMAIN cs
      PROVE  /\ u[n] \in Call
             /\ u[n].op = cs[n].op /\ u[n].key = cs[n].key /\ u[n].hash = cs[n].hash
             /\ u[n].phase = cs[n].phase /\ u[n].cur = cs[n].cur
             /\ u[n].thrown = cs[n].thrown /\ u[n].edited
             /\ u[n].freed <=> cs[n].freed \/ m
  <2>1. PICK f \in Call : f = cs[n]
    BY <1>1
  <2>2. u[n] = [f EXCEPT !.edited = TRUE, !.freed = f.freed \/ m]
    BY <2>1 DEF Edited
  <2>3. PICK b \in BOOLEAN : b = (f.freed \/ m)
    OBVIOUS
  <2>4. u[n] = [f EXCEPT !.edited = TRUE, !.freed = b]
    BY <2>2, <2>3
  <2>5. u[n] \in Call /\ u[n].edited /\ (u[n].freed <=> b)
    BY <2>4 DEF Call
  <2>6. /\ u[n].op = f.op /\ u[n].key = f.key /\ u[n].hash = f.hash
        /\ u[n].phase = f.phase /\ u[n].cur = f.cur /\ u[n].thrown = f.thrown
    BY <2>4 DEF Call
  <2> QED BY <2>1, <2>3, <2>5, <2>6
<1>3. u = [n \in 1 .. Len(cs) |-> u[n]]
  BY <1>1 DEF Edited
<1>4. u \in Seq(Call) /\ Len(u) = Len(cs) /\ DOMAIN u = 1 .. Len(cs)
  <2>1. \A n \in 1 .. Len(cs) : u[n] \in Call
    BY <1>1, <1>2
  <2> HIDE <1>2
  <2> QED BY <1>1, <1>3, <2>1
<1> QED BY <1>1, <1>2, <1>4

\* A new or a deleted bucket, or a cleared table: those that walk have lost their
\* chain, those whose destructor runs have their bucket if it was not moved.
LEMMA EditedGood ==
  ASSUME NEW t, NEW cs, NEW bl, NEW br, NEW m \in BOOLEAN, NEW u,
         Stacked(cs), \A n \in DOMAIN cs : CallOK(t, cs[n]),
         \A n, k \in DOMAIN cs :
           Owning(cs[n]) /\ Owning(cs[k]) /\ cs[n].cur = cs[k].cur => n = k,
         P!Held(u),
         ~m => \A n \in DOMAIN cs :
           Owning(cs[n]) => cs[n].cur \in P!Live(u) /\ u.value[cs[n].cur] = Gone,
         \A i \in P!Live(u) : u.value[i] = Gone =>
           \E n \in DOMAIN cs :
             cs[n].phase = "destructor" /\ (m \/ cs[n].freed \/ cs[n].cur = i),
         HashesKept(u, bl),
         \/ br
         \/ /\ P!Ordered(u, IF m THEN {} ELSE Taken(cs, "remove"))
            /\ Apart(u, IF m THEN {} ELSE Taken(cs, "put"), bl)
  PROVE  Good(u, Edited(cs, m), bl, br)
<1>1. cs \in Seq(Call) /\ Len(cs) <= MaxDepth
  BY DEF Stacked
<1>2. PICK v : v = Edited(cs, m)
  OBVIOUS
<1>3. /\ v \in Seq(Call) /\ Len(v) = Len(cs) /\ DOMAIN v = DOMAIN cs
      /\ DOMAIN cs = 1 .. Len(cs) /\ Len(cs) \in Nat
      /\ \A n \in DOMAIN cs :
           /\ v[n].op = cs[n].op /\ v[n].key = cs[n].key /\ v[n].hash = cs[n].hash
           /\ v[n].phase = cs[n].phase /\ v[n].cur = cs[n].cur
           /\ v[n].thrown = cs[n].thrown /\ v[n].edited
           /\ v[n].freed <=> cs[n].freed \/ m
  BY <1>1, <1>2, EditedIs
<1>4. \A n \in DOMAIN cs : Owning(v[n]) <=> Owning(cs[n]) /\ ~m
  BY <1>3 DEF Owning
<1>5. \A op : Taken(v, op) = IF m THEN {} ELSE Taken(cs, op)
  <2>1. CASE m
    <3>1. \A op : Taken(v, op) = {}
      BY <1>3, <1>4, <2>1 DEF Taken
    <3> QED BY <2>1, <3>1
  <2>2. CASE ~m
    <3>1. \A op : Taken(v, op) = Taken(cs, op)
      BY <1>3, <1>4, <2>2, SameTaken
    <3> QED BY <2>2, <3>1
  <2> QED BY <2>1, <2>2
<1>6. Stacked(v)
  <2>1. \A n \in 1 .. Len(cs) - 1 : n \in DOMAIN cs
    BY <1>3
  <2> QED BY <1>1, <1>3, <2>1 DEF Stacked
<1>7. ASSUME NEW n \in DOMAIN v PROVE CallOK(u, v[n])
  BY <1>3, <1>4, <1>7 DEF CallOK
<1>8. Handed(u, v)
  BY <1>3, <1>4 DEF Handed
<1>9. br \/ Intact(u, v, bl)
  BY <1>3, <1>5 DEF Intact, Steady
<1> QED BY <1>2, <1>6, <1>7, <1>8, <1>9 DEF Good

\* Two tables that a walk does not tell apart.
LEMMA WalkSame ==
  ASSUME NEW t, NEW u, P!Live(u) = P!Live(t), u.key = t.key, u.link = t.link,
         u.lookup = t.lookup, u.capacity = t.capacity
  PROVE  \A f, D : WalkOK(u, f, D) <=> WalkOK(t, f, D)
<1>1. \A D, h : Chain(u, D, h) = Chain(t, D, h)
  BY DEF Chain
<1> QED BY <1>1 DEF WalkOK

\* Of keys alone, and of buckets that are there.
LEMMA HashesSame ==
  ASSUME NEW t, NEW u, P!Live(u) = P!Live(t), u.key = t.key, NEW bl, HashesKept(t, bl)
  PROVE  HashesKept(u, bl)
BY DEF HashesKept

\* The bucket of the last call, its value dying.
DiesAt(u, t, c) ==
  /\ P!Held(u) /\ P!Live(u) = P!Live(t) /\ u.key = t.key
  /\ u.value[c] = Gone
  /\ \A j \in P!Live(t) : j # c => u.value[j] = t.value[j]

\* The last call destroys the value of its bucket.
Destroyer(cs, f) == [cs EXCEPT ![Len(cs)] = [f EXCEPT !.phase = "destructor"]]

\* The chains of u are in order, but for the bucket that a removal has unlinked,
\* unless they were broken before or c says that they are now.
OrderedUnless(br, c, u, cs, f) ==
  /\ br => c
  /\ c \/ P!Ordered(u, IF f.op = "remove" THEN Taken(cs, "remove") \union {f.cur}
                                          ELSE Taken(cs, "remove"))

\* A put leaves the links and the lookup as they are.
SameChains(u, t) == u.link = t.link /\ u.lookup = t.lookup /\ u.capacity = t.capacity

\* A put or a removal that has found its bucket destroys the value.
LEMMA DestroyGood ==
  ASSUME NEW t, NEW cs, NEW bl, NEW br, Good(t, cs, bl, br), Len(cs) > 0,
         NEW f, f = cs[Len(cs)], f.phase \in {"equals", "found"},
         f.op \in {"put", "remove"}, ~f.freed,
         NEW at, at = f.cur, at \in P!Live(t), t.value[at] # Gone,
         NEW u, DiesAt(u, t, at), NEW c,
         f.op = "put" => SameChains(u, t), OrderedUnless(br, c, u, cs, f)
  PROVE  Good(u, Destroyer(cs, f), bl, c)
<1>1. cs \in Seq(Call) /\ Len(cs) > 0
  BY DEF Good, Stacked
<1>2. f \in Call
  BY <1>1
<1>3. PICK g : g = [f EXCEPT !.phase = "destructor"]
  OBVIOUS
<1>4. /\ g \in Call /\ g.phase = "destructor" /\ g.op = f.op /\ g.key = f.key
      /\ g.hash = f.hash /\ g.cur = f.cur /\ g.thrown = f.thrown
      /\ g.edited = f.edited /\ g.freed = f.freed
  BY <1>2, <1>3 DEF Call
<1>5. PICK v : v = [cs EXCEPT ![Len(cs)] = g]
  OBVIOUS
<1>6. /\ v \in Seq(Call) /\ Len(v) = Len(cs) /\ DOMAIN v = DOMAIN cs
      /\ Len(cs) \in DOMAIN cs /\ v[Len(cs)] = g /\ Len(cs) \in Nat
      /\ DOMAIN cs = 1 .. Len(cs)
      /\ \A n \in DOMAIN cs : n # Len(cs) => v[n] = cs[n]
  BY <1>1, <1>4, <1>5, TopIs
<1>7. Owning(g) /\ ~Owning(f)
  BY <1>4 DEF Owning
<1>8. \A n \in DOMAIN cs : CallOK(t, cs[n])
  BY DEF Good
<1>9. \A n \in DOMAIN cs : Owning(cs[n]) => cs[n].cur # f.cur /\ v[n] = cs[n]
  BY <1>6, <1>7, <1>8 DEF CallOK
<1>10. Stacked(v)
  <2>0. PICK l \in Nat : l = Len(cs) /\ l = Len(v) /\ DOMAIN cs = 1 .. l
    BY <1>6
  <2>1. \A n \in 1 .. Len(v) - 1 : n \in DOMAIN cs /\ n # Len(cs) /\ n \in 1 .. Len(cs) - 1
    BY ONLY <2>0
  <2> QED BY <1>6, <2>1 DEF Good, Stacked
<1>11. ASSUME NEW n \in DOMAIN v PROVE CallOK(u, v[n])
  <2>1. CASE n = Len(cs)
    <3>1. CallOK(t, f)
      BY <1>6, <1>8
    <3> QED BY <1>4, <1>6, <2>1, <3>1 DEF CallOK, DiesAt, Owning
  <2>2. CASE n # Len(cs)
    <3>1. v[n] = cs[n] /\ CallOK(t, cs[n])
      BY <1>6, <1>8, <2>2
    <3>2. Owning(cs[n]) => cs[n].cur \in P!Live(u) /\ u.value[cs[n].cur] = Gone
      BY <1>6, <1>9, <3>1 DEF CallOK, DiesAt
    <3> QED BY <3>1, <3>2 DEF CallOK, DiesAt
  <2> QED BY <2>1, <2>2
<1>12. Handed(u, v)
  <2>1. ASSUME NEW m \in DOMAIN v, NEW n \in DOMAIN v,
               Owning(v[m]) /\ Owning(v[n]) /\ v[m].cur = v[n].cur
        PROVE  m = n
    <3>1. \A k \in DOMAIN cs : k # Len(cs) /\ Owning(v[k]) => Owning(cs[k]) /\ v[k].cur # g.cur
      BY <1>4, <1>6, <1>9
    <3>2. CASE m = Len(cs) \/ n = Len(cs)
      BY <1>6, <2>1, <3>1, <3>2
    <3>3. CASE m # Len(cs) /\ n # Len(cs)
      BY <1>6, <2>1, <3>1, <3>3 DEF Good, Handed
    <3> QED BY <3>2, <3>3
  <2>2. ASSUME NEW i \in P!Live(u), u.value[i] = Gone
        PROVE  \E n \in DOMAIN v : v[n].phase = "destructor" /\ (v[n].freed \/ v[n].cur = i)
    <3>1. CASE i = f.cur
      BY <1>4, <1>6, <3>1
    <3>2. CASE i # f.cur
      <4>1. i \in P!Live(t) /\ t.value[i] = Gone
        BY <2>2, <3>2 DEF DiesAt
      <4>2. PICK n \in DOMAIN cs : cs[n].phase = "destructor" /\ (cs[n].freed \/ cs[n].cur = i)
        BY <4>1 DEF Good, Handed
      <4>3. v[n] = cs[n]
        BY <1>6, <4>2
      <4> QED BY <1>6, <4>2, <4>3
    <3> QED BY <3>1, <3>2
  <2> QED BY <2>1, <2>2 DEF Handed
<1>13. HashesKept(u, bl)
  BY HashesSame DEF Good, DiesAt
<1>14. Taken(v, f.op) = Taken(cs, f.op) \union {f.cur}
       /\ \A op : op # f.op => Taken(v, op) = Taken(cs, op)
  <2>1. \A op, i : i \in Taken(v, op) <=> i \in Taken(cs, op) \/ (op = f.op /\ i = f.cur)
    <3> SUFFICES ASSUME NEW op, NEW i
                 PROVE  i \in Taken(v, op) <=> i \in Taken(cs, op) \/ (op = f.op /\ i = f.cur)
      OBVIOUS
    <3>1. ASSUME i \in Taken(v, op) PROVE i \in Taken(cs, op) \/ (op = f.op /\ i = f.cur)
      <4>1. PICK n \in DOMAIN v : Owning(v[n]) /\ v[n].op = op /\ v[n].cur = i
        BY <3>1, TakenIs
      <4>2. CASE n = Len(cs)
        BY <1>4, <1>6, <4>1, <4>2
      <4>3. CASE n # Len(cs)
        BY <1>6, <4>1, <4>3, TakenIs
      <4> QED BY <4>2, <4>3
    <3>2. ASSUME i \in Taken(cs, op) PROVE i \in Taken(v, op)
      <4>1. PICK n \in DOMAIN cs : Owning(cs[n]) /\ cs[n].op = op /\ cs[n].cur = i
        BY <3>2, TakenIs
      <4> QED BY <1>6, <1>9, <4>1, TakenIs
    <3>3. ASSUME op = f.op, i = f.cur PROVE i \in Taken(v, op)
      BY <1>4, <1>6, <1>7, <3>3, TakenIs
    <3> QED BY <3>1, <3>2, <3>3
  <2>2. Taken(v, f.op) = Taken(cs, f.op) \union {f.cur}
    <3>1. \A i : i \in Taken(v, f.op) <=> i \in Taken(cs, f.op) \union {f.cur}
      BY ONLY <2>1
    <3> QED BY ONLY <3>1
  <2>3. ASSUME NEW op, op # f.op PROVE Taken(v, op) = Taken(cs, op)
    <3>1. \A i : i \in Taken(v, op) <=> i \in Taken(cs, op)
      BY ONLY <2>1, <2>3
    <3> QED BY ONLY <3>1, Zenon
  <2> QED BY <2>2, <2>3
<1>15. c \/ Intact(u, v, bl)
  <2> SUFFICES ASSUME ~c PROVE Intact(u, v, bl)
    OBVIOUS
  <2>1. Intact(t, cs, bl)
    BY DEF Good, OrderedUnless
  <2>2. P!Ordered(u, Taken(v, "remove"))
    BY <1>14 DEF OrderedUnless
  <2>3. ASSUME NEW n \in DOMAIN v, Steady(v, n) PROVE WalkOK(u, v[n], Taken(v, "remove"))
    <3>1. n # Len(cs)
      BY <1>4, <1>6, <2>3 DEF Steady
    <3>2. v[n] = cs[n] /\ n < Len(cs)
      BY <1>6, <3>1
    <3>3. f.op = "put"
      BY <1>4, <1>6, <2>3, <3>2 DEF Steady
    <3>4. Steady(cs, n)
      <4>1. \A k \in DOMAIN cs : k > n => cs[k].op # "remove" \/ cs[k].phase # "destructor"
        BY <1>6, <2>3, <3>3 DEF Steady
      <4> QED BY <2>3, <3>2, <4>1 DEF Steady
    <3>5. WalkOK(t, cs[n], Taken(cs, "remove"))
      BY <1>6, <2>1, <3>4 DEF Intact
    <3>6. Taken(v, "remove") = Taken(cs, "remove")
      BY <1>14, <3>3
    <3> QED BY <3>2, <3>3, <3>5, <3>6, WalkSame DEF DiesAt, SameChains
  <2>4. Kept(u, Taken(v, "put")) \subseteq Kept(t, Taken(cs, "put"))
    <3>1. Taken(v, "put") \subseteq Taken(cs, "put") \union {f.cur}
      BY <1>14
    <3>2. {i \in P!Live(u) : u.value[i] # Gone} \subseteq {i \in P!Live(t) : t.value[i] # Gone}
      BY DEF DiesAt
    <3>3. f.cur \in {i \in P!Live(t) : t.value[i] # Gone}
      OBVIOUS
    <3> QED BY ONLY <3>1, <3>2, <3>3 DEF Kept
  <2>5. Apart(u, Taken(v, "put"), bl)
    BY <2>1, <2>4 DEF Intact, Apart, DiesAt
  <2> QED BY <2>2, <2>3, <2>5 DEF Intact
<1> QED BY <1>3, <1>5, <1>10, <1>11, <1>12, <1>13, <1>15 DEF Good, DiesAt, Destroyer

\* A put stores its value in the bucket, whose old one is destroyed.
LEMMA StoreGood ==
  ASSUME NEW t, NEW cs, NEW bl, NEW br, Good(t, cs, bl, br), Len(cs) > 0,
         NEW f, f = cs[Len(cs)], Owning(f), f.op = "put",
         NEW u, P!Held(u), P!Live(u) = P!Live(t), u.key = t.key, u.link = t.link,
         u.lookup = t.lookup, u.capacity = t.capacity,
         \A D : P!Ordered(u, D) <=> P!Ordered(t, D),
         u.value[f.cur] = "kept", \A j \in P!Live(t) : j # f.cur => u.value[j] = t.value[j]
  PROVE  Good(u, Outside(cs), bl, br)
<1>1. cs \in Seq(Call) /\ Len(cs) > 0
  BY DEF Good, Stacked
<1>2. PICK v : v = Outside(cs)
  OBVIOUS
<1>3. /\ v \in Seq(Call) /\ Len(v) = Len(cs) - 1 /\ Len(cs) \in Nat
      /\ DOMAIN v = 1 .. Len(cs) - 1 /\ DOMAIN cs = 1 .. Len(cs)
      /\ \A n \in DOMAIN v : v[n] = cs[n] /\ n \in DOMAIN cs /\ n # Len(cs) /\ n \in Nat
      /\ \A n \in DOMAIN cs : n = Len(cs) \/ n \in DOMAIN v
      /\ Len(cs) \in DOMAIN cs
  BY <1>1, <1>2, OutsideIs
<1>4. \A n \in DOMAIN cs : CallOK(t, cs[n])
  BY DEF Good
<1>5. \A n \in DOMAIN v : Owning(v[n]) => v[n].cur # f.cur
  BY <1>3 DEF Good, Handed
<1>6. f.cur \in P!Live(t) /\ f.phase = "destructor" /\ ~f.freed
  BY <1>3, <1>4 DEF CallOK, Owning
<1>7. Stacked(v)
  <2>1. \A n \in 1 .. Len(v) - 1 : n \in DOMAIN v
    BY <1>3
  <2>2. \A n \in DOMAIN v : cs[n].phase \in {"equals", "destructor"}
    BY <1>3 DEF Good, Stacked
  <2>3. Len(v) <= MaxDepth
    BY <1>3, BoundAssumption DEF Good, Stacked
  <2> QED BY <1>3, <2>1, <2>2, <2>3 DEF Stacked
<1>8. ASSUME NEW n \in DOMAIN v PROVE CallOK(u, v[n])
  <2>1. v[n] = cs[n] /\ CallOK(t, cs[n])
    BY <1>3, <1>4
  <2>2. Owning(cs[n]) => cs[n].cur \in P!Live(u) /\ u.value[cs[n].cur] = Gone
    BY <1>5, <2>1 DEF CallOK
  <2> QED BY <2>1, <2>2 DEF CallOK
<1>9. Handed(u, v)
  <2>1. ASSUME NEW i \in P!Live(u), u.value[i] = Gone
        PROVE  \E n \in DOMAIN v : v[n].phase = "destructor" /\ (v[n].freed \/ v[n].cur = i)
    <3>1. i # f.cur /\ t.value[i] = Gone
      BY <2>1 DEF Gone
    <3>2. PICK n \in DOMAIN cs : cs[n].phase = "destructor" /\ (cs[n].freed \/ cs[n].cur = i)
      BY <3>1 DEF Good, Handed
    <3>3. n # Len(cs)
      BY <1>6, <3>1, <3>2
    <3> QED BY <1>3, <3>2, <3>3
  <2>2. \A m, n \in DOMAIN v : Owning(v[m]) /\ Owning(v[n]) /\ v[m].cur = v[n].cur => m = n
    BY <1>3 DEF Good, Handed
  <2> QED BY <2>1, <2>2 DEF Handed
<1>10. HashesKept(u, bl)
  BY HashesSame DEF Good
<1>11. br \/ Intact(u, v, bl)
  <2> SUFFICES ASSUME ~br PROVE Intact(u, v, bl)
    OBVIOUS
  <2>1. Intact(t, cs, bl)
    BY DEF Good
  <2>2. Taken(v, "remove") = Taken(cs, "remove")
    <3>1. ASSUME NEW i \in Taken(v, "remove") PROVE i \in Taken(cs, "remove")
      BY <1>3, <3>1, TakenIs
    <3>2. ASSUME NEW i \in Taken(cs, "remove") PROVE i \in Taken(v, "remove")
      BY <1>3, <3>2, TakenIs
    <3> QED BY ONLY <3>1, <3>2, Zenon
  <2>3. ASSUME NEW n \in DOMAIN v, Steady(v, n) PROVE WalkOK(u, v[n], Taken(v, "remove"))
    <3>1. Steady(cs, n)
      BY <1>3, <2>3 DEF Steady
    <3>2. WalkOK(t, cs[n], Taken(cs, "remove")) /\ v[n] = cs[n]
      BY <1>3, <2>1, <3>1 DEF Intact
    <3> QED BY <2>2, <3>2, WalkSame
  <2>4. Kept(u, Taken(v, "put")) \subseteq Kept(t, Taken(cs, "put"))
    <3>1. ASSUME NEW i \in Taken(v, "put") PROVE i \in Taken(cs, "put")
      BY <1>3, <3>1, TakenIs
    <3>2. ASSUME NEW i \in P!Live(u), u.value[i] # Gone
          PROVE  (i \in P!Live(t) /\ t.value[i] # Gone) \/ i \in Taken(cs, "put")
      <4>1. f.cur \in Taken(cs, "put")
        BY <1>3, TakenIs
      <4> QED BY <3>2, <4>1
    <3> QED BY ONLY <3>1, <3>2 DEF Kept
  <2>5. Apart(u, Taken(v, "put"), bl)
    BY <2>1, <2>4 DEF Intact, Apart
  <2>6. P!Ordered(u, Taken(v, "remove"))
    BY <2>1, <2>2 DEF Intact
  <2> QED BY <2>3, <2>5, <2>6 DEF Intact
<1> QED BY <1>2, <1>7, <1>8, <1>9, <1>10, <1>11 DEF Good

-----------------------------------------------------------------------------
(* The steps.                                                              *)

\* The call that moves.
LEMMA TopFacts ==
  ASSUME IInv, calls # << >>
  PROVE  /\ calls \in Seq(Call) /\ Len(calls) > 0 /\ Len(calls) \in Nat
         /\ DOMAIN calls = 1 .. Len(calls) /\ Len(calls) \in DOMAIN calls
         /\ Top = calls[Len(calls)] /\ Top \in Call /\ CallOK(table, Top)
         /\ P!Held(table) /\ Good(table, calls, blurred, broken)
         /\ Outer = Outside(calls)
         /\ Top.edited \/ Top.phase = "destructor" => Disturbed(calls)
         /\ Top.freed => Disturbed(calls)
<1>1. calls \in Seq(Call) /\ Len(calls) > 0 /\ Len(calls) \in Nat
  BY EmptySeq DEF IInv, Good, Stacked
<1>2. /\ DOMAIN calls = 1 .. Len(calls) /\ Len(calls) \in DOMAIN calls
      /\ Top = calls[Len(calls)] /\ Top \in Call
  BY <1>1 DEF Top
<1>3. CallOK(table, Top)
  BY <1>2 DEF IInv, Good
<1>4. Top.edited \/ Top.phase = "destructor" => Disturbed(calls)
  BY <1>2 DEF Disturbed
<1>5. Top.freed => Disturbed(calls)
  BY <1>3, <1>4 DEF CallOK
<1> QED BY <1>1, <1>2, <1>3, <1>4, <1>5 DEF IInv, Good, Outer, Outside

LEMMA FailsHolds ==
  ASSUME IInv, NEW kind \in Faults, Fails(kind), Disturbed(calls)
  PROVE  IInv'
BY DEF IInv, Fails, Faults, Disturbed

LEMMA FailsOrHolds ==
  ASSUME IInv, NEW kind \in Faults, FailsOr(kind), Disturbed(calls)
  PROVE  IInv'
BY FailsHolds DEF FailsOr, Faults

\* A step without a fault.
LEMMA GoodHolds ==
  ASSUME IInv, fault = "none", fault' = fault, props' = props, blurred' \subseteq Key,
         broken' \in BOOLEAN, Good(table', calls', blurred', broken')
  PROVE  IInv'
BY DEF IInv

\* The calls with one more that the user code has made.
LEMMA CalledGood ==
  ASSUME IInv, MayCall
  PROVE  /\ Good(table, Called, blurred, broken) /\ Len(Called) < MaxDepth
         /\ Len(Called) > 0 => Called[Len(Called)].phase \in {"equals", "destructor"}
<1>1. CASE calls = << >>
  BY <1>1, BoundAssumption DEF IInv, Called
<1>2. CASE calls # << >>
  <2>1. PICK f \in Call : f = Top
    BY <1>2, TopFacts
  <2>2. f.made \in 0 .. MaxMade /\ f.made < MaxMade /\ f.phase \in {"equals", "destructor"}
    BY <1>2, <2>1 DEF MayCall, UserCode, Call
  <2>3. PICK g : g = [f EXCEPT !.made = f.made + 1]
    OBVIOUS
  <2>4. f.made + 1 \in 0 .. MaxMade
    BY <2>2, BoundAssumption
  <2>5. g \in Call /\ Alike(f, g) /\ g.phase = f.phase
    BY <2>3, <2>4 DEF Call, Alike
  <2>6. Called = [calls EXCEPT ![Len(calls)] = g]
    BY <1>2, <2>1, <2>3 DEF Called, SetTop
  <2>7. calls \in Seq(Call) /\ Len(calls) > 0 /\ f = calls[Len(calls)]
    BY <1>2, <2>1, TopFacts
  <2>8. PICK u : u = Called
    OBVIOUS
  <2>9. /\ u \in Seq(Call) /\ Len(u) = Len(calls) /\ u[Len(calls)] = g
        /\ DOMAIN calls = 1 .. Len(calls)
        /\ \A n \in DOMAIN calls : n # Len(calls) => u[n] = calls[n]
    BY <2>5, <2>6, <2>7, <2>8, TopIs
  <2>10. \A n \in 1 .. Len(calls) : Alike(calls[n], u[n])
    BY <2>5, <2>7, <2>9 DEF Alike
  <2>11. Good(table, u, blurred, broken)
    BY <1>2, <2>9, <2>10, TopFacts, AlikeGood
  <2> QED BY <1>2, <2>2, <2>5, <2>8, <2>9, <2>11 DEF MayCall
<1> QED BY <1>1, <1>2

LEMMA BeginHolds ==
  ASSUME IInv, NEW op \in Ops, NEW k \in Key, NEW throws \in BOOLEAN, Begin(op, k, throws)
  PROVE  IInv'
<1> DEFINE h == HashFor(k, throws)
           D == Taken(Called, "remove")
<1>1. PICK c : c = table.lookup[Mask(h, table.capacity)]
  OBVIOUS
<1>2. PICK f : f = [op |-> op, key |-> k, hash |-> h, phase |-> "walk",
                    cur |-> c, prev |-> NIL, matches |-> FALSE, thrown |-> throws,
                    edited |-> FALSE, freed |-> FALSE, made |-> 0]
  OBVIOUS
<1>3. /\ fault = "none" /\ MayCall /\ calls' = Append(Called, f)
      /\ UNCHANGED <<table, props, blurred, broken, fault>>
  BY <1>1, <1>2 DEF Begin
<1>4. /\ Good(table, Called, blurred, broken) /\ Len(Called) < MaxDepth
      /\ Len(Called) > 0 => Called[Len(Called)].phase \in {"equals", "destructor"}
      /\ P!Held(table) /\ props \in Props
  BY <1>3, CalledGood DEF IInv, Good
<1>5. h \in Hashes
  BY <1>4 DEF HashFor, Hashes
<1>6. throws \/ k.type = "array" \/ \A p \in Props : h = KeyHash(k, p)
  BY HashSteady DEF HashFor
<1> HIDE DEF h, D
<1>7. c \in NIL .. MaxCapacity
  <2>1. PICK s \in 0 .. table.capacity - 1 : s = Mask(h, table.capacity)
    BY <1>4, <1>5, TableFacts
  <2>2. c \in NIL .. table.capacity - 1
    BY <1>1, <1>4, <2>1, TableFacts
  <2> QED BY <1>4, <2>2, TableFacts DEF NIL
<1>8. f \in Call
  <2>1. NIL \in NIL .. MaxCapacity /\ 0 \in 0 .. MaxMade
    BY BoundAssumption, CapacityAssumption DEF NIL
  <2> QED BY <1>2, <1>5, <1>7, <2>1 DEF Call
<1>9. CallOK(table, f)
  BY <1>2, <1>6 DEF CallOK, Owning
<1>10. broken \/ WalkOK(table, f, D)
  <2> SUFFICES ASSUME ~broken PROVE WalkOK(table, f, D)
    OBVIOUS
  <2>1. P!Ordered(table, D)
    BY <1>4 DEF Good, Intact, D
  <2>2. /\ c = NIL \/ c \in Chain(table, D, h)
        /\ \A i \in Chain(table, D, h) : c # NIL /\ i <= c
    BY <1>1, <1>4, <1>5, <2>1, HeadOfChain
  <2>3. \A i \in P!Live(table) \ D :
          table.key[i] = [zval |-> f.key, hash |-> f.hash] => i \in Chain(table, D, h)
    BY <1>2 DEF Chain
  <2> QED BY <1>1, <1>2, <2>2, <2>3 DEF WalkOK
<1>11. Good(table, Append(Called, f), blurred, broken)
  BY <1>2, <1>4, <1>8, <1>9, <1>10, PushGood DEF D
<1> QED BY <1>3, <1>11, GoodHolds DEF IInv

\* The call with its bucket left behind, and an exception under way or not.
LeftBehind(f, b) == [Advanced(f) EXCEPT !.thrown = b]

\* The walk leaves a bucket behind.
LEMMA AdvancedIs ==
  ASSUME P!Held(table), NEW f \in Call, f.cur # NIL, NEW b \in BOOLEAN, NEW g,
         g = LeftBehind(f, b)
  PROVE  /\ g \in Call /\ g.phase = "walk" /\ g.cur = NextOf(f.cur)
         /\ g.prev = IF f.op = "remove" THEN f.cur ELSE NIL
         /\ g.op = f.op /\ g.key = f.key /\ g.hash = f.hash /\ g.thrown = b
         /\ g.edited = f.edited /\ g.freed = f.freed /\ f.cur \in Nat
<1>1. f.cur \in NIL .. MaxCapacity /\ f.cur \in Nat /\ MaxCapacity \in Nat
  BY CapacityAssumption DEF Call, NIL
<1>2. PICK c \in NIL .. MaxCapacity : c = NextOf(f.cur)
  BY <1>1, NextOfType
<1>3. PICK p \in NIL .. MaxCapacity : p = IF f.op = "remove" THEN f.cur ELSE NIL
  <2>1. NIL \in NIL .. MaxCapacity
    BY <1>1 DEF NIL
  <2> QED BY <1>1, <2>1
<1>4. g = [f EXCEPT !.phase = "walk", !.cur = c, !.matches = FALSE, !.prev = p, !.thrown = b]
  BY <1>2, <1>3 DEF Advanced, LeftBehind
<1>5. g \in Call
  BY <1>4 DEF Call
<1> QED BY <1>1, <1>2, <1>3, <1>4, <1>5 DEF Call

\* Its bucket was not the one it looks for.
LEMMA AdvanceWalks ==
  ASSUME P!Held(table), NEW D, P!Ordered(table, D), NEW f \in Call, f.cur # NIL,
         WalkOK(table, f, D), NEW g,
         g.op = f.op, g.key = f.key, g.hash = f.hash, g.cur = NextOf(f.cur),
         g.prev = IF f.op = "remove" THEN f.cur ELSE NIL,
         ~g.thrown => /\ ~f.thrown
                      /\ table.key[f.cur] # [zval |-> f.key, hash |-> f.hash]
  PROVE  WalkOK(table, g, D)
<1>1. f.cur \in Chain(table, D, f.hash)
  BY DEF WalkOK
<1>2. f.cur \in P!Live(table) /\ f.cur \in Nat
  BY <1>1, TableFacts DEF Chain
<1>3. g.cur = table.link[f.cur]
  BY <1>2, NotDeleted DEF NextOf
<1>4. /\ g.cur = NIL \/ g.cur \in Chain(table, D, g.hash)
      /\ \A j \in Chain(table, D, f.hash) : j < f.cur => g.cur # NIL /\ j <= g.cur
  BY <1>1, <1>3, NextInChain
<1>5. ASSUME ~g.thrown, NEW i \in P!Live(table) \ D,
             table.key[i] = [zval |-> g.key, hash |-> g.hash]
      PROVE  g.cur # NIL /\ i <= g.cur
  <2>1. i \in Chain(table, D, f.hash)
    BY <1>5 DEF Chain
  <2>2. i <= f.cur /\ i # f.cur /\ i \in Nat
    BY <1>5, TableFacts DEF WalkOK
  <2> QED BY <1>2, <1>4, <2>1, <2>2
<1> QED BY <1>1, <1>2, <1>3, <1>4, <1>5 DEF WalkOK

\* The last call of an unbroken table that was not edited under it is steady.
LEMMA TopWalks ==
  ASSUME IInv, calls # << >>, ~broken, ~Top.edited, Top.phase # "destructor"
  PROVE  /\ WalkOK(table, Top, Taken(calls, "remove"))
         /\ P!Ordered(table, Taken(calls, "remove"))
<1>1. /\ DOMAIN calls = 1 .. Len(calls) /\ Len(calls) \in Nat /\ Top = calls[Len(calls)]
      /\ Len(calls) \in DOMAIN calls
      /\ Intact(table, calls, blurred)
  BY TopFacts DEF Good
<1>2. \A m \in DOMAIN calls : ~(m > Len(calls))
  BY <1>1
<1>3. Steady(calls, Len(calls))
  BY <1>1, <1>2 DEF Steady
<1> QED BY <1>1, <1>3 DEF Intact

LEMMA CompareHolds ==
  ASSUME IInv, Compare
  PROVE  IInv'
<1>1. PICK f \in Call : f = Top
  BY TopFacts DEF Compare, Running
<1>2. /\ fault = "none" /\ calls # << >> /\ f.phase = "walk" /\ f.cur # NIL
      /\ calls' = SetTop(Compared(f))
      /\ UNCHANGED <<table, props, blurred, broken, fault>>
  BY <1>1 DEF Compare, Running
<1>3. /\ calls \in Seq(Call) /\ Len(calls) > 0 /\ f = calls[Len(calls)]
      /\ CallOK(table, f) /\ P!Held(table) /\ Good(table, calls, blurred, broken)
  BY <1>1, <1>2, TopFacts
<1> DEFINE D == Taken(calls, "remove")
           b == table.key[f.cur].zval
           g == Compared(f)
<1>4. f.cur \in Nat /\ f.thrown \in BOOLEAN
  BY <1>2, CapacityAssumption DEF Call, NIL
<1>5. f.thrown \/ f.key.type = "array" \/ \A p \in Props : f.hash = KeyHash(f.key, p)
  BY <1>3 DEF CallOK
<1>6. f.freed => f.edited
  BY <1>3 DEF CallOK
<1>7. CASE g = Advanced(f)
  <2>1. g = LeftBehind(f, f.thrown)
    BY <1>7 DEF LeftBehind, Advanced, Call
  <2>2. /\ g \in Call /\ g.phase = "walk" /\ g.cur = NextOf(f.cur)
        /\ g.prev = IF f.op = "remove" THEN f.cur ELSE NIL
        /\ g.op = f.op /\ g.key = f.key /\ g.hash = f.hash /\ g.thrown = f.thrown
        /\ g.edited = f.edited /\ g.freed = f.freed
    BY <1>2, <1>3, <1>4, <2>1, AdvancedIs
  <2>3. ASSUME ~f.thrown, f.cur \in P!Live(table)
        PROVE  table.key[f.cur] # [zval |-> f.key, hash |-> f.hash]
    <3> SUFFICES ASSUME table.key[f.cur] = [zval |-> f.key, hash |-> f.hash]
                 PROVE  FALSE
      OBVIOUS
    <3>1. ~Deleted(f.cur)
      BY <1>3, <1>4, <2>3, NotDeleted
    <3>2. b = f.key /\ table.key[f.cur].hash = f.hash /\ b \in Key
      BY DEF Call
    <3>3. KeyIdentical(b, f.key)
      BY <3>2, KeyAssumption
    <3>4. IsKeyed(b) => HasEquals(b, f.key)
      BY <3>2 DEF HasEquals, IsKeyed
    <3>5. g.phase # "walk"
      BY <2>3, <3>1, <3>2, <3>3, <3>4 DEF Compared, Call
    <3> QED BY <2>2, <3>5
  <2> HIDE DEF g
  <2>4. CallOK(table, g)
    BY <1>5, <1>6, <2>2 DEF CallOK, Owning
  <2>5. ASSUME ~broken, ~f.edited, WalkOK(table, f, D) PROVE WalkOK(table, g, D)
    <3>1. P!Ordered(table, D)
      BY <1>3, <2>5 DEF Good, Intact
    <3>2. f.cur \in P!Live(table)
      BY <1>2, <2>5 DEF WalkOK, Chain
    <3> QED BY <1>2, <1>3, <2>2, <2>3, <2>5, <3>1, <3>2, AdvanceWalks
  <2>6. Good(table, [calls EXCEPT ![Len(calls)] = g], blurred, broken)
    BY <1>2, <1>3, <2>2, <2>4, <2>5, StepGood
  <2> QED BY <1>2, <2>6, GoodHolds DEF IInv, SetTop, g
<1>8. CASE g # Advanced(f)
  <2> DEFINE m == KeyIdentical(b, f.key)
  <2>1. ~Deleted(f.cur) /\ table.key[f.cur].hash = f.hash
    BY <1>8 DEF Compared
  <2>2. PICK ph \in {"equals", "found"} :
          /\ g = [[f EXCEPT !.matches = m] EXCEPT !.phase = ph]
          /\ ph = "equals" => ~f.thrown
    BY <1>8, <2>1 DEF Compared
  <2>3. f.cur \in P!Live(table) /\ b \in Key
    BY <1>3, <1>4, <2>1, NotDeleted, TableFacts
  <2>4. f.key \in Key
    BY DEF Call
  <2>5. m <=> b = f.key
    BY <2>3, <2>4, KeyAssumption
  <2>6. m \in BOOLEAN
    BY DEF KeyIdentical, UserEquals, SameArray, SameElement
  <2> HIDE DEF m
  <2>7. g = [f EXCEPT !.matches = m, !.phase = ph]
    BY <2>2
  <2>8. /\ g \in Call /\ g.phase = ph /\ g.cur = f.cur /\ g.prev = f.prev
        /\ g.op = f.op /\ g.key = f.key /\ g.hash = f.hash /\ g.thrown = f.thrown
        /\ g.edited = f.edited /\ g.freed = f.freed /\ g.matches = m
    BY <2>6, <2>7 DEF Call
  <2> HIDE DEF g
  <2>9. CallOK(table, g)
    BY <1>2, <1>5, <1>6, <2>1, <2>2, <2>3, <2>5, <2>8 DEF CallOK, Owning
  <2>10. WalkOK(table, f, D) => WalkOK(table, g, D)
    BY <2>8 DEF WalkOK
  <2>11. Good(table, [calls EXCEPT ![Len(calls)] = g], blurred, broken)
    BY <1>2, <1>3, <2>8, <2>9, <2>10, StepGood
  <2> QED BY <1>2, <2>11, GoodHolds DEF IInv, SetTop, g
<1> QED BY <1>7, <1>8

\* equals() does not say that the key is the bucket's.
LEMMA EqualsFailsHolds ==
  ASSUME IInv, NEW throws \in BOOLEAN, EqualsFails(throws)
  PROVE  IInv'
<1>1. PICK f \in Call : f = Top
  BY TopFacts DEF EqualsFails, Running
<1>2. /\ fault = "none" /\ calls # << >> /\ f.phase = "equals"
      /\ throws \/ ~f.matches
  BY <1>1 DEF EqualsFails, Running
<1>3. /\ calls \in Seq(Call) /\ Len(calls) > 0 /\ f = calls[Len(calls)]
      /\ CallOK(table, f) /\ P!Held(table) /\ Good(table, calls, blurred, broken)
      /\ f.freed => Disturbed(calls)
  BY <1>1, <1>2, TopFacts
<1>4. CASE f.freed
  BY <1>1, <1>3, <1>4, FailsHolds DEF EqualsFails, Faults
<1>5. CASE ~f.freed
  <2> DEFINE D == Taken(calls, "remove")
  <2>1. PICK g : g = LeftBehind(f, throws)
    OBVIOUS
  <2>2. calls' = SetTop(g) /\ UNCHANGED <<table, props, blurred, broken, fault>>
    BY <1>1, <1>5, <2>1 DEF EqualsFails, LeftBehind
  <2>3. f.cur # NIL /\ ~f.thrown
    BY <1>2, <1>3 DEF CallOK
  <2>4. /\ g \in Call /\ g.phase = "walk" /\ g.cur = NextOf(f.cur)
        /\ g.prev = IF f.op = "remove" THEN f.cur ELSE NIL
        /\ g.op = f.op /\ g.key = f.key /\ g.hash = f.hash /\ g.thrown = throws
        /\ g.edited = f.edited /\ g.freed = f.freed
    BY <1>3, <2>1, <2>3, AdvancedIs
  <2>5. CallOK(table, g)
    BY <1>3, <2>3, <2>4 DEF CallOK, Owning
  <2>6. ASSUME ~broken, ~f.edited, WalkOK(table, f, D) PROVE WalkOK(table, g, D)
    <3>1. P!Ordered(table, D)
      BY <1>3, <2>6 DEF Good, Intact
    <3>2. ~throws => table.key[f.cur] # [zval |-> f.key, hash |-> f.hash]
      BY <1>2, <1>3, <2>6 DEF CallOK
    <3> QED BY <1>3, <2>3, <2>4, <2>6, <3>1, <3>2, AdvanceWalks
  <2>7. Good(table, [calls EXCEPT ![Len(calls)] = g], blurred, broken)
    BY <1>2, <1>3, <2>4, <2>5, <2>6, StepGood
  <2> QED BY <1>2, <2>2, <2>7, GoodHolds DEF IInv, SetTop
<1> QED BY <1>4, <1>5

\* A call that has nothing of the table in its hands returns.
LEMMA ReturnHolds ==
  ASSUME IInv, fault = "none", calls # << >>, Top.phase # "destructor", Return,
         UNCHANGED <<table, props, blurred, broken, fault>>
  PROVE  IInv'
<1>1. Good(table, Outside(calls), blurred, broken)
  BY TopFacts, PopGood
<1> QED BY <1>1, TopFacts, GoodHolds DEF IInv, Return

LEMMA MissHolds ==
  ASSUME IInv, Miss
  PROVE  IInv'
BY ReturnHolds DEF Miss, Running

\* A bucket that is gone, or whose value is, by the time that it is used.
LEMMA HitFacts ==
  ASSUME IInv, NEW op, Hit(op)
  PROVE  /\ fault = "none" /\ calls # << >> /\ Top.phase \in {"equals", "found"}
         /\ Top.op = op /\ Top.matches /\ Top.cur \in Nat
         /\ GoneFromUnder => Disturbed(calls)
         /\ ~GoneFromUnder => ~Top.freed /\ Top.cur \in P!Live(table)
         /\ ~GoneFromUnder /\ table.value[Top.cur] = Gone => Disturbed(calls)
<1>1. /\ fault = "none" /\ calls # << >> /\ Top.phase \in {"equals", "found"}
      /\ Top.op = op /\ Top.matches
  BY DEF Hit, Running
<1>2. /\ Top \in Call /\ CallOK(table, Top) /\ P!Held(table)
      /\ Top.edited \/ Top.freed => Disturbed(calls)
  BY <1>1, TopFacts
<1>3. Top.cur \in Nat
  <2>1. Top.cur # NIL /\ Top.cur \in NIL .. MaxCapacity
    BY <1>1, <1>2 DEF CallOK, Call
  <2> QED BY <2>1, CapacityAssumption DEF NIL
<1>4. GoneFromUnder => Disturbed(calls)
  <2>1. CASE Top.freed \/ Top.edited
    BY <1>2, <2>1
  <2>2. CASE ~Top.freed /\ ~Top.edited
    BY <1>1, <1>2, <1>3, <2>2, NotDeleted DEF CallOK, GoneFromUnder
  <2> QED BY <2>1, <2>2
<1>5. ~GoneFromUnder => ~Top.freed /\ Top.cur \in P!Live(table)
  BY <1>2, <1>3, NotDeleted DEF GoneFromUnder
<1>6. ~GoneFromUnder /\ table.value[Top.cur] = Gone => Disturbed(calls)
  BY <1>5 DEF IInv, Good, Handed, Disturbed
<1> QED BY <1>1, <1>3, <1>4, <1>5, <1>6

LEMMA GetHitHolds ==
  ASSUME IInv, GetHit
  PROVE  IInv'
<1>1. CASE GoneFromUnder
  BY <1>1, HitFacts, FailsOrHolds DEF GetHit, Faults
<1>2. CASE ~GoneFromUnder /\ table.value[Top.cur] = Gone
  BY <1>2, HitFacts, FailsHolds DEF GetHit, Faults
<1>3. CASE ~GoneFromUnder /\ table.value[Top.cur] # Gone
  BY <1>3, HitFacts, ReturnHolds DEF GetHit
<1> QED BY <1>1, <1>2, <1>3

\* The table with another value in a bucket.
Revalued(t, i, v) == [t EXCEPT !.value[i] = v]

\* Only bucket i has another value.
ValuesBut(u, t, i) == \A j \in P!Live(t) : j # i => u.value[j] = t.value[j]

LEMMA RevaluedIs ==
  ASSUME NEW t, P!Held(t), NEW i \in P!Live(t), NEW v \in {"kept", Gone},
         NEW u, u = Revalued(t, i, v)
  PROVE  /\ P!Held(u) /\ P!Live(u) = P!Live(t) /\ u.key = t.key
         /\ u.link = t.link /\ u.lookup = t.lookup /\ u.capacity = t.capacity
         /\ u.value[i] = v /\ ValuesBut(u, t, i)
         /\ \A D : P!Ordered(u, D) <=> P!Ordered(t, D)
<1>1. P!UndefAssumption /\ P!CapacityAssumption /\ P!MaskAssumption
  BY Assumptions
<1>2. PICK w : w = [t EXCEPT !.value[i] = v]
  OBVIOUS
<1>3. \A D : P!Ordered(w, D) <=> P!Ordered(t, D)
  BY <1>1, <1>2, P!RevalueHeld
<1>4. P!Held(w) /\ P!Live(w) = P!Live(t) /\ w.value[i] = v
  BY <1>1, <1>2, P!RevalueHeld, Zenon
<1>5. /\ w.key = t.key /\ w.link = t.link /\ w.lookup = t.lookup /\ w.capacity = t.capacity
  BY <1>1, <1>2, P!RevalueHeld, Zenon
<1>6. \A j \in P!Live(t) : j # i => w.value[j] = t.value[j]
  BY <1>1, <1>2, P!RevalueHeld
<1>7. u = w
  BY <1>2 DEF Revalued
<1> QED BY <1>3, <1>4, <1>5, <1>6, <1>7 DEF ValuesBut

\* A put that meets a bucket with its key, whose value it destroys.
LEMMA PutHitHolds ==
  ASSUME IInv, PutHit
  PROVE  IInv'
<1>1. CASE GoneFromUnder
  BY <1>1, HitFacts, FailsOrHolds DEF PutHit, Faults
<1>2. CASE ~GoneFromUnder /\ table.value[Top.cur] = Gone
  BY <1>2, HitFacts, FailsHolds DEF PutHit, Faults
<1>3. CASE ~GoneFromUnder /\ table.value[Top.cur] # Gone
  <2>1. PICK f \in Call : f = Top
    BY <1>3, HitFacts, TopFacts DEF PutHit
  <2>2. PICK u : u = Revalued(table, f.cur, Gone)
    OBVIOUS
  <2>3. /\ fault = "none" /\ f.phase \in {"equals", "found"} /\ f.op = "put" /\ ~f.freed
        /\ f.cur \in P!Live(table) /\ table.value[f.cur] # Gone
    BY <1>3, <2>1, HitFacts DEF PutHit
  <2>4. /\ table' = u /\ UNCHANGED <<props, blurred, broken, fault>>
        /\ calls' = Destroyer(calls, f)
    BY <1>3, <2>1, <2>2 DEF PutHit, Destroying, SetTop, Revalued, Destroyer
  <2>5. /\ Good(table, calls, blurred, broken) /\ Len(calls) > 0 /\ f = calls[Len(calls)]
        /\ P!Held(table)
    BY <1>3, <2>1, HitFacts, TopFacts DEF PutHit
  <2>6. /\ P!Held(u) /\ P!Live(u) = P!Live(table) /\ u.key = table.key
        /\ u.link = table.link /\ u.lookup = table.lookup /\ u.capacity = table.capacity
        /\ u.value[f.cur] = Gone
        /\ ValuesBut(u, table, f.cur)
        /\ \A D : P!Ordered(u, D) <=> P!Ordered(table, D)
    <3>1. PICK i : i = f.cur
      OBVIOUS
    <3>2. Gone \in {"kept", Gone} /\ i \in P!Live(table) /\ P!Held(table)
      BY <2>2, <2>3, <2>5, <3>1
    <3>3. u = Revalued(table, i, Gone)
      BY <2>2, <2>3, <2>5, <3>1
    <3> QED BY <3>1, <3>2, <3>3, RevaluedIs
  <2>7. DiesAt(u, table, f.cur)
    BY <2>6 DEF DiesAt, ValuesBut
  <2>8. broken \/ P!Ordered(u, Taken(calls, "remove"))
    BY <2>5, <2>6 DEF Good, Intact
  <2>9. Good(u, Destroyer(calls, f), blurred, broken)
    <3>1. PICK i : i = f.cur
      OBVIOUS
    <3>2. f.op \in {"put", "remove"} /\ f.op # "remove" /\ i \in P!Live(table)
      BY <2>3, <3>1
    <3>3. table.value[i] # Gone /\ DiesAt(u, table, i)
      BY <2>3, <2>7, <3>1
    <3>4. OrderedUnless(broken, broken, u, calls, f)
      BY <2>8, <3>2 DEF OrderedUnless
    <3>5. SameChains(u, table)
      BY <2>6 DEF SameChains
    <3> QED BY <2>3, <2>5, <3>1, <3>2, <3>3, <3>4, <3>5, DestroyGood
  <2> QED BY <2>3, <2>4, <2>9, GoodHolds DEF IInv
<1> QED BY <1>1, <1>2, <1>3

\* The last call's destructor has returned.
LEMMA DestructorFacts ==
  ASSUME IInv, Running("destructor")
  PROVE  /\ fault = "none" /\ calls # << >> /\ Disturbed(calls)
         /\ ~GoneFromUnder => Owning(Top) /\ Top.cur \in P!Live(table)
BY TopFacts DEF Running, GoneFromUnder, Owning, CallOK

LEMMA PutStoresHolds ==
  ASSUME IInv, PutStores
  PROVE  IInv'
<1>1. CASE GoneFromUnder
  BY <1>1, DestructorFacts, FailsOrHolds DEF PutStores, Faults
<1>2. CASE ~GoneFromUnder
  <2>1. PICK f \in Call : f = Top
    BY DestructorFacts, TopFacts DEF PutStores
  <2>2. PICK u : u = Revalued(table, f.cur, "kept")
    OBVIOUS
  <2>3. fault = "none" /\ Owning(f) /\ f.op = "put" /\ f.cur \in P!Live(table)
    BY <1>2, <2>1, DestructorFacts DEF PutStores
  <2>4. /\ Good(table, calls, blurred, broken) /\ Len(calls) > 0 /\ f = calls[Len(calls)]
        /\ P!Held(table) /\ Outer = Outside(calls)
    BY <2>1, DestructorFacts, TopFacts DEF PutStores
  <2>5. /\ table' = u /\ calls' = Outside(calls)
        /\ UNCHANGED <<props, blurred, broken, fault>>
    BY <1>2, <2>1, <2>2, <2>4 DEF PutStores, Return, Revalued
  <2>6. /\ P!Held(u) /\ P!Live(u) = P!Live(table) /\ u.key = table.key
        /\ u.link = table.link /\ u.lookup = table.lookup /\ u.capacity = table.capacity
        /\ u.value[f.cur] = "kept"
        /\ ValuesBut(u, table, f.cur)
        /\ \A D : P!Ordered(u, D) <=> P!Ordered(table, D)
    <3>1. PICK i : i = f.cur
      OBVIOUS
    <3>2. "kept" \in {"kept", Gone} /\ i \in P!Live(table) /\ P!Held(table)
      BY <2>2, <2>3, <2>4, <3>1
    <3>3. u = Revalued(table, i, "kept")
      BY <2>2, <2>3, <2>4, <3>1
    <3> QED BY <3>1, <3>2, <3>3, RevaluedIs
  <2>7. Good(u, Outside(calls), blurred, broken)
    BY <2>3, <2>4, <2>6, StoreGood DEF ValuesBut
  <2> QED BY <2>3, <2>5, <2>7, GoodHolds DEF IInv
<1> QED BY <1>1, <1>2

\* A bucket that is unlinked, wherever the walk has left the call.
LEMMA UnlinkHeld ==
  ASSUME NEW t, P!Held(t), NEW i \in P!Live(t), NEW p \in NIL .. MaxCapacity,
         NEW hash \in Hashes, NEW u, u = Unlinked(t, i, p, hash)
  PROVE  /\ P!Held(u) /\ P!Live(u) = P!Live(t) /\ u.key = t.key /\ u.value = t.value
         /\ p = NIL \/ p < t.next =>
              P!BypassedAt(u, t, i, p, Mask(hash, t.capacity))
<1>1. /\ t.next \in Nat /\ t.capacity \in Nat /\ P!NIL = NIL
      /\ t.link \in [0 .. t.next - 1 -> NIL .. t.capacity - 1]
      /\ t.lookup \in [0 .. t.capacity - 1 -> NIL .. t.capacity - 1]
  BY TableFacts, SameReads
<1>2. p \in Int /\ \A j \in 0 .. t.next - 1 : j # NIL
  BY <1>1, CapacityAssumption DEF NIL
<1>3. t = [f \in P!Fields |-> t[f]]
  BY Assumptions, P!HeldFacts
<1>4. CASE p # NIL /\ p >= t.next
  BY <1>1, <1>2, <1>4 DEF Unlinked
<1>5. CASE p = NIL \/ p < t.next
  <2> DEFINE h == Mask(hash, t.capacity)
             l == t.link[i]
  <2>1. /\ u = [f \in P!Fields |-> u[f]] /\ u.key = t.key /\ u.value = t.value
        /\ u.size = t.size /\ u.minDeleted = t.minDeleted
        /\ u.next = t.next /\ u.capacity = t.capacity
        /\ u.link = IF p = NIL THEN t.link ELSE [t.link EXCEPT ![p] = l]
        /\ u.lookup = IF p = NIL THEN [t.lookup EXCEPT ![h] = l] ELSE t.lookup
    <3>1. CASE p = NIL
      <4>1. u = [t EXCEPT !.lookup[h] = l]
        BY <1>1, <3>1 DEF Unlinked
      <4> HIDE DEF h, l
      <4> QED BY <1>3, <3>1, <4>1 DEF P!Fields
    <3>2. CASE p # NIL
      <4>1. u = [t EXCEPT !.link[p] = l]
        BY <1>1, <1>2, <1>5, <3>2 DEF Unlinked
      <4> HIDE DEF h, l
      <4> QED BY <1>3, <3>2, <4>1 DEF P!Fields
    <3> QED BY <3>1, <3>2
  <2>2. u.link = [j \in 0 .. t.next - 1 |-> IF j = p THEN t.link[i] ELSE t.link[j]]
    BY <1>1, <1>2, <2>1
  <2>3. u.lookup = [s \in 0 .. t.capacity - 1 |->
                      IF p = NIL /\ s = h THEN t.link[i] ELSE t.lookup[s]]
    BY <1>1, <2>1
  <2>4. P!BypassedAt(u, t, i, p, h)
    BY <1>1, <2>1, <2>2, <2>3 DEF P!BypassedAt
  <2> QED BY <2>1, <2>4, Assumptions, P!BypassHeld
<1> QED BY <1>1, <1>2, <1>4, <1>5

\* The bucket of a removal that nothing disturbed, and the one before it.
LEMMA RemoveFindsPrevious ==
  ASSUME IInv, NEW f \in Call, f = Top, calls # << >>, ~broken, ~f.edited,
         f.phase \in {"equals", "found"}, f.op = "remove",
         NEW D, D = Taken(calls, "remove")
  PROVE  /\ P!Ordered(table, D) /\ f.cur \in P!Live(table) \ D
         /\ P!PrecedesBut(table, f.prev, f.cur, D)
         /\ f.prev = NIL \/ f.prev < table.next
         /\ P!Slot(table, table.key[f.cur]) = Mask(f.hash, table.capacity)
<1>1. WalkOK(table, f, D) /\ P!Ordered(table, D) /\ CallOK(table, f) /\ P!Held(table)
  BY TopWalks, TopFacts
<1>2. f.cur \in Chain(table, D, f.hash) /\ table.key[f.cur].hash = f.hash
  BY <1>1 DEF WalkOK, CallOK
<1>3. f.cur \in P!Live(table) \ D
  BY <1>2 DEF Chain
<1>4. P!Slot(table, table.key[f.cur]) = Mask(f.hash, table.capacity)
  BY <1>1, <1>2, <1>3, TableFacts
<1>5. CASE f.prev = NIL
  BY <1>1, <1>3, <1>4, <1>5, SameReads DEF P!PrecedesBut, WalkOK
<1>6. CASE f.prev # NIL
  <2>1. f.prev \in Chain(table, D, f.hash) /\ table.link[f.prev] = f.cur
    BY <1>1, <1>6 DEF WalkOK
  <2>2. f.prev < table.next
    BY <1>1, <2>1, TableFacts DEF Chain
  <2>3. f.prev \in P!Colliding(table, Mask(f.hash, table.capacity), table.next) \ D
    BY <1>1, <2>1, ChainIs
  <2> QED BY <1>1, <1>3, <1>4, <1>6, <2>1, <2>2, <2>3, SameReads DEF P!PrecedesBut
<1> QED BY <1>5, <1>6

\* Once a chain is broken, all keys are excused.
LEMMA BlurredGood ==
  ASSUME NEW t, NEW cs, NEW bl, NEW br, Good(t, cs, bl, br), br
  PROVE  Good(t, cs, Key, br)
<1>1. HashesKept(t, Key)
  BY TableFacts DEF Good, HashesKept, Stored
<1> QED BY <1>1 DEF Good

LEMMA RemoveHitHolds ==
  ASSUME IInv, RemoveHit
  PROVE  IInv'
<1>1. CASE GoneFromUnder
  BY <1>1, HitFacts, FailsOrHolds DEF RemoveHit, Faults
<1>2. CASE ~GoneFromUnder /\ table.value[Top.cur] = Gone
  BY <1>2, HitFacts, FailsHolds DEF RemoveHit, Faults
<1>3. CASE ~GoneFromUnder /\ table.value[Top.cur] # Gone
  <2>1. PICK f \in Call : f = Top
    BY <1>3, HitFacts, TopFacts DEF RemoveHit
  <2>2. PICK w : w = Unlinked(table, f.cur, f.prev, f.hash)
    OBVIOUS
  <2>3. PICK u : u = Revalued(w, f.cur, Gone)
    OBVIOUS
  <2>4. /\ fault = "none" /\ f.phase \in {"equals", "found"} /\ f.op = "remove" /\ ~f.freed
        /\ f.cur \in P!Live(table) /\ table.value[f.cur] # Gone /\ calls # << >>
    BY <1>3, <2>1, HitFacts DEF RemoveHit
  <2>5. PICK c \in BOOLEAN : c = (broken \/ f.edited)
    BY DEF IInv, Call
  <2>6. /\ table' = u /\ UNCHANGED <<props, fault>> /\ broken' = c
        /\ blurred' = (IF c THEN Key ELSE blurred) /\ calls' = Destroyer(calls, f)
    BY <1>3, <2>1, <2>2, <2>3, <2>5 DEF RemoveHit, Destroying, SetTop, Revalued, Destroyer
  <2>7. /\ Good(table, calls, blurred, broken) /\ Len(calls) > 0 /\ f = calls[Len(calls)]
        /\ P!Held(table)
    BY <2>1, <2>4, TopFacts
  <2>8. f.prev \in NIL .. MaxCapacity /\ f.hash \in Hashes
    BY DEF Call
  <2>9. /\ P!Held(w) /\ P!Live(w) = P!Live(table) /\ w.key = table.key
        /\ w.value = table.value
        /\ f.prev = NIL \/ f.prev < table.next =>
             P!BypassedAt(w, table, f.cur, f.prev, Mask(f.hash, table.capacity))
    BY <2>2, <2>4, <2>7, <2>8, UnlinkHeld
  <2>10. /\ P!Held(u) /\ P!Live(u) = P!Live(w) /\ u.key = w.key
         /\ u.value[f.cur] = Gone
         /\ ValuesBut(u, w, f.cur)
         /\ \A D : P!Ordered(u, D) <=> P!Ordered(w, D)
    <3>1. PICK i : i = f.cur
      OBVIOUS
    <3>2. Gone \in {"kept", Gone} /\ i \in P!Live(w) /\ P!Held(w)
      BY <2>3, <2>4, <2>9, <3>1
    <3>3. u = Revalued(w, i, Gone)
      BY <2>3, <2>4, <2>9, <3>1
    <3> QED BY <3>1, <3>2, <3>3, RevaluedIs
  <2>11. DiesAt(u, table, f.cur)
    BY <2>9, <2>10 DEF DiesAt, ValuesBut
  <2>12. c \/ P!Ordered(u, Taken(calls, "remove") \union {f.cur})
    <3> SUFFICES ASSUME ~c PROVE P!Ordered(u, Taken(calls, "remove") \union {f.cur})
      OBVIOUS
    <3>1. PICK D : D = Taken(calls, "remove")
      OBVIOUS
    <3>2. ~broken /\ ~f.edited
      BY <2>5
    <3>3. /\ P!Ordered(table, D) /\ f.cur \in P!Live(table) \ D
          /\ P!PrecedesBut(table, f.prev, f.cur, D)
          /\ f.prev = NIL \/ f.prev < table.next
          /\ P!Slot(table, table.key[f.cur]) = Mask(f.hash, table.capacity)
      BY <2>1, <2>4, <3>1, <3>2, RemoveFindsPrevious
    <3>4. P!Bypassed(w, table, f.cur, f.prev)
      BY <2>9, <3>3 DEF P!Bypassed
    <3>5. P!Ordered(w, D \union {f.cur})
      BY <2>7, <3>3, <3>4, Assumptions, P!BypassOrders
    <3> QED BY <2>10, <3>1, <3>5
  <2>13. Good(u, Destroyer(calls, f), blurred, c)
    <3>1. PICK i : i = f.cur
      OBVIOUS
    <3>2. f.op \in {"put", "remove"} /\ f.op # "put" /\ i \in P!Live(table)
      BY <2>4, <3>1
    <3>3. table.value[i] # Gone /\ DiesAt(u, table, i)
      BY <2>4, <2>11, <3>1
    <3>4. OrderedUnless(broken, c, u, calls, f)
      BY <2>4, <2>5, <2>12 DEF OrderedUnless
    <3> QED BY <2>4, <2>7, <3>1, <3>2, <3>3, <3>4, DestroyGood
  <2>14. Good(u, Destroyer(calls, f), IF c THEN Key ELSE blurred, c)
    <3>1. CASE c
      BY <2>13, <3>1, BlurredGood
    <3>2. CASE ~c
      BY <2>13, <3>2
    <3> QED BY <3>1, <3>2
  <2>15. (IF c THEN Key ELSE blurred) \subseteq Key
    BY DEF IInv
  <2> QED BY <2>4, <2>6, <2>14, <2>15, GoodHolds DEF IInv
<1> QED BY <1>1, <1>2, <1>3

-----------------------------------------------------------------------------
(* Edits by a call that ends.                                              *)

\* Each bucket of L in u is one of t, where it was unless buckets have moved.
Carried(u, t, L, src, m) ==
  /\ \A i \in L : /\ src[i] \in P!Live(t)
                  /\ u.key[i] = t.key[src[i]] /\ u.value[i] = t.value[src[i]]
  /\ \A i, j \in L : src[i] = src[j] => i = j
  /\ ~m => \A i \in L : src[i] = i

\* Hashes, dying values and keys go with their buckets.
LEMMA CarriedHashes ==
  ASSUME NEW t, NEW u, NEW L, NEW src, NEW m, Carried(u, t, L, src, m),
         NEW bl, NEW bm, bl \subseteq bm, HashesKept(t, bl), NEW i \in L
  PROVE  \/ u.key[i].zval \in bm \/ u.key[i].zval.type = "array"
         \/ \A p \in Props : u.key[i].hash = KeyHash(u.key[i].zval, p)
<1>1. PICK s \in P!Live(t) : u.key[i] = t.key[s]
  BY DEF Carried
<1>2. PICK k : k = u.key[i]
  OBVIOUS
<1>3. \/ k.zval \in bl \/ k.zval.type = "array"
      \/ \A p \in Props : k.hash = KeyHash(k.zval, p)
  BY <1>1, <1>2, Zenon DEF HashesKept
<1> QED BY <1>2, <1>3

LEMMA CarriedDying ==
  ASSUME NEW t, NEW u, NEW L, NEW src, NEW m, Carried(u, t, L, src, m),
         NEW cs, Handed(t, cs), NEW i \in L, u.value[i] = Gone
  PROVE  \E n \in DOMAIN cs :
           cs[n].phase = "destructor" /\ (m \/ cs[n].freed \/ cs[n].cur = i)
<1>1. PICK s \in P!Live(t) : t.value[s] = Gone /\ s = src[i]
  BY DEF Carried
<1>2. PICK n \in DOMAIN cs : cs[n].phase = "destructor" /\ (cs[n].freed \/ cs[n].cur = s)
  BY <1>1 DEF Handed
<1>3. m \/ s = i
  BY <1>1 DEF Carried
<1> QED BY <1>2, <1>3

LEMMA CarriedOwned ==
  ASSUME NEW t, NEW u, NEW L, NEW src, NEW m, Carried(u, t, L, src, m), ~m,
         NEW i \in L, t.value[i] = Gone
  PROVE  u.value[i] = Gone
BY DEF Carried

\* A bucket that is kept was kept before.
LEMMA CarriedApart ==
  ASSUME NEW t, NEW u, NEW L, NEW src, NEW m, Carried(u, t, L, src, m),
         NEW F, NEW G, F \subseteq G, m => F = {}, NEW bl, NEW bm, bl \subseteq bm,
         Apart(t, G, bl), NEW i \in L, NEW j \in L, i \in Kept(u, F), j \in Kept(u, F),
         i # j, u.key[i].zval = u.key[j].zval
  PROVE  \/ u.key[i].zval \in bm
         \/ u.key[i].zval.type = "array" /\ u.key[i].hash # u.key[j].hash
<1>0. ASSUME NEW x \in L, x \in Kept(u, F)
      PROVE  src[x] \in Kept(t, G) /\ u.key[x] = t.key[src[x]]
  <2>1. CASE x \in F
    BY <1>0, <2>1 DEF Carried, Kept
  <2>2. CASE u.value[x] # Gone
    BY <1>0, <2>2 DEF Carried, Kept
  <2> QED BY <1>0, <2>1, <2>2 DEF Carried, Kept
<1>1. PICK a : a = src[i] /\ a \in Kept(t, G) /\ u.key[i] = t.key[a]
  BY <1>0, Zenon
<1>2. PICK b : b = src[j] /\ b \in Kept(t, G) /\ u.key[j] = t.key[b]
  BY <1>0, Zenon
<1>3. a # b
  BY <1>1, <1>2 DEF Carried
<1>4. PICK k, l : k = u.key[i] /\ l = u.key[j]
  OBVIOUS
<1>5. k.zval \in bl \/ (k.zval.type = "array" /\ k.hash # l.hash)
  BY <1>1, <1>2, <1>3, <1>4 DEF Apart
<1> QED BY <1>4, <1>5

\* What a removal takes is dying, and in the hands of nobody else.
LEMMA TakenFacts ==
  ASSUME NEW t, NEW cs, NEW bl, NEW br, Good(t, cs, bl, br)
  PROVE  /\ \A op : \A i \in Taken(cs, op) : i \in P!Live(t) /\ t.value[i] = Gone
         /\ \A i \in Taken(cs, "put") : i \notin Taken(cs, "remove")
<1>1. ASSUME NEW op, NEW i \in Taken(cs, op) PROVE i \in P!Live(t) /\ t.value[i] = Gone
  <2>1. PICK n \in DOMAIN cs : Owning(cs[n]) /\ cs[n].op = op /\ cs[n].cur = i
    BY <1>1, TakenIs
  <2>2. CallOK(t, cs[n])
    BY DEF Good
  <2> QED BY <2>1, <2>2 DEF CallOK
<1>2. ASSUME NEW i \in Taken(cs, "put"), i \in Taken(cs, "remove") PROVE FALSE
  <2>1. PICK m \in DOMAIN cs : Owning(cs[m]) /\ cs[m].op = "put" /\ cs[m].cur = i
    BY <1>2, TakenIs
  <2>2. PICK n \in DOMAIN cs : Owning(cs[n]) /\ cs[n].op = "remove" /\ cs[n].cur = i
    BY <1>2, TakenIs
  <2> QED BY <2>1, <2>2 DEF Good, Handed
<1> QED BY <1>1, <1>2

\* A table that a call has edited, with buckets that it had before but for those not
\* in L: EditedGood without the sequences.
LEMMA CarriedGood ==
  ASSUME NEW t, NEW cs, NEW bl, NEW br, NEW bm, bl \subseteq bm, Good(t, cs, bl, br),
         NEW u, P!Held(u), NEW m \in BOOLEAN, NEW L, L \subseteq P!Live(u), NEW src,
         Carried(u, t, L, src, m), ~m => \A op : Taken(cs, op) \subseteq L,
         \A i \in P!Live(u) \ L :
           /\ u.value[i] # Gone
           /\ \/ u.key[i].zval \in bm \/ u.key[i].zval.type = "array"
              \/ \A p \in Props : u.key[i].hash = KeyHash(u.key[i].zval, p),
         \/ br
         \/ /\ P!Ordered(u, IF m THEN {} ELSE Taken(cs, "remove"))
            /\ Apart(u, IF m THEN {} ELSE Taken(cs, "put"), bm)
  PROVE  Good(u, Edited(cs, m), bm, br)
<1>1. /\ Stacked(cs) /\ \A n \in DOMAIN cs : CallOK(t, cs[n])
      /\ \A n, k \in DOMAIN cs :
           Owning(cs[n]) /\ Owning(cs[k]) /\ cs[n].cur = cs[k].cur => n = k
      /\ Handed(t, cs) /\ HashesKept(t, bl)
  BY DEF Good, Handed
<1>2. ASSUME ~m, NEW n \in DOMAIN cs, Owning(cs[n])
      PROVE  cs[n].cur \in P!Live(u) /\ u.value[cs[n].cur] = Gone
  <2>1. PICK i : i = cs[n].cur
    OBVIOUS
  <2>2. i \in Taken(cs, cs[n].op)
    BY <1>2, <2>1, TakenIs
  <2>3. i \in L /\ t.value[i] = Gone
    BY <1>2, <2>2, TakenFacts
  <2> QED BY <1>2, <2>1, <2>3, CarriedOwned
<1>3. ASSUME NEW i \in P!Live(u), u.value[i] = Gone
      PROVE  \E n \in DOMAIN cs :
               cs[n].phase = "destructor" /\ (m \/ cs[n].freed \/ cs[n].cur = i)
  <2>1. i \in L
    BY <1>3
  <2> QED BY <1>1, <1>3, <2>1, CarriedDying
<1>4. HashesKept(u, bm)
  <2>1. ASSUME NEW i \in P!Live(u)
        PROVE  \/ u.key[i].zval \in bm \/ u.key[i].zval.type = "array"
               \/ \A p \in Props : u.key[i].hash = KeyHash(u.key[i].zval, p)
    BY <1>1, <2>1, CarriedHashes
  <2> QED BY <2>1 DEF HashesKept
<1> QED BY <1>1, <1>2, <1>3, <1>4, EditedGood

\* The end of a chain, for a put.
LEMMA PutMissHolds ==
  ASSUME IInv, PutMiss
  PROVE  IInv'
<1>1. PICK f \in Call : f = Top
  BY TopFacts DEF PutMiss, Running
<1>2. /\ fault = "none" /\ calls # << >> /\ f.phase = "walk" /\ f.cur = NIL /\ f.op = "put"
  BY <1>1 DEF PutMiss, Running
<1>3. /\ Good(table, calls, blurred, broken) /\ Len(calls) > 0 /\ f = calls[Len(calls)]
      /\ P!Held(table) /\ CallOK(table, f) /\ Outer = Outside(calls)
  BY <1>1, <1>2, TopFacts
<1>4. PICK k \in Stored : k = StoredAs(f) /\ k.zval = f.key /\ k.hash = f.hash
  <2>1. f.key \in Key /\ f.hash \in Hashes
    BY DEF Call
  <2>2. PICK k : k = [zval |-> f.key, hash |-> f.hash]
    OBVIOUS
  <2>3. k \in Stored /\ k.zval = f.key /\ k.hash = f.hash
    BY <2>1, <2>2 DEF Stored
  <2> QED BY <2>2, <2>3 DEF StoredAs
<1>5. PICK bl : bl = IF f.thrown \/ f.edited THEN blurred \union {f.key} ELSE blurred
  OBVIOUS
<1>6. PICK u : u = P!PutNew(table, k, "kept")
  OBVIOUS
<1>7. PICK m \in BOOLEAN : m = P!Full(table)
  BY DEF P!Full
<1>8. PICK cs : cs = Outside(calls)
  OBVIOUS
<1>9. /\ table' = u /\ u.capacity <= MaxCapacity /\ calls' = Edited(cs, m)
      /\ blurred' = bl /\ UNCHANGED <<props, broken, fault>>
  <2>1. P!PutNew(table, k, "kept") = H!PutNew(table, k, "kept") /\ P!Full(table) = H!Full(table)
    BY SameEdits, SameReads, Zenon
  <2> QED BY <1>1, <1>3, <1>4, <1>5, <1>6, <1>7, <1>8, <2>1 DEF PutMiss
<1>10. Good(table, cs, blurred, broken)
  BY <1>2, <1>3, <1>8, PopGood
<1>11. /\ P!Held(u) /\ P!AddedTo(u, table, u.next - 1, k, "kept")
       /\ P!Full(table) => P!Ordered(u, {})
       /\ ~P!Full(table) => \A D : D \subseteq P!Live(table) /\ P!Ordered(table, D) => P!Ordered(u, D)
  BY <1>3, <1>6, <1>9, Assumptions, P!PutNewHeld
<1>12. PICK e : e = u.next - 1
  OBVIOUS
<1>13. PICK L : L = P!Live(u) \ {e}
  OBVIOUS
<1>14. /\ e \in P!Live(u) /\ u.key[e] = k /\ u.value[e] = "kept"
       /\ ~m => P!Live(table) = L
  BY <1>7, <1>11, <1>12, <1>13 DEF P!AddedTo
<1>15. PICK src \in [L -> P!Live(table)] : Carried(u, table, L, src, m)
  BY <1>7, <1>11, <1>12, <1>13 DEF P!AddedTo, Carried
<1>16. blurred \subseteq bl /\ bl \subseteq Key
  BY <1>5 DEF IInv, Call
<1>17. ASSUME NEW i \in P!Live(u) \ L
       PROVE  /\ u.value[i] # Gone
              /\ \/ u.key[i].zval \in bl \/ u.key[i].zval.type = "array"
                 \/ \A p \in Props : u.key[i].hash = KeyHash(u.key[i].zval, p)
  <2>1. i = e
    BY <1>13, <1>17
  <2>2. f.thrown \/ f.key.type = "array" \/ \A p \in Props : f.hash = KeyHash(f.key, p)
    BY <1>3 DEF CallOK
  <2> QED BY <1>4, <1>5, <1>14, <2>1, <2>2 DEF Gone
<1>18. ~m => \A op : Taken(cs, op) \subseteq L
  BY <1>10, <1>14, TakenFacts
<1> DEFINE D == Taken(cs, "remove")
           G == Taken(cs, "put")
           F == IF m THEN {} ELSE G
<1>19. ASSUME ~broken PROVE P!Ordered(u, IF m THEN {} ELSE D)
  <2>1. P!Ordered(table, D)
    BY <1>10, <1>19 DEF Good, Intact
  <2>2. D \subseteq P!Live(table)
    BY <1>10, TakenFacts
  <2> HIDE DEF D
  <2> QED BY <1>7, <1>11, <2>1, <2>2
<1>20. ASSUME ~broken, NEW j \in L, j \in Kept(u, F), u.key[j].zval = f.key
       PROVE  f.key \in bl \/ (f.key.type = "array" /\ u.key[j].hash # f.hash)
  <2>1. CASE f.thrown \/ f.edited
    BY <1>5, <2>1
  <2>2. CASE ~f.thrown /\ ~f.edited
    <3>1. PICK s : /\ s \in P!Live(table) /\ s = src[j] /\ u.key[j] = table.key[s]
                   /\ u.value[j] = table.value[s]
      BY <1>15, <1>20 DEF Carried
    <3>2. s \notin D
      <4>1. CASE u.value[j] # Gone
        BY <1>10, <3>1, <4>1, TakenFacts
      <4>2. CASE ~m /\ j \in G
        <5>1. s = j
          BY <1>15, <1>20, <3>1, <4>2 DEF Carried
        <5> QED BY <1>10, <4>2, <5>1, TakenFacts
      <4> QED BY <1>20, <4>1, <4>2 DEF Kept
    <3>3. D = Taken(calls, "remove")
      <4>1. calls \in Seq(Call)
        BY <1>3 DEF Good, Stacked
      <4>2. ~Owning(f)
        BY <1>2 DEF Owning
      <4>3. ASSUME NEW i \in D PROVE i \in Taken(calls, "remove")
        <5>1. PICK n \in DOMAIN cs : Owning(cs[n]) /\ cs[n].op = "remove" /\ cs[n].cur = i
          BY <4>3, TakenIs
        <5>2. n \in DOMAIN calls /\ cs[n] = calls[n]
          BY <1>3, <1>8, <4>1, OutsideIs
        <5> QED BY <5>1, <5>2, TakenIs
      <4>4. ASSUME NEW i \in Taken(calls, "remove") PROVE i \in D
        <5>1. PICK n \in DOMAIN calls :
                Owning(calls[n]) /\ calls[n].op = "remove" /\ calls[n].cur = i
          BY <4>4, TakenIs
        <5>2. n # Len(calls)
          BY <1>3, <4>2, <5>1
        <5>3. n \in DOMAIN cs /\ cs[n] = calls[n]
          BY <1>3, <1>8, <4>1, <5>2, OutsideIs
        <5> QED BY <5>1, <5>3, TakenIs
      <4> QED BY ONLY <4>3, <4>4, Zenon
    <3>4. WalkOK(table, f, Taken(calls, "remove"))
      BY <1>1, <1>2, <1>20, <2>2, TopWalks
    <3>5. table.key[s] # [zval |-> f.key, hash |-> f.hash]
      BY <1>2, <2>2, <3>1, <3>2, <3>3, <3>4 DEF WalkOK
    <3>6. table.key[s] \in Stored
      BY <1>3, <3>1, TableFacts
    <3>7. table.key[s].zval = f.key /\ table.key[s].hash # f.hash
      BY <1>20, <3>1, <3>5, <3>6 DEF Stored
    <3>8. f.key \in blurred \/ f.key.type = "array"
      <4>1. \/ f.key \in blurred \/ f.key.type = "array"
            \/ \A p \in Props : table.key[s].hash = KeyHash(f.key, p)
        <5>1. HashesKept(table, blurred)
          BY <1>3 DEF Good
        <5> QED BY <3>1, <3>7, <5>1 DEF HashesKept
      <4>2. f.key.type = "array" \/ \A p \in Props : f.hash = KeyHash(f.key, p)
        BY <1>3, <2>2 DEF CallOK
      <4>3. props \in Props
        BY DEF IInv
      <4> QED BY <3>7, <4>1, <4>2, <4>3
    <3> QED BY <1>16, <3>1, <3>7, <3>8
  <2> QED BY <2>1, <2>2
<1>21. ASSUME ~broken PROVE Apart(u, F, bl)
  <2>1. Apart(table, G, blurred)
    BY <1>10, <1>21 DEF Good, Intact
  <2>2. F \subseteq G /\ (m => F = {}) /\ F \subseteq L
    BY <1>18
  <2>3. ASSUME NEW i \in Kept(u, F), NEW j \in Kept(u, F), i # j,
               u.key[i].zval = u.key[j].zval
        PROVE  \/ u.key[i].zval \in bl
               \/ u.key[i].zval.type = "array" /\ u.key[i].hash # u.key[j].hash
    <3>1. (i = e \/ i \in L) /\ (j = e \/ j \in L)
      BY <1>13, <2>2, <2>3 DEF Kept
    <3>2. CASE i = e
      BY <1>4, <1>14, <1>20, <1>21, <2>3, <3>1, <3>2
    <3>3. CASE j = e
      BY <1>4, <1>14, <1>20, <1>21, <2>3, <3>1, <3>3
    <3>4. CASE i \in L /\ j \in L
      <4> HIDE DEF F, G
      <4> QED BY <1>15, <1>16, <2>1, <2>2, <2>3, <3>4, CarriedApart
    <3> QED BY <3>1, <3>2, <3>3, <3>4
  <2> QED BY <2>3 DEF Apart
<1>22. Good(u, Edited(cs, m), bl, broken)
  <2>1. L \subseteq P!Live(u)
    BY <1>13
  <2> QED BY <1>10, <1>11, <1>15, <1>16, <1>17, <1>18, <1>19, <1>21, <2>1, CarriedGood
<1> QED BY <1>2, <1>9, <1>16, <1>22, GoodHolds DEF IInv

\* A removal deletes its bucket: those that others have in their hands stay.
LEMMA EndGood ==
  ASSUME NEW t, NEW ds, NEW bl, NEW br, Good(t, ds, bl, br), Len(ds) > 0,
         NEW f, f = ds[Len(ds)], Owning(f), f.op = "remove", NEW c, c = f.cur,
         NEW cs, cs = Outside(ds), NEW m \in BOOLEAN, NEW u, P!Held(u),
         NEW src \in [P!Live(u) -> P!Live(t) \ {c}], Carried(u, t, P!Live(u), src, m),
         ~m => P!Live(u) = P!Live(t) \ {c},
         m => P!Ordered(u, {}),
         ~m => \A D : D \subseteq P!Live(t) /\ c \in D /\ P!Ordered(t, D)
                        => P!Ordered(u, D \ {c})
  PROVE  Good(u, Edited(cs, m), bl, br)
<1>1. ds \in Seq(Call) /\ Len(ds) > 0
  BY DEF Good, Stacked
<1>2. /\ cs \in Seq(Call) /\ Len(cs) = Len(ds) - 1 /\ Len(ds) \in Nat
      /\ DOMAIN cs = 1 .. Len(ds) - 1 /\ DOMAIN ds = 1 .. Len(ds)
      /\ \A n \in DOMAIN cs : cs[n] = ds[n] /\ n \in DOMAIN ds /\ n # Len(ds) /\ n \in Nat
      /\ \A n \in DOMAIN ds : n = Len(ds) \/ n \in DOMAIN cs
      /\ Len(ds) \in DOMAIN ds
  BY <1>1, OutsideIs
<1>3. \A n \in DOMAIN ds : CallOK(t, ds[n])
  BY DEF Good
<1>4. Stacked(cs)
  <2>1. \A n \in 1 .. Len(cs) - 1 : n \in DOMAIN cs
    BY <1>2
  <2>2. \A n \in DOMAIN cs : ds[n].phase \in {"equals", "destructor"}
    BY <1>2 DEF Good, Stacked
  <2>3. Len(cs) <= MaxDepth
    BY <1>2, BoundAssumption DEF Good, Stacked
  <2> QED BY <1>2, <2>1, <2>2, <2>3 DEF Stacked
<1>5. \A n \in DOMAIN cs : CallOK(t, cs[n])
  BY <1>2, <1>3
<1>6. \A n, k \in DOMAIN cs : Owning(cs[n]) /\ Owning(cs[k]) /\ cs[n].cur = cs[k].cur => n = k
  BY <1>2 DEF Good, Handed
<1>7. \A n \in DOMAIN cs : Owning(cs[n]) => cs[n].cur # c
  BY <1>2 DEF Good, Handed
<1>8. c \in P!Live(t) /\ f.phase = "destructor" /\ ~f.freed
  BY <1>2, <1>3 DEF CallOK, Owning
<1>9. ASSUME ~m, NEW n \in DOMAIN cs, Owning(cs[n])
      PROVE  cs[n].cur \in P!Live(u) /\ u.value[cs[n].cur] = Gone
  <2>1. PICK i : i = cs[n].cur
    OBVIOUS
  <2>2. i \in P!Live(t) /\ t.value[i] = Gone /\ i # c
    BY <1>5, <1>7, <1>9, <2>1 DEF CallOK
  <2>3. i \in P!Live(u)
    BY <1>9, <2>2
  <2> QED BY <1>9, <2>1, <2>2, <2>3, CarriedOwned
<1>10. ASSUME NEW i \in P!Live(u), u.value[i] = Gone
       PROVE  \E n \in DOMAIN cs :
                cs[n].phase = "destructor" /\ (m \/ cs[n].freed \/ cs[n].cur = i)
  <2>1. PICK s : s = src[i] /\ s \in P!Live(t) /\ s # c /\ t.value[s] = Gone
    BY <1>10 DEF Carried
  <2>2. PICK n \in DOMAIN ds : ds[n].phase = "destructor" /\ (ds[n].freed \/ ds[n].cur = s)
    BY <2>1 DEF Good, Handed
  <2>3. n # Len(ds)
    BY <1>8, <2>1, <2>2
  <2>4. n \in DOMAIN cs /\ cs[n] = ds[n]
    BY <1>2, <2>3
  <2>5. m \/ s = i
    BY <1>10, <2>1 DEF Carried
  <2> QED BY <2>2, <2>4, <2>5
<1>11. HashesKept(u, bl)
  <2>1. PICK bm : bm = bl
    OBVIOUS
  <2>2. HashesKept(t, bl) /\ bl \subseteq bm
    BY <2>1 DEF Good
  <2>3. ASSUME NEW i \in P!Live(u)
        PROVE  \/ u.key[i].zval \in bm \/ u.key[i].zval.type = "array"
               \/ \A p \in Props : u.key[i].hash = KeyHash(u.key[i].zval, p)
    BY <2>2, <2>3, CarriedHashes
  <2> QED BY <2>1, <2>3 DEF HashesKept
<1>12. ASSUME ~br PROVE P!Ordered(u, IF m THEN {} ELSE Taken(cs, "remove"))
  <2>1. PICK D : D = Taken(ds, "remove")
    OBVIOUS
  <2>2. P!Ordered(t, D) /\ D \subseteq P!Live(t)
    BY <1>12, <2>1, TakenFacts DEF Good, Intact
  <2>3. c \in D
    BY <1>2, <2>1, TakenIs
  <2>4. Taken(cs, "remove") = D \ {c}
    <3>1. ASSUME NEW i \in Taken(cs, "remove") PROVE i \in D \ {c}
      <4>1. PICK n \in DOMAIN cs : Owning(cs[n]) /\ cs[n].op = "remove" /\ cs[n].cur = i
        BY <3>1, TakenIs
      <4>2. n \in DOMAIN ds /\ cs[n] = ds[n] /\ i # c
        BY <1>2, <1>7, <4>1
      <4>3. i \in Taken(ds, "remove")
        BY <4>1, <4>2, TakenIs
      <4> QED BY <2>1, <4>2, <4>3
    <3>2. ASSUME NEW i \in D \ {c} PROVE i \in Taken(cs, "remove")
      <4>1. PICK n \in DOMAIN ds : Owning(ds[n]) /\ ds[n].op = "remove" /\ ds[n].cur = i
        BY <2>1, <3>2, TakenIs
      <4>2. n # Len(ds)
        BY <3>2, <4>1
      <4>3. n \in DOMAIN cs /\ cs[n] = ds[n]
        BY <1>2, <4>2
      <4> QED BY <4>1, <4>3, TakenIs
    <3> QED BY ONLY <3>1, <3>2, Zenon
  <2> QED BY <2>2, <2>3, <2>4
<1>13. ASSUME ~br PROVE Apart(u, IF m THEN {} ELSE Taken(cs, "put"), bl)
  <2> DEFINE G == Taken(ds, "put")
             F == IF m THEN {} ELSE Taken(cs, "put")
  <2>0. PICK L : L = P!Live(u) /\ Carried(u, t, L, src, m)
    OBVIOUS
  <2>6. PICK sr : Carried(u, t, L, sr, m)
    BY <2>0
  <2>1. Apart(t, G, bl)
    BY <1>13 DEF Good, Intact
  <2>2. ASSUME ~m, NEW i \in Taken(cs, "put") PROVE i \in G /\ i \in L
    <3>1. PICK n \in DOMAIN cs : Owning(cs[n]) /\ cs[n].op = "put" /\ cs[n].cur = i
      BY <2>2, TakenIs
    <3>2. n \in DOMAIN ds /\ cs[n] = ds[n]
      BY <1>2
    <3> QED BY <1>9, <2>0, <2>2, <3>1, <3>2, TakenIs
  <2>3. F \subseteq G /\ (m => F = {}) /\ F \subseteq L
    BY <2>2
  <2> HIDE DEF F, G
  <2>4. ASSUME NEW i \in Kept(u, F), NEW j \in Kept(u, F), i # j,
               u.key[i].zval = u.key[j].zval
        PROVE  \/ u.key[i].zval \in bl
               \/ u.key[i].zval.type = "array" /\ u.key[i].hash # u.key[j].hash
    <3>1. i \in L /\ j \in L
      BY <2>0, <2>3, <2>4 DEF Kept
    <3>2. PICK bm : bm = bl
      OBVIOUS
    <3>3. /\ bl \subseteq bm /\ i \in Kept(u, F) /\ j \in Kept(u, F) /\ i # j
          /\ u.key[i].zval = u.key[j].zval
      BY <2>4, <3>2
    <3>4. \/ u.key[i].zval \in bm
          \/ u.key[i].zval.type = "array" /\ u.key[i].hash # u.key[j].hash
      BY ONLY <2>1, <2>3, <2>6, <3>1, <3>3, CarriedApart
    <3> QED BY <3>2, <3>4
  <2>5. Apart(u, F, bl)
    BY <2>4 DEF Apart
  <2> QED BY <2>5 DEF F
<1>14. \/ br
       \/ /\ P!Ordered(u, IF m THEN {} ELSE Taken(cs, "remove"))
          /\ Apart(u, IF m THEN {} ELSE Taken(cs, "put"), bl)
  BY <1>12, <1>13, Zenon
<1>15. ~m => \A n \in DOMAIN cs :
         Owning(cs[n]) => cs[n].cur \in P!Live(u) /\ u.value[cs[n].cur] = Gone
  BY <1>9
<1>16. \A i \in P!Live(u) : u.value[i] = Gone =>
         \E n \in DOMAIN cs :
           cs[n].phase = "destructor" /\ (m \/ cs[n].freed \/ cs[n].cur = i)
  BY <1>10
<1>17. P!Held(u) /\ m \in BOOLEAN
  OBVIOUS
<1> QED BY ONLY <1>4, <1>5, <1>6, <1>11, <1>14, <1>15, <1>16, <1>17, EditedGood

\* The rest of a removal.
LEMMA RemoveEndsHolds ==
  ASSUME IInv, RemoveEnds
  PROVE  IInv'
<1>1. CASE GoneFromUnder
  BY <1>1, DestructorFacts, FailsOrHolds DEF RemoveEnds, Faults
<1>2. CASE ~GoneFromUnder
  <2>1. PICK f \in Call : f = Top
    BY DestructorFacts, TopFacts DEF RemoveEnds
  <2>2. /\ fault = "none" /\ calls # << >> /\ Owning(f) /\ f.op = "remove"
        /\ f.cur \in P!Live(table)
    BY <1>2, <2>1, DestructorFacts DEF RemoveEnds, Running
  <2>3. /\ Good(table, calls, blurred, broken) /\ Len(calls) > 0 /\ f = calls[Len(calls)]
        /\ P!Held(table) /\ Outer = Outside(calls) /\ calls \in Seq(Call)
    BY <2>1, <2>2, TopFacts
  <2>4. PICK c : c = f.cur
    OBVIOUS
  <2>5. PICK w : w = P!DeleteBucket(table, c, c)
    OBVIOUS
  <2>6. PICK u : u = P!AutoTruncate(w)
    OBVIOUS
  <2>7. PICK m \in BOOLEAN : m = P!Truncates(w)
    BY DEF P!Truncates
  <2>8. PICK cs : cs = Outside(calls)
    OBVIOUS
  <2>9. /\ table' = u /\ calls' = Edited(cs, m)
        /\ UNCHANGED <<props, blurred, broken, fault>>
    <3>1. H!DeleteBucket(table, c, c) = w
      BY <2>5, SameEdits, Zenon
    <3>2. H!AutoTruncate(w) = u /\ H!Truncates(w) = m
      BY <2>6, <2>7, SameEdits, SameReads, Zenon
    <3> QED BY <1>2, <2>1, <2>3, <2>4, <2>8, <3>1, <3>2, Zenon DEF RemoveEnds
  <2>10. c \in P!Live(table)
    BY <2>2, <2>4
  <2>11. /\ P!Held(u) /\ P!DroppedFrom(u, table, c, P!Truncates(w))
         /\ P!Truncates(w) => P!Ordered(u, {})
         /\ ~P!Truncates(w) =>
              \A D : D \subseteq P!Live(table) /\ c \in D /\ P!Ordered(table, D)
                       => P!Ordered(u, D \ {c})
    BY <2>3, <2>5, <2>6, <2>10, Assumptions, P!DeleteHeld
  <2>12. PICK src \in [P!Live(u) -> P!Live(table) \ {c}] :
           Carried(u, table, P!Live(u), src, m)
    BY <2>7, <2>11 DEF P!DroppedFrom, Carried
  <2>13. ~m => P!Live(u) = P!Live(table) \ {c}
    BY <2>7, <2>11 DEF P!DroppedFrom
  <2>14. Good(u, Edited(cs, m), blurred, broken)
    BY <2>2, <2>3, <2>4, <2>7, <2>8, <2>10, <2>11, <2>12, <2>13, EndGood
  <2> QED BY <2>2, <2>9, <2>14, GoodHolds DEF IInv
<1> QED BY <1>1, <1>2

\* clear(): nobody has a dying value in his hands, or it would fail.
LEMMA ClearHolds ==
  ASSUME IInv, Clear
  PROVE  IInv'
<1>1. fault = "none" /\ MayCall /\ table.size > 0 /\ P!Held(table)
  BY DEF Clear, IInv, Good
<1>2. H!Live(table) = P!Live(table)
  BY SameReads
<1>3. CASE \E i \in P!Live(table) : table.value[i] = Gone
  <2>1. Disturbed(calls)
    BY <1>3 DEF IInv, Good, Handed, Disturbed
  <2>2. Fails("twice")
    BY <1>2, <1>3 DEF Clear
  <2> QED BY <2>1, <2>2, FailsHolds DEF Faults
<1>4. CASE \A i \in P!Live(table) : table.value[i] # Gone
  <2>1. PICK cs : cs = Called
    OBVIOUS
  <2>2. Good(table, cs, blurred, broken)
    <3>1. Good(table, Called, blurred, broken)
      BY <1>1, CalledGood
    <3> QED BY ONLY <2>1, <3>1
  <2>3. PICK m \in BOOLEAN : m = (table.capacity > MinCapacity)
    <3>1. PICK a, b \in Nat : a = table.capacity /\ b = MinCapacity
      BY <1>1, TableFacts, CapacityAssumption
    <3>2. (a > b) \in BOOLEAN
      OBVIOUS
    <3> QED BY ONLY <3>1, <3>2, Zenon
  <2>4. PICK u : u = P!ClearTable(table)
    OBVIOUS
  <2>5. /\ table' = u /\ calls' = Edited(cs, m) /\ blurred' = {} /\ broken' = FALSE
        /\ UNCHANGED <<props, fault>>
    <3>1. H!ClearTable(table) = u
      BY <2>4, SameEdits, Zenon
    <3> QED BY <1>2, <1>4, <2>1, <2>3, <3>1 DEF Clear
  <2>6. P!Held(u) /\ P!Ordered(u, {}) /\ P!Live(u) = {}
    BY <1>1, <2>4, Assumptions, P!ClearHeld
  <2>7. \A n \in DOMAIN cs : ~Owning(cs[n])
    BY <1>4, <2>2 DEF Good, CallOK
  <2>8. Taken(cs, "remove") = {} /\ Taken(cs, "put") = {}
    BY <2>7, TakenIs
  <2>9. Stacked(cs) /\ \A n \in DOMAIN cs : CallOK(table, cs[n])
    BY <2>2 DEF Good
  <2>10. HashesKept(u, {}) /\ Apart(u, {}, {})
    BY <2>6 DEF HashesKept, Apart, Kept
  <2>11. Good(u, Edited(cs, m), {}, FALSE)
    <3>1. \/ FALSE
          \/ /\ P!Ordered(u, IF m THEN {} ELSE Taken(cs, "remove"))
             /\ Apart(u, IF m THEN {} ELSE Taken(cs, "put"), {})
      BY <2>6, <2>8, <2>10
    <3>2. /\ \A n, k \in DOMAIN cs :
               Owning(cs[n]) /\ Owning(cs[k]) /\ cs[n].cur = cs[k].cur => n = k
          /\ ~m => \A n \in DOMAIN cs :
               Owning(cs[n]) => cs[n].cur \in P!Live(u) /\ u.value[cs[n].cur] = Gone
          /\ \A i \in P!Live(u) : u.value[i] = Gone =>
               \E n \in DOMAIN cs :
                 cs[n].phase = "destructor" /\ (m \/ cs[n].freed \/ cs[n].cur = i)
      BY <2>6, <2>7
    <3> QED BY <2>6, <2>9, <2>10, <3>1, <3>2, EditedGood
  <2> QED BY <1>1, <2>5, <2>11, GoodHolds DEF IInv
<1> QED BY <1>3, <1>4

LEMMA InitHolds == Init => IInv
<1> SUFFICES ASSUME Init PROVE IInv
  OBVIOUS
<1>1. MinCapacity \in 1 .. MaxCapacity
  BY CapacityAssumption
<1>2. PICK t : t = P!Fresh(MinCapacity)
  OBVIOUS
<1>3. P!Held(t) /\ P!Ordered(t, {}) /\ P!Live(t) = {}
  BY <1>1, <1>2, Assumptions, P!FreshHeld
<1>4. table = t
  BY <1>2, SameEdits, Zenon DEF Init
<1>5. /\ calls = << >> /\ blurred = {} /\ broken = FALSE /\ fault = "none"
      /\ props \in Props
  BY DEF Init
<1>6. Stacked(<< >>) /\ DOMAIN << >> = {} /\ Len(<< >>) = 0
  BY BoundAssumption DEF Stacked
<1>7. Taken(<< >>, "remove") = {} /\ Taken(<< >>, "put") = {}
  BY <1>6, TakenIs
<1>8. /\ HashesKept(t, {}) /\ Apart(t, {}, {}) /\ Handed(t, << >>)
  BY <1>3, <1>6 DEF HashesKept, Apart, Kept, Handed
<1>9. Intact(t, << >>, {})
  BY <1>3, <1>6, <1>7, <1>8 DEF Intact
<1>10. Good(t, << >>, {}, FALSE)
  BY <1>3, <1>6, <1>8, <1>9 DEF Good
<1> QED BY <1>4, <1>5, <1>10 DEF IInv

LEMMA NextHolds ==
  ASSUME IInv, [Next]_vars
  PROVE  IInv'
<1>1. ASSUME NEW op \in Ops, NEW k \in Key, Begin(op, k, FALSE) PROVE IInv'
  BY <1>1, BeginHolds
<1>2. ASSUME NEW k \in Key, Begin("put", k, TRUE) PROVE IInv'
  BY <1>2, BeginHolds DEF Ops
<1>3. CASE Compare
  BY <1>3, CompareHolds
<1>4. ASSUME NEW throws \in BOOLEAN, EqualsFails(throws) PROVE IInv'
  BY <1>4, EqualsFailsHolds
<1>5. CASE Miss
  BY <1>5, MissHolds
<1>6. CASE PutMiss
  BY <1>6, PutMissHolds
<1>7. CASE GetHit
  BY <1>7, GetHitHolds
<1>8. CASE PutHit
  BY <1>8, PutHitHolds
<1>9. CASE PutStores
  BY <1>9, PutStoresHolds
<1>10. CASE RemoveHit
  BY <1>10, RemoveHitHolds
<1>11. CASE RemoveEnds
  BY <1>11, RemoveEndsHolds
<1>12. CASE Clear
  BY <1>12, ClearHolds
<1>13. ASSUME NEW p \in Props, Write(p) PROVE IInv'
  BY <1>13 DEF Write, IInv
<1>14. CASE Stopped \/ UNCHANGED vars
  BY <1>14 DEF Stopped, vars, IInv
<1> QED BY <1>1, <1>2, <1>3, <1>4, <1>5, <1>6, <1>7, <1>8, <1>9, <1>10, <1>11, <1>12,
           <1>13, <1>14 DEF Next

-----------------------------------------------------------------------------
(* The theorems.                                                           *)

LEMMA Invariance == Spec => []IInv
<1>1. IInv /\ [Next]_vars => IInv'
  BY NextHolds
<1> QED BY InitHolds, <1>1, PTL DEF Spec

\* What UserKeys says of removals under way, in terms of the invariant.
LEMMA DoomedIsTaken == Doomed = Taken(calls, "remove")
BY Zenon DEF Doomed, Owners, Taken, Owning

\* Unless a removal has broken them, the chains are complete and links descend.
LEMMA OrderedChains ==
  ASSUME P!Held(table), NEW D, D = Doomed, P!Ordered(table, D)
  PROVE  LinksDescend /\ ChainsComplete
<1>1. /\ P!NIL = NIL
      /\ \A s, n : H!Colliding(table, s, n) = P!Colliding(table, s, n)
      /\ \A k : H!Slot(table, k) = P!Slot(table, k)
      /\ H!Live(table) = P!Live(table)
  BY SameReads
<1>2. LinksDescend
  BY <1>1 DEF P!Ordered, P!Descends, LinksDescend
<1>3. \A S, l : S \subseteq Nat /\ P!IsLatest(l, S) => l = Latest(S)
  <2> SUFFICES ASSUME NEW S, NEW l, S \subseteq Nat, P!IsLatest(l, S) PROVE l = Latest(S)
    OBVIOUS
  <2>1. CASE S = {}
    BY <1>1, <2>1 DEF P!IsLatest, Latest
  <2>2. CASE S # {}
    <3>1. l \in S /\ \A j \in S : j <= l
      BY <2>2 DEF P!IsLatest
    <3>2. \A k \in S : (\A j \in S : j <= k) => k = l
      BY <3>1
    <3> QED BY <2>2, <3>1, <3>2 DEF Latest
  <2> QED BY <2>1, <2>2
<1>4. \A s, n : P!Colliding(table, s, n) \ D \subseteq Nat
  BY TableFacts DEF P!Colliding
<1>5. /\ \A s \in 0 .. table.capacity - 1 :
           P!IsLatest(table.lookup[s], P!Colliding(table, s, table.next) \ D)
      /\ \A i \in P!Live(table) \ D :
           P!IsLatest(table.link[i], P!Colliding(table, P!Slot(table, table.key[i]), i) \ D)
  BY DEF P!Ordered, P!ChainedBut
<1>6. \A s \in 0 .. table.capacity - 1 :
        table.lookup[s] = Latest(P!Colliding(table, s, table.next) \ D)
  BY <1>3, <1>4, <1>5
<1>7. \A i \in P!Live(table) \ D :
        table.link[i] = Latest(P!Colliding(table, P!Slot(table, table.key[i]), i) \ D)
  BY <1>3, <1>4, <1>5
<1>8. ChainsComplete
  BY <1>1, <1>6, <1>7 DEF ChainsComplete
<1> QED BY <1>2, <1>8

\* Whatever the keys throw and whatever they call, size counts the live buckets, the
\* table stays in its buffer, the chains stay complete but for what removals from an
\* edited table break, and no call meets what is gone unless the table was edited
\* under it or a destructor runs (ds_htable.c:359-385, 702-734, 818-876).
THEOREM UserCodeKeepsTable == Spec => []TableSound
<1>1. IInv => TableSound
  <2> SUFFICES ASSUME IInv PROVE TableSound
    OBVIOUS
  <2>1. P!Held(table) /\ calls \in Seq(Call) /\ Len(calls) <= MaxDepth
    BY DEF IInv, Good, Stacked
  <2>2. P!TableTypeOK(table) /\ P!CountsLive(table) /\ table.next <= table.capacity
    BY <2>1 DEF P!Held
  <2>3. H!TableTypeOK(table) /\ H!CountsLive(table)
    BY <2>2, SameReads
  <2>4. ASSUME ~broken PROVE LinksDescend /\ ChainsComplete
    <3>1. P!Ordered(table, Taken(calls, "remove"))
      BY <2>4 DEF IInv, Good, Intact
    <3> QED BY <2>1, <3>1, DoomedIsTaken, OrderedChains
  <2> QED BY <2>1, <2>2, <2>3, <2>4 DEF TableSound, IInv, Disturbed
<1> QED BY Invariance, <1>1, PTL

\* Buckets have equal keys only for what an exception, an edit, a broken chain or a
\* changed array explains (ds_htable.c:239-318, 702-718).
THEOREM DuplicatesHaveReasons == Spec => []DuplicatesExplained
<1>1. IInv => DuplicatesExplained
  <2> SUFFICES ASSUME IInv, ~broken PROVE DuplicatesExplained
    BY DEF DuplicatesExplained
  <2>1. Apart(table, Taken(calls, "put"), blurred)
    BY DEF IInv, Good, Intact
  <2>2. Whole \subseteq Kept(table, Taken(calls, "put"))
    BY SameReads DEF Whole, Kept
  <2> QED BY <2>1, <2>2 DEF Apart, DuplicatesExplained
<1> QED BY Invariance, <1>1, PTL

\* A key that is in the table is missed only for what an exception, an edit, a broken
\* chain or a changed array explains (ds_htable.c:239-259, 359-385, 818-876).
THEOREM MissesHaveReasons == Spec => MissesExplained
<1> DEFINE M ==
      Miss => \/ Top.thrown \/ Top.edited
              \/ broken \/ Top.key \in blurred
              \/ \A i \in Whole :
                   table.key[i].zval = Top.key =>
                     Top.key.type = "array" /\ table.key[i].hash # Top.hash
<1>1. IInv => M
  <2> SUFFICES ASSUME IInv, Miss, ~Top.thrown, ~Top.edited, ~broken, Top.key \notin blurred,
                      NEW i \in Whole, table.key[i].zval = Top.key
               PROVE  Top.key.type = "array" /\ table.key[i].hash # Top.hash
    OBVIOUS
  <2>1. PICK f \in Call : f = Top
    BY TopFacts DEF Miss, Running
  <2>2. calls # << >> /\ f.phase = "walk" /\ f.cur = NIL
    BY <2>1 DEF Miss, Running
  <2>3. /\ WalkOK(table, f, Taken(calls, "remove"))
        /\ Good(table, calls, blurred, broken) /\ P!Held(table) /\ CallOK(table, f)
    BY <2>1, <2>2, TopWalks, TopFacts
  <2>4. i \in P!Live(table) /\ i \notin Taken(calls, "remove")
    BY <2>3, TakenFacts, SameReads DEF Whole
  <2>5. table.key[i] # [zval |-> f.key, hash |-> f.hash]
    BY <2>1, <2>2, <2>3, <2>4 DEF WalkOK
  <2>6. table.key[i] \in Stored
    BY <2>3, <2>4, TableFacts
  <2>7. table.key[i].hash # f.hash
    BY <2>1, <2>5, <2>6 DEF Stored
  <2>8. \/ f.key \in blurred \/ f.key.type = "array"
        \/ \A p \in Props : table.key[i].hash = KeyHash(f.key, p)
    <3>1. HashesKept(table, blurred)
      BY <2>3 DEF Good
    <3> QED BY <2>1, <2>4, <3>1 DEF HashesKept
  <2>9. f.key.type = "array" \/ \A p \in Props : f.hash = KeyHash(f.key, p)
    BY <2>1, <2>3 DEF CallOK
  <2>10. props \in Props
    BY DEF IInv
  <2> QED BY <2>1, <2>7, <2>8, <2>9, <2>10
<1>2. IInv => [M]_vars
  BY <1>1
<1> QED BY Invariance, <1>2, PTL DEF MissesExplained

-----------------------------------------------------------------------------
(* What the table takes for the hash of a key and for the same key: keys   *)
(* that are identical hash alike, for all keys but those that the property *)
(* names.  That a chain leads to every key of its slot is of use only then. *)

LEMMA EqualDoublesHashAlike ==
  ASSUME NEW d, NEW e, DoublesEqual(d, e)
  PROVE  DoubleHash(d) = DoubleHash(e)
<1>1. d = e \/ (d = Zero /\ e = NegZero) \/ (d = NegZero /\ e = Zero)
  BY DEF DoublesEqual
<1> QED BY <1>1 DEF DoubleHash

\* Keys that are not arrays or objects need no look at the state of objects.
LEMMA SameElementsHashAlike ==
  ASSUME NEW y, NEW z, SameElement(y, z)
  PROVE  ScalarHash(y) = ScalarHash(z)
<1>1. CASE y.type = "double"
  <2>1. DoubleHash(y.of) = DoubleHash(z.of) /\ z.type = "double"
    BY <1>1, EqualDoublesHashAlike DEF SameElement
  <2> QED BY <1>1, <2>1 DEF ScalarHash
<1>2. CASE y.type # "double"
  BY <1>2 DEF SameElement
<1> QED BY <1>1, <1>2

LEMMA SameArraysHashAlike ==
  ASSUME NEW b \in Zval, NEW z \in Zval, NEW p, NEW q,
         b.type = "array", z.type = "array", SameArray(b.of, z.of),
         ~ZerosDiffer(b, z), ~ObjectsDiffer(b, p, q)
  PROVE  ArrayHash(b.of, p) = ArrayHash(z.of, q)
<1>1. DOMAIN b.of = DOMAIN z.of
  BY DEF SameArray
<1>2. ASSUME NEW i \in DOMAIN b.of PROVE b.of[i] = z.of[i]
  <2>1. CASE b.of = z.of
    BY <2>1
  <2>2. CASE SameElement(b.of[i], z.of[i]) /\ b.of[i].type = "double"
    <3>1. b.of[i].of = z.of[i].of
      BY <2>2 DEF SameElement, DoublesEqual, ZerosDiffer
    <3>2. WellFormed(b.of[i]) /\ WellFormed(z.of[i])
      BY <1>1, ZvalAssumption
    <3> QED BY <2>2, <3>1, <3>2 DEF SameElement, WellFormed
  <2>3. CASE SameElement(b.of[i], z.of[i]) /\ b.of[i].type # "double"
    BY <2>3 DEF SameElement
  <2> QED BY <2>1, <2>2, <2>3 DEF SameArray
<1>3. ASSUME NEW i \in DOMAIN b.of PROVE Serialized(b.of[i], p) = Serialized(z.of[i], q)
  BY <1>2 DEF Serialized, ObjectsDiffer
<1>4. [i \in DOMAIN b.of |-> Serialized(b.of[i], p)]
        = [i \in DOMAIN z.of |-> Serialized(z.of[i], q)]
  BY <1>1, <1>3
<1> QED BY <1>4 DEF ArrayHash

\* Whatever the keys, the strings' hashes and what the keys' own methods answer:
\* a key that is identical to a bucket's has its hash, but for keyed objects whose
\* methods disagree and arrays with zeros of different signs or with objects that
\* have changed (ds_htable.c:196-358).
THEOREM HashesFollowIdentity == IdenticalKeysHashAlike
<1> SUFFICES ASSUME NEW b \in Zval, NEW z \in Zval, NEW p \in Props, NEW q \in Props,
                    KeyIdentical(b, z)
             PROVE  \/ KeyHash(b, p) = KeyHash(z, q)
                    \/ b.type = "object" /\ b.of \in Keyed /\ ~HashesAgree(b, z)
                    \/ b.type = "array" /\ (ZerosDiffer(b, z) \/ ObjectsDiffer(b, p, q))
  BY DEF IdenticalKeysHashAlike
<1>1. CASE b.type = "object" /\ b.of \in Keyed
  <2>1. z.type = "object" /\ ClassOf(b.of) = ClassOf(z.of)
    BY <1>1 DEF KeyIdentical, UserEquals
  <2>2. z.of \in Keyed
    BY <1>1, <2>1, ClassAssumption
  <2>3. CASE HashesAgree(b, z)
    <3>1. ObjectHash(b.of) = ObjectHash(z.of)
      BY <1>1, <2>2, <2>3, SameElementsHashAlike DEF HashesAgree, ObjectHash
    <3> QED BY <1>1, <2>1, <3>1 DEF KeyHash
  <2> QED BY <1>1, <2>3
<1>2. CASE b.type = "array"
  <2>1. z.type = "array" /\ SameArray(b.of, z.of)
    BY <1>2 DEF KeyIdentical
  <2>2. KeyHash(b, p) = ArrayHash(b.of, p) /\ KeyHash(z, q) = ArrayHash(z.of, q)
    BY <1>2, <2>1 DEF KeyHash
  <2> QED BY <1>2, <2>1, <2>2, SameArraysHashAlike
<1>3. CASE b.type # "array" /\ ~(b.type = "object" /\ b.of \in Keyed)
  <2>1. SameElement(b, z)
    BY <1>3 DEF KeyIdentical
  <2>2. ScalarHash(b) = ScalarHash(z) /\ z.type = b.type
    BY <2>1, SameElementsHashAlike DEF SameElement
  <2>3. b.type \in {"object", "resource"} => b = z
    BY <2>1 DEF SameElement
  <2> QED BY <1>3, <2>2, <2>3 DEF KeyHash
<1> QED BY <1>1, <1>2, <1>3

=============================================================================
