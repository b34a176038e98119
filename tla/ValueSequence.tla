--------------------------- MODULE ValueSequence ---------------------------
(***************************************************************************)
(* What Ds\Seq promises: a sequence of values, indexed from its front,     *)
(* into which whole runs of values go and from which single values come.   *)
(***************************************************************************)
EXTENDS Sequences, Scan

CONSTANT Value

VARIABLE items

Init == items = << >>

\* push, unshift and insert: a run of values goes in after the first n items.
Insert(n, vs) ==
  items' = SubSeq(items, 1, n) \o vs \o SubSeq(items, n + 1, Len(items))

\* shift, pop and remove.
Remove(n) ==
  items' = SubSeq(items, 1, n - 1) \o SubSeq(items, n + 1, Len(items))

\* set, apply and map: the values change, their number does not.
Revalue == items' \in [DOMAIN items -> Value]

\* sort, reverse and rotate.
Rearrange ==
  \E p \in [DOMAIN items -> DOMAIN items] :
    /\ \A i, j \in DOMAIN items : p[i] = p[j] => i = j
    /\ items' = [i \in DOMAIN items |-> items[p[i]]]

\* clear, filter and slice: the items that stay keep their order.
Keep(S) ==
  items' = [n \in 1 .. Cardinality(S) |-> items[Nth(S, n - 1)]]

Next ==
  \/ \E n \in 0 .. Len(items) :
       \E m \in 1 .. Len(items') : \E vs \in [1 .. m -> Value] : Insert(n, vs)
  \/ \E n \in 1 .. Len(items) : Remove(n)
  \/ Revalue
  \/ Rearrange
  \/ \E S \in SUBSET DOMAIN items : Keep(S)

Spec == Init /\ [][Next]_items
=============================================================================
