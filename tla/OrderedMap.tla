----------------------------- MODULE OrderedMap -----------------------------
(***************************************************************************)
(* What Ds\Map and Ds\Set promise of the table beneath them: associations  *)
(* with distinct keys, kept in the order in which the keys were added      *)
(* until the program itself rearranges them.                               *)
(***************************************************************************)
EXTENDS Sequences, Scan

CONSTANTS Key, Value

VARIABLE entries    \* a sequence of [key, value]

Keys == {entries[i].key : i \in DOMAIN entries}

Init == entries = << >>

Put(k, v) ==
  IF k \in Keys
  THEN \E i \in DOMAIN entries :
         /\ entries[i].key = k
         /\ entries' = [entries EXCEPT ![i] = [key |-> k, value |-> v]]
  ELSE entries' = Append(entries, [key |-> k, value |-> v])

\* remove, clear, filter and slice: the entries that stay keep their order.
Keep(S) ==
  entries' = [n \in 1 .. Cardinality(S) |-> entries[Nth(S, n - 1)]]

\* sort and reverse: a rearrangement loses nothing.
Rearrange ==
  \E p \in [DOMAIN entries -> DOMAIN entries] :
    /\ \A i, j \in DOMAIN entries : p[i] = p[j] => i = j
    /\ entries' = [i \in DOMAIN entries |-> entries[p[i]]]

\* apply: the keys stay where they are.
Revalue ==
  /\ DOMAIN entries' = DOMAIN entries
  /\ \A i \in DOMAIN entries :
       entries'[i].key = entries[i].key /\ entries'[i].value \in Value

Next ==
  \/ \E k \in Key, v \in Value : Put(k, v)
  \/ \E S \in SUBSET DOMAIN entries : Keep(S)
  \/ Rearrange
  \/ Revalue

Spec == Init /\ [][Next]_entries
=============================================================================
