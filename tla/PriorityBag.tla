---------------------------- MODULE PriorityBag ----------------------------
(***************************************************************************)
(* What Ds\Heap promises: a bag of values from which a greatest one comes  *)
(* out, under the comparison that the heap was made with, for as long as   *)
(* no comparison failed since it was last empty.                           *)
(***************************************************************************)
EXTENDS Naturals

CONSTANTS
  Value,
  Ranking    \* Ranking[v]: greater for the values that come out first

VARIABLES
  count,     \* count[v]: how many times v is in the bag
  spoiled    \* a comparison failed

NoValues == [v \in Value |-> 0]

Init == count = NoValues /\ spoiled = FALSE

Push(v) == count' = [count EXCEPT ![v] = @ + 1] /\ UNCHANGED spoiled

Pop(v) ==
  /\ count[v] > 0
  /\ ~spoiled => \A w \in Value : count[w] > 0 => Ranking[w] <= Ranking[v]
  /\ count' = [count EXCEPT ![v] = @ - 1]
  /\ spoiled' = (spoiled /\ count' # NoValues)

Spoil == spoiled' = TRUE /\ UNCHANGED count

Clear == count' = NoValues /\ spoiled' = FALSE

Next == (\E v \in Value : Push(v) \/ Pop(v)) \/ Spoil \/ Clear

Spec == Init /\ [][Next]_<<count, spoiled>>
=============================================================================
