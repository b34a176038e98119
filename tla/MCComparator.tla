---------------------------- MODULE MCComparator ----------------------------
(* Small instances of Comparator for TLC.                                  *)
EXTENDS Comparator, TLC

Callables == Permutations(Heap) \union Permutations(Sorter)
=============================================================================
