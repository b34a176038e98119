--------------------------- MODULE MCSeqOwnership ---------------------------
(* A small instance of SeqOwnership for TLC.                               *)
EXTENDS SeqOwnership, TLC

Symmetry == Permutations(Value)
=============================================================================
