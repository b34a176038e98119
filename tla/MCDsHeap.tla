------------------------------ MODULE MCDsHeap ------------------------------
(* Small instances of DsHeap for TLC.                                      *)
EXTENDS DsHeap, TLC

CONSTANTS va, vb, vc

\* vb and vc compare as equal.
MCRanking == (va :> 1) @@ (vb :> 2) @@ (vc :> 2)
=============================================================================
