----------------------------- MODULE MCDsHtable -----------------------------
(* Small instances of DsHtable for TLC.                                    *)
EXTENDS DsHtable, Bitwise, TLC

CONSTANTS k1, k2, k3, k4

\* h & (c - 1), as the source computes the slot.
MCMask(h, c) == h & (c - 1)

\* Two keys with equal hashes, and others whose hashes meet at some capacities
\* and not at others.
Hash3 == (k1 :> 0) @@ (k2 :> 0) @@ (k3 :> 2)
Hash4 == Hash3 @@ (k4 :> 1)
=============================================================================
