--------------------------- MODULE MCCopyOnWrite ---------------------------
(* Small instances of CopyOnWrite for TLC.                                 *)
EXTENDS CopyOnWrite, TLC

\* A buffer's address, a reference and an object matter only where they are
\* compared with another.
Addresses ==
  Permutations(Buffer) \union Permutations(Reference) \union Permutations(Object)
=============================================================================
