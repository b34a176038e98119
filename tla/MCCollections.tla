---------------------------- MODULE MCCollections ----------------------------
(* Small instances of Collections for TLC.                                 *)
EXTENDS Collections, TLC

\* -1 is 7 to a uint32_t of 3 bits.
MCKey == {-1, 0, 7}

\* The limits of a zend_long of 4 bits, and what lies about the sizes.
MCArgument == {-8, -2, 0, 1, 7}

\* Arrays with a key that is taken for another, before, after and without it.
MCArrayKeys == {<< -1 >>, <<7, -1>>, << -1, 0>>}

Alike == Permutations(Variable) \union Permutations(Value)
=============================================================================
