-------------------------------- MODULE Scan --------------------------------
(***************************************************************************)
(* What a left-to-right scan of a buffer finds among a set of its indices: *)
(* the last of them, how many lie before one, and the one met after r      *)
(* others.  The loops of the source that skip deleted buckets are written  *)
(* with these.                                                             *)
(***************************************************************************)
EXTENDS Integers, FiniteSets

NIL == -1

Latest(S) == IF S = {} THEN NIL ELSE CHOOSE i \in S : \A j \in S : j <= i

Rank(S, i) == Cardinality({j \in S : j < i})

Nth(S, r) == CHOOSE i \in S : Rank(S, i) = r
=============================================================================
