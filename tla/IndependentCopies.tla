------------------------- MODULE IndependentCopies -------------------------
(***************************************************************************)
(* What copy-on-write is to look like: every collection and every iterator *)
(* has contents of its own, and a change to one shows in no other.         *)
(***************************************************************************)
CONSTANTS
  Holder,     \* collections and iterators
  Position, Value,
  NoCells     \* what a holder that does not exist shows

VARIABLE shown

Init == shown = [h \in Holder |-> NoCells]

Make(h, cells) == shown[h] = NoCells /\ shown' = [shown EXCEPT ![h] = cells]

Copy(h, g) == shown[h] # NoCells /\ Make(g, shown[h])

Write(h, p, v) ==
  shown[h] # NoCells /\ shown' = [shown EXCEPT ![h] = [@ EXCEPT ![p] = v]]

Drop(H) == shown' = [h \in Holder |-> IF h \in H THEN NoCells ELSE shown[h]]

Next ==
  \/ \E h \in Holder, cells \in [Position -> Value] : Make(h, cells)
  \/ \E h, g \in Holder : Copy(h, g)
  \/ \E h \in Holder, p \in Position, v \in Value : Write(h, p, v)
  \/ \E H \in SUBSET Holder : Drop(H)

Spec == Init /\ [][Next]_shown
=============================================================================
