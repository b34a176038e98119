----------------------------- MODULE MCUserKeys -----------------------------
(* A small instance of UserKeys, and of the keys of KeyIdentity, for TLC.   *)
EXTENDS UserKeys, Bitwise, TLC

CONSTANTS k1, k2, k3, u1, u2, u3, plain, zero, minus, nan, pi, text, other

\* h & (c - 1), as the source computes the slot.
MCMask(h, c) == h & (c - 1)

Z(type, of) == [type |-> type, of |-> of]

Doubles == {Z("double", d) : d \in {zero, minus, nan, pi}}

\* Two keys whose hash() returns a long and a double that hash alike, and one
\* whose hash() returns no scalar.
Result(k) ==
  CASE k = k1 -> Z("long", 2) [] k = k2 -> Z("double", pi) [] k = k3 -> Z("array", << >>)
    [] k = u1 -> Z("double", zero) [] k = u2 -> Z("double", minus) [] k = u3 -> Z("long", 2)

\* pi is a double whose bits fold to 2, and so is a long of 2 + 2^3.
Bits(d) == CASE d = zero -> 0 [] d = pi -> 2 [] d = nan -> 3 [] d = minus -> 4

\* Strings hash apart, and so does what arrays are serialized to, but that the
\* plain object alone hashes as the keys do, and as those that throw when it has
\* been written to.
Strings == {text, other}
MadeAlone == <<"plain", "made">>
ChangedAlone == <<"plain", "changed">>
StringsHash(s) ==
  IF s \notin Strings /\ Len(s) = 1 /\ s[1].type = "object"
  THEN CASE s[1].of = MadeAlone -> 2 [] s[1].of = ChangedAlone -> 0 [] OTHER -> 1
  ELSE <<"apart", s>>

Handle(x) == IF x = plain THEN 2 ELSE 1

\* The objects of another class all equal each other, two whose hash() agrees and
\* one whose does not.
Others == {u1, u2, u3}
Class(o) == IF o = plain THEN "plain" ELSE IF o \in Others THEN "others" ELSE "keyed"
EqualOf(o, u) == o = u \/ {o, u} \subseteq Others

Elements ==
  Doubles \union {Z("long", 2), Z("string", text), Z("null", other), Z("object", plain),
                 Z("object", k1)}

Samples ==
  Elements
  \union {Z("long", 10), Z("true", other), Z("false", other), Z("string", other),
          Z("object", k2), Z("object", k3), Z("resource", other)}
  \union {Z("object", u) : u \in Others}
  \union {Z("array", a) : a \in {<< >>} \union {<<e>> : e \in Elements}
                                \union {<<e, f>> : e, f \in Elements}}

\* The objects before and after the plain one is written to.
States == {[o \in {plain} \union Keyed |-> "made"],
           [o \in {plain} \union Keyed |-> IF o = plain THEN "changed" ELSE "made"]}

\* The keys put into the table, two of equal hash and an array; all share a slot
\* in the smallest table.
Keys == {Z("object", k1), Z("object", k2), Z("array", <<Z("object", plain)>>)}

\* What HashesFollowIdentity proves of all keys holds of the samples.
ASSUME SamplesHashAlike == IdenticalKeysHashAlike

Symmetry == Permutations({k1, k2})
=============================================================================
