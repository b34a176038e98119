---------------------------- MODULE KeyIdentity ----------------------------
(***************************************************************************)
(* What the hash table takes for the hash of a key and for the same key    *)
(* (get_hash and key_is_identical, src/ds/ds_htable.c).  Its chains lead   *)
(* to a key only if keys that are identical hash alike.                    *)
(*                                                                         *)
(* A zval is a record of its type and its value; the elements of an array  *)
(* are no arrays themselves.                                               *)
(***************************************************************************)
EXTENDS Integers

CONSTANTS
  Zval,               \* the keys considered
  Props,              \* the states that the objects' properties can be in
  Width,              \* the width of uint32_t
  StringHash(_),      \* ZSTR_HASH
  DoubleBits(_),      \* the bits of a double, their halves xored
  Zero, NegZero,      \* 0.0 and -0.0
  NaN,                \* the doubles that equal nothing
  HandleOf(_),        \* the handle of an object or a resource
  Keyed,              \* the objects whose class implements Ds\Key
  ClassOf(_),
  HashResult(_),      \* what hash() of a keyed object returns
  EqualsResult(_, _)  \* whether equals() of a keyed object returns TRUE

WellFormed(z) == z = [type |-> z.type, of |-> z.of]

ASSUME ZvalAssumption ==
  \A z \in Zval :
    /\ WellFormed(z)
    /\ z.type = "array" => \A i \in DOMAIN z.of : WellFormed(z.of[i])

\* Ds\Key is a matter of the class.
ASSUME ClassAssumption ==
  \A y, z \in Zval :
    /\ y.type = "object" /\ z.type = "object"
    /\ y.of \in Keyed /\ ClassOf(y.of) = ClassOf(z.of)
    => z.of \in Keyed

-----------------------------------------------------------------------------
(* The hash.                                                               *)

\* What a zend_long becomes when it is returned as a uint32_t.
Narrowed(n) == n % 2 ^ Width

DoubleHash(d) == DoubleBits(IF d = NegZero THEN Zero ELSE d)

\* What is neither is TRUE, or refused as the result of hash() and hashes to 0.
ScalarHash(z) ==
  CASE z.type = "long"   -> Narrowed(z.of)
    [] z.type = "double" -> DoubleHash(z.of)
    [] z.type = "string" -> StringHash(z.of)
    [] z.type = "true"   -> 1
    [] OTHER             -> 0

ObjectHash(o) == IF o \in Keyed THEN ScalarHash(HashResult(o)) ELSE HandleOf(o)

\* What php_var_serialize writes of an element: of a double its sign as well, of
\* an object its class and what its properties are in p.
Serialized(z, p) ==
  IF z.type = "object" THEN [type |-> "object", of |-> <<ClassOf(z.of), p[z.of]>>]
  ELSE z

ArrayHash(a, p) == StringHash([i \in DOMAIN a |-> Serialized(a[i], p)])

\* get_hash of a key, while the objects' properties are p.
KeyHash(z, p) ==
  CASE z.type = "object"   -> ObjectHash(z.of)
    [] z.type = "array"    -> ArrayHash(z.of, p)
    [] z.type = "resource" -> HandleOf(z.of)
    [] OTHER               -> ScalarHash(z)

-----------------------------------------------------------------------------
(* The same key.                                                           *)

DoublesEqual(d, e) ==
  /\ d \notin NaN /\ e \notin NaN
  /\ d = e \/ {d, e} = {Zero, NegZero}

\* zend_is_identical of what may be in an array.
SameElement(y, z) ==
  /\ y.type = z.type
  /\ IF y.type = "double" THEN DoublesEqual(y.of, z.of) ELSE y = z

\* zend_is_identical of arrays: those that are equal may also be one.
SameArray(a, b) ==
  \/ a = b
  \/ /\ DOMAIN a = DOMAIN b
     /\ \A i \in DOMAIN a : SameElement(a[i], b[i])

\* user_hashable_equals
UserEquals(o, u) == ClassOf(o) = ClassOf(u) /\ EqualsResult(o, u)

\* key_is_identical of a bucket's key b and the key z that is looked for.
KeyIdentical(b, z) ==
  CASE b.type = "object" /\ b.of \in Keyed ->
         z.type = "object" /\ UserEquals(b.of, z.of)
    [] b.type = "array" -> z.type = "array" /\ SameArray(b.of, z.of)
    [] OTHER -> SameElement(b, z)

-----------------------------------------------------------------------------
(* Properties.                                                             *)

\* hash() of two keys gives what === takes for the same.
HashesAgree(b, z) == SameElement(HashResult(b.of), HashResult(z.of))

\* Two arrays have a zero at the same place, but not of the same sign.
ZerosDiffer(b, z) ==
  \E i \in DOMAIN b.of :
    /\ b.of[i].type = "double"
    /\ {b.of[i].of, z.of[i].of} = {Zero, NegZero}

\* An object in the array is not what it was.
ObjectsDiffer(z, p, q) ==
  \E i \in DOMAIN z.of : z.of[i].type = "object" /\ p[z.of[i].of] # q[z.of[i].of]

\* A key that is identical to the one that a bucket was made for has the hash
\* that the bucket was given then, and so is found, unless it is an object whose
\* own hash() does not agree with its equals(), or an array: arrays are compared
\* by their elements but hashed by what they are serialized to, which tells zeros
\* of different signs apart and changes with the objects in them
\* (ds_htable.c:196-358).
IdenticalKeysHashAlike ==
  \A b, z \in Zval : \A p, q \in Props :
    KeyIdentical(b, z) =>
      \/ KeyHash(b, p) = KeyHash(z, q)
      \/ b.type = "object" /\ b.of \in Keyed /\ ~HashesAgree(b, z)
      \/ b.type = "array" /\ (ZerosDiffer(b, z) \/ ObjectsDiffer(b, p, q))
=============================================================================
