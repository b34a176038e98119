CONSTANTS
  k1 = k1
  k2 = k2
  k3 = k3
  u1 = u1
  u2 = u2
  u3 = u3
  plain = plain
  zero = zero
  minus = minus
  nan = nan
  pi = pi
  text = text
  other = other
  Zval <- Samples
  Props <- States
  Width = 3
  StringHash <- StringsHash
  DoubleBits <- Bits
  Zero = zero
  NegZero = minus
  NaN = {nan}
  HandleOf <- Handle
  Keyed = {k1, k2, k3, u1, u2, u3}
  ClassOf <- Class
  HashResult <- Result
  EqualsResult <- EqualOf
  Key <- Keys
  Undef = Undef
  Mask <- MCMask
  MinCapacity = 2
  MaxCapacity = 4
  MaxEntries = 3
  MaxDepth = 2
  MaxMade = 2
SPECIFICATION Spec
SYMMETRY Symmetry
INVARIANTS
  TableSound
  DuplicatesExplained
PROPERTIES
  MissesExplained
