CONSTANTS
  Variable = {x1, x2}
  Key <- MCKey
  Value = {v1, v2}
  NoValue = NoValue
  NoKey = NoKey
  LongBits = 4
  IndexBits = 3
  MinCapacity = 2
  Argument <- MCArgument
  ArrayKeys <- MCArrayKeys
  MaxBulk = 1
SPECIFICATION Spec
SYMMETRY Alike
INVARIANTS
  TypeOK
  KeysDistinct
  AlgebraFits
  SlicesExplained
  NarrowingExplained
  BuiltFollowsSource
PROPERTIES
  ArraysExplained
