CONSTANTS
  k1 = k1
  k2 = k2
  k3 = k3
  k4 = k4
  Key = {k1, k2, k3}
  Value = {v1, v2}
  Undef = Undef
  Hash <- Hash3
  Mask <- MCMask
  MinCapacity = 2
  AllocCapacities = {4, 8}
  MaxCapacity = 8
SPECIFICATION Spec
INVARIANTS
  SizeIsEntryCount
  UniqueKeys
  MissMeansAbsent
  PositionsExact
  IterationExact
  IInv
PROPERTIES
  RemovalNeverFaults
  FaultsExplained
  WalksDescend
  ImplementsOrderedMap
