CONSTANTS
  k1 = k1
  k2 = k2
  k3 = k3
  k4 = k4
  Key = {k1, k2, k3, k4}
  Value = {v1}
  Undef = Undef
  Hash <- Hash4
  Mask <- MCMask
  MinCapacity = 4
  AllocCapacities = {8, 16}
  MaxCapacity = 16
SPECIFICATION Spec
PROPERTIES
  SortKeepsActiveBuckets
