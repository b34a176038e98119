CONSTANTS
  Object = {o1, o2}
  Iterator = {i1}
  None = None
  Buffer = {b1, b2, b3, b4, b5}
  Length = 1
  Value = {v1, v2}
  Initial = v1
  Reference = {r1, r2}
  MaxDepth = 2
SPECIFICATION Spec
SYMMETRY Addresses
INVARIANTS
  TypeOK
  ReferencesResolve
  RefsAreHolders
PROPERTIES
  ImplementsIndependentCopies
