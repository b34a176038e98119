CONSTANTS
  Heap = {h1, h2}
  Sorter = {s1, s2}
  Iterator = {i1, i2}
  None = None
  MaxDepth = 4
SPECIFICATION SlotSpec
SYMMETRY Callables
INVARIANTS
  UndisturbedKeepTheirs
  IteratorsNotReentered
  SlotIInv
