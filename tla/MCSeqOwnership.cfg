CONSTANTS
  Value = {v1, v2}
  Hole = Hole
  Gone = Gone
  MinCapacity = 2
  Capacities = {2, 4}
  MaxSize = 4
  MaxLost = 1
SPECIFICATION Spec
SYMMETRY Symmetry
INVARIANTS
  TypeOK
  CountsBalance
  CollectorSeesOwn
