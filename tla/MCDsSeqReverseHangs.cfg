CONSTANTS
  Value = {v1, v2}
  Hole = Hole
  MinCapacity = 2
  Capacities = {2, 4, 8}
  MaxSize = 5
  MaxArgs = 2
  MaxTurns = 2
SPECIFICATION Spec
PROPERTIES
  ReverseEnds
