CONSTANTS
  va = va
  vb = vb
  vc = vc
  Value = {va, vb, vc}
  Ranking <- MCRanking
  Empty = Empty
  MinCapacity = 2
  Capacities = {2, 4, 8}
  MaxSize = 7
SPECIFICATION Spec
INVARIANTS
  NodesHoldValues
  HeapOrdered
  RootIsGreatest
  IInv
PROPERTIES
  SiftEnds
  ImplementsPriorityBag
