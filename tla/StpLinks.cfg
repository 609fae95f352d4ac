CONSTANTS
  A = A
  B = B
  C = C
  Bridges = {A, B}
  Ports <- PairPorts
  Owner <- PairOwner
  Segments = {1, 2}
  SegOf <- PairSegOf
  portCost <- PairCost
  portIDValue <- PairID
  IdsOf <- PairIds
  MaxAge = 6
  ForwardDelay = 4
  Second = 1
  CostMod = 65536
  Phases = {0}
  MaxGen = 1
  Touched = {}
  Breakable = {{1}}
  Disturb = {"cut", "restore", "lose"}
  MaxDisturb = 2
SPECIFICATION FairSpec
INVARIANTS NoLoop
PROPERTIES Converges  TopologyChangeEnds
