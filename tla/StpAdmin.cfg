CONSTANTS
  A = A
  B = B
  C = C
  Bridges = {A, B}
  Ports <- PairPorts
  Owner <- PairOwner
  Segments = {1, 2}
  SegOf <- PairSegOf
  portCost <- PairCost
  portIDValue <- PairID
  IdsOf <- PairReIds
  MaxAge = 4
  ForwardDelay = 3
  Second = 1
  CostMod = 65536
  Phases = {0}
  MaxGen = 2
  Touched = {"a1"}
  Breakable = {{1}, {2}}
  Disturb = {"remove", "add", "shut", "enable", "config"}
  MaxDisturb = 2
SPECIFICATION FairSpec
INVARIANTS NoLoop
PROPERTIES Converges
