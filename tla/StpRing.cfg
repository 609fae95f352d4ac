CONSTANTS
  A = A
  B = B
  C = C
  Bridges = {A, B, C}
  Ports <- RingPorts
  Owner <- RingOwner
  Segments = {1, 2, 3}
  SegOf <- RingSegOf
  portCost <- RingCost
  portIDValue <- RingID
  IdsOf <- RingIds
  MaxAge = 4
  ForwardDelay = 3
  Second = 1
  CostMod = 65536
  Phases = {0}
  MaxGen = 1
  Touched = {}
  Breakable = {{1, 3}}
  Disturb = {"cut"}
  MaxDisturb = 1
SPECIFICATION FairSpec
INVARIANTS NoLoop
PROPERTIES Converges
