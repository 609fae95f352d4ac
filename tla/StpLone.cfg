CONSTANTS
  A = A
  B = B
  C = C
  Bridges = {A}
  Ports <- LonePorts
  Owner <- LoneOwner
  Segments = {1}
  SegOf <- LoneSegOf
  portCost <- LoneCost
  portIDValue <- LoneID
  IdsOf <- LoneIds
  MaxAge = 6
  ForwardDelay = 4
  Second = 1
  CostMod = 65536
  Phases = {0, 1}
  MaxGen = 2
  Touched = {"a1"}
  Breakable = {{1}}
  Disturb = {"remove", "add"}
  MaxDisturb = 2
SPECIFICATION FairSpec
PROPERTIES LonePortsForward
