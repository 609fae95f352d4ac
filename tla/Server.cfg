CONSTANTS
  c1 = c1
  c2 = c2
  c3 = c3
  peer1 = peer1
  Conns = {c1, c2, c3}
  Modes = {"replace", "occupy", "multiplex"}
  PeerStrings <- MCPeerStrings
  MaxUpdates = 1
  None = None
SPECIFICATION FairSpec
INVARIANTS OneConnection ClosedMeansStopped LiveHasPort SubsMatchRegistry
PROPERTIES DeadLeave DownIsReported
CHECK_DEADLOCK FALSE
