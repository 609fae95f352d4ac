CONSTANTS
  c1 = c1
  c2 = c2
  c3 = c3
  peer1 = peer1
  Conns = {c1, c2, c3}
  Modes = {"multiplex"}
  PeerStrings <- MCPeerStrings
  MaxUpdates = 1
  None = None
SPECIFICATION Spec
INVARIANT ClosedMeansGone
CHECK_DEADLOCK FALSE
