CONSTANTS
  Queues = {"rx", "tx"}
  Num = 2
  IndexMod = 4
  Broken = {1}
  MaxKicks = 2
  MaxMaps = 2
  Sessions = {"a", "b", "c"}
  Kinds = {"client", "replace", "occupy"}
  None = None
SPECIFICATION MCSpec
INVARIANTS  OnePump LiveIsInstalled EndIsReported
PROPERTIES IsChainQueue TxServed PumpsEnd
CHECK_DEADLOCK FALSE
