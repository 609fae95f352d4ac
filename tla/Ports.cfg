CONSTANTS
  t1 = t1
  t2 = t2
  Transports = {t1, t2}
  Kinds <- MCKinds
  AutoRemove <- MCAutoRemove
  MaxConns = 2
  MaxDeletes = 1
  MaxPatches = 1
  None = None
SPECIFICATION FairSpec
INVARIANTS RecordMatchesRegistry NothingLeaks DeletesItsOwn
PROPERTIES LostPortsGo
CHECK_DEADLOCK FALSE
