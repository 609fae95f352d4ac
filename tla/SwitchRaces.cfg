SPECIFICATION Spec
CONSTANTS
  p1 = p1
  p2 = p2
  r1 = r1
  r2 = r2
  m1 = m1
  PortIDs = {p1}
  MACs = {m1}
  Keys = {0}
  Frames <- RaceFrames
  AttrChoices <- RaceAttrs
  Rx = {r1, r2}
  Adm = {a1}
  RefOf <- SharedRef
  MaxEntry = 2
  AgeCap = 0
  MaxAges = {1}
  NoMAC = NoMAC
INVARIANTS RegistryConsistent BlockedIsFlushed ReasonMeansDisabled
SYMMETRY RxSym
CHECK_DEADLOCK FALSE
