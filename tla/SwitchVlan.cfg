SPECIFICATION Spec
CONSTANTS
  p1 = p1
  p2 = p2
  r1 = r1
  r2 = r2
  m1 = m1
  PortIDs = {p1, p2}
  MACs = {m1}
  Keys = {0, 5}
  Frames <- VlanFrames
  AttrChoices <- VlanAttrs
  Rx = {r1, r2}
  Adm = {a1}
  RefOf <- MCRefOf
  MaxEntry = 2
  AgeCap = 0
  MaxAges = {1}
  NoMAC = NoMAC
INVARIANTS TypeOK LearnedInDomain DomainPreserved
PROPERTY StaticPinned
CHECK_DEADLOCK FALSE
