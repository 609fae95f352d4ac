SPECIFICATION FairSpec
CONSTANTS
  p1 = p1
  p2 = p2
  r1 = r1
  r2 = r2
  m1 = m1
  PortIDs = {p1, p2}
  MACs = {m1}
  Keys = {0}
  Frames <- AgeFrames
  AttrChoices <- PlainOnly
  Rx = {r1, r2}
  Adm = {a1}
  RefOf <- MCRefOf
  MaxEntry = 2
  AgeCap = 3
  MaxAges = {1, 2}
  NoMAC = NoMAC
PROPERTIES IsLearningSwitch StaleEntriesHeal
CHECK_DEADLOCK FALSE
