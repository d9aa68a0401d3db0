SPECIFICATION Spec
CONSTANTS
  root = root
  t1 = t1
  t2 = t2
  main = main
  b1 = b1
  b2 = b2
  Entries = {e1}
  Trees = {root, t1}
  Root = root
  Branches = {main, b1}
  Targets = {main}
  InitHead <- Heads
  Changes = {c1, c2}
  Steps = 1
  UserMay = {"root", "switch", "files", "detach", "rootEntry", "disturb"}
  CiWrites = TRUE
  HeadRef = HEAD
  NoEntry = NoEntry
  NoBranch = NoBranch
SYMMETRY GitSymmetry
INVARIANTS
  TypeOK
  LandsOnce
  LandsWhatCiPassed
  NoWorkLost
PROPERTIES
  TargetsOnlyGrow
