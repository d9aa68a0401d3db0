SPECIFICATION Spec
CONSTANTS
  e1 = e1
  e2 = e2
  r1 = r1
  r2 = r2
  Entries = {e1}
  Sessions = {s1, s2}
  Repos = {r1}
  Procs = {p1}
  Clients = {c1}
  Commands = {"cancel", "retry", "resolve"}
  RepoOf <- OneRepo
  Stamps = {1}
  CiChoices <- AllCi
  MayDirty = {}
  MayVanish = {}
  NoEntry = NoEntry
  NoSession = NoSession
  NoProc = NoProc
INVARIANTS
  TypeOK
  RowsConsistent
  MergedHasLanded
  LandsOnlyGreen
  FsmTotal
  NeedsHelpHasSession
PROPERTIES
  EngineKeepsMerged
