SPECIFICATION Spec
CONSTANTS
  e1 = e1
  e2 = e2
  r1 = r1
  r2 = r2
  Entries = {e1, e2}
  Sessions = {}
  Repos = {r1}
  Procs = {p1, p2}
  Clients = {c1}
  Commands = {"cancel", "retry"}
  RepoOf <- OneRepo
  Stamps = {1, 2}
  CiChoices <- NoCi
  MayDirty = {}
  MayVanish = {}
  NoEntry = NoEntry
  NoSession = NoSession
  NoProc = NoProc
INVARIANTS
  InFlightOwned
  SweepIsSafe
PROPERTIES
  FifoClaims
  ServesQueue
