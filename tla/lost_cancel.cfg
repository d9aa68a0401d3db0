SPECIFICATION Spec
CONSTANTS
  e1 = e1
  e2 = e2
  r1 = r1
  r2 = r2
  Entries = {e1}
  Sessions = {}
  Repos = {r1}
  Procs = {p1}
  Clients = {c1}
  Commands = {"cancel"}
  RepoOf <- OneRepo
  Stamps = {1}
  CiChoices <- NoCi
  MayDirty = {}
  MayVanish = {}
  NoEntry = NoEntry
  NoSession = NoSession
  NoProc = NoProc
PROPERTIES
  CancelSticks
