SPECIFICATION FairSpec
CONSTANTS
  e1 = e1
  e2 = e2
  r1 = r1
  r2 = r2
  Entries = {e1, e2}
  Sessions = {}
  Repos = {r1, r2}
  Procs = {p1}
  Clients = {c1}
  Commands = {"retry"}
  RepoOf <- OneRepo
  Stamps = {1}
  CiChoices <- NoCi
  MayDirty = {r1}
  MayVanish = {e1}
  NoEntry = NoEntry
  NoSession = NoSession
  NoProc = NoProc
PROPERTIES
  QueueDrains
  QuitCompletes
