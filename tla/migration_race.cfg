SPECIFICATION Spec
CONSTANTS
  old = old
  Latest = 2
  Supported <- Binaries
  ReadsFail = FALSE
  Procs = {p1, p2}
INVARIANTS
  RefusedOnlyIfNewer
