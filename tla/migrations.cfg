SPECIFICATION Spec
CONSTANTS
  old = old
  Latest = 2
  Supported <- Binaries
  ReadsFail = TRUE
  Procs = {old, p1, p2}
INVARIANTS
  SchemaWhole
  ReadyIsMigrated
