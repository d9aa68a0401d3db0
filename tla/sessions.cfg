SPECIFICATION Spec
CONSTANTS
  p1 = p1  p2 = p2  c1 = c1  c2 = c2
  Procs <- MCProcs
  Clients <- MCClients
  MaxWindows = 2
  MaxSessions = 3
  NoProc = NoProc
SYMMETRY Sym
INVARIANTS TypeOK PromptDelivered ResolvedIsDone HandoffEnds
PROPERTIES SweepSpares
CHECK_DEADLOCK FALSE
