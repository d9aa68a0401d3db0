SPECIFICATION FairSpec
CONSTANTS
  p = p
  q = q
  r1 = r1
  r2 = r2
  r3 = r3
  Repos = {r1, r2, r3}
  Roots = {p, q}
  RootOf <- Paths
  Clients = {c1}
  NoRepo = NoRepo
INVARIANTS OneThreadPerRoot RowsHaveRepo
PROPERTIES TokensEscalate
  TableFollowed
  JoinsEnd
