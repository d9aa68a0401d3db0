------------------------- MODULE MCConflictSessions -------------------------
(* A small instance of ConflictSessions: two TUI runs after each other, two *)
(* commands at a time.                                                      *)
EXTENDS ConflictSessions, TLC

CONSTANTS p1, p2, c1, c2

MCProcs == {p1, p2}
MCClients == {c1, c2}
Sym == Permutations(MCProcs) \cup Permutations(MCClients)
=============================================================================
