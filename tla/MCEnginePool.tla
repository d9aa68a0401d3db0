---------------------------- MODULE MCEnginePool ----------------------------
(* Instances of EnginePool for TLC. *)
EXTENDS EnginePool, TLC

CONSTANTS p, q, r1, r2, r3

\* Ids r1 and r2 are drawn for the same path p, one after the other or by two
\* `init` commands at once; r3, if it exists, is for q.
Paths == [r \in Repos |-> IF r = r3 THEN q ELSE p]

ClientSymmetry == Permutations(Clients)
=============================================================================
