--------------------------- MODULE MCMergeEngine ---------------------------
(* Instances of MergeEngine for TLC. *)
EXTENDS MergeEngineService, TLC

CONSTANTS e1, e2, r1, r2

\* Every entry belongs to the one repository.
OneRepo == [e \in Entries |-> r1]

AllCi == SUBSET CiSteps
NoCi == {{}}
=============================================================================
