---------------------------- MODULE MCMigrations ----------------------------
(* Instances of Migrations for TLC. *)
EXTENDS Migrations

CONSTANT old

\* The process old is of the binary before the last migration.
Binaries == [p \in Procs |-> IF p = old THEN Latest - 1 ELSE Latest]
=============================================================================
