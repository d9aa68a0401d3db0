------------------------------ MODULE MCTuiApp ------------------------------
(* Instances of TuiApp for TLC. *)
EXTENDS TuiApp

\* The first two entries are enqueued in one second, in either order.
Stamps == [e \in Entries |-> IF e <= 2 THEN 1 ELSE e]
=============================================================================
