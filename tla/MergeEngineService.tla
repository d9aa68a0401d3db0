------------------------- MODULE MergeEngineService -------------------------
(***************************************************************************)
(* The engine implements the service: the place of an entry is its status, *)
(* and the server of a repository is whatever worker thread of whatever    *)
(* process is busy with an entry of it.                                    *)
(***************************************************************************)
EXTENDS MergeEngineInv

PlaceOf(row) ==
  CASE row.status = "Fresh"                    -> "absent"
    [] row.status = "Deleted"                  -> "deleted"
    [] row.status = "Queued"                   -> "waiting"
    [] row.status \in InFlight                 -> "working"
    [] row.status = "NeedsHelp"                -> "parked"
    [] row.status = "Merged"                   -> "merged"
    [] row.status \in {"Failed", "Cancelled"}  -> "closed"

JobOf(r) == {held[w] : w \in {v \in Workers : v[2] = r /\ Busy(v)}}

Service == INSTANCE MergeService WITH
  place  <- [e \in Entries |-> PlaceOf(rows[e])],
  job    <- [r \in Repos |-> JobOf(r)]

\* Every behaviour of threads, processes, crashes and CLI commands is one of the
\* service: a repository's entries are worked on one at a time although processes
\* come, die and overlap, stale rows are written by anybody, and the sweep puts back
\* only what nobody is at work on; an entry becomes Merged only by the thread that
\* works on it and only after its fast-forward.
ServesQueue == Service!Spec
=============================================================================
