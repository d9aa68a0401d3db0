----------------------------- MODULE QueueStore -----------------------------
(***************************************************************************)
(* The tables of store/sqlite_store.rs that the engine, the CLI and the    *)
(* TUI share, and one operator per statement.  Every call of the program   *)
(* takes the connection mutex and runs one SQL statement in autocommit     *)
(* mode, so each operator is one atomic step; processes (the TUI and every *)
(* CLI command) have connections of their own and interleave between       *)
(* calls.                                                                  *)
(*                                                                         *)
(* A row keeps the columns some decision depends on.  finished stands for  *)
(* `finished_at IS NOT NULL`, claim for claimed_by_pid (claimed_at is      *)
(* always written together with it); started_at, paths, message and        *)
(* details are display data and left out.                                  *)
(***************************************************************************)
EXTENDS Naturals, MergeFsm

CONSTANTS
  Entries,   (* queue entry ids: UUIDs, never reused                        *)
  Sessions,  (* conflict session ids                                        *)
  Repos,     (* ids of the registered repositories                          *)
  Procs,     (* process ids a TUI can run under                             *)
  RepoOf,    (* the repo_id column, immutable                               *)
  Stamps,    (* the seconds enqueued_at can fall in                         *)
  NoEntry, NoSession, NoProc   (* the NULLs                                 *)

ASSUME StoreAssumption ==
  /\ RepoOf \in [Entries -> Repos]
  /\ Stamps \subseteq Nat
  /\ NoEntry \notin Entries /\ NoSession \notin Sessions /\ NoProc \notin Procs

VARIABLES
  rows,      (* queue_entries                                               *)
  stamp,     (* its enqueued_at column, which no UPDATE touches             *)
  sessions   (* conflict_sessions                                           *)

Row == [status      : RowStatus,
        lastOutcome : StepOutcome \cup {NoOutcome},
        finished    : BOOLEAN,
        reason      : MergeFailureReason \cup {NoReason},
        session     : Sessions \cup {NoSession},
        claim       : Procs \cup {NoProc}]

\* An id without a row; also the empty in-memory entry of an idle thread.
FreshRow == [status |-> "Fresh", lastOutcome |-> NoOutcome, finished |-> FALSE,
             reason |-> NoReason, session |-> NoSession, claim |-> NoProc]

Present(e) == rows[e].status \notin {"Fresh", "Deleted"}

\* `outcome` merges ended_at and outcome: "Open" is ended_at IS NULL.
Session == [entry   : Entries \cup {NoEntry},
            outcome : {"Unused", "Open", "Resolved", "Abandoned"}]
UnusedSession == [entry |-> NoEntry, outcome |-> "Unused"]
Unused == {s \in Sessions : sessions[s].outcome = "Unused"}

StoreTypeOK ==
  /\ rows \in [Entries -> Row]
  /\ stamp \in [Entries -> Stamps \cup {0}]
  /\ sessions \in [Sessions -> Session]

StoreInit ==
  /\ rows = [e \in Entries |-> FreshRow]
  /\ stamp = [e \in Entries |-> 0]
  /\ sessions = [s \in Sessions |-> UnusedSession]

-----------------------------------------------------------------------------
(* Writes to queue_entries.                                                *)

\* The entry `mergequeue enqueue` builds.
NewRow == [FreshRow EXCEPT !.status = "Queued"]
InsertEntry(e) ==
  /\ rows' = [rows EXCEPT ![e] = NewRow]
  /\ \E t \in Stamps : stamp' = [stamp EXCEPT ![e] = t]

\* Mutants: a row of the repo in any order, and one of any status.
ClaimableUnordered(r) ==
  {e \in Entries : RepoOf[e] = r /\ rows[e].status = "Queued" /\ rows[e].claim = NoProc}
ClaimableAnyStatus(r) ==
  {e \in Entries : RepoOf[e] = r /\ Present(e) /\ rows[e].claim = NoProc}

\* claim_next: an oldest unclaimed Queued row of the repo.  ORDER BY
\* enqueued_at leaves rows stamped in the same second in any order.
Claimable(r) ==
  LET open == {e \in Entries : /\ RepoOf[e] = r
                               /\ rows[e].status = "Queued"
                               /\ rows[e].claim = NoProc}
  IN  {e \in open : \A f \in open : stamp[e] <= stamp[f]}

Claimed(row, pid) ==
  [row EXCEPT !.status = "Rebasing", !.claim = pid, !.lastOutcome = "PrecheckOk"]
ClaimEntry(e, pid) == rows' = [rows EXCEPT ![e] = Claimed(@, pid)]

\* update_entry: overwrites the row whatever it holds by now.  It reports
\* NotFound when there is none, which the callers model.
UpdateEntry(e, row) == rows' = [rows EXCEPT ![e] = row]

\* Mutant: the claim survives.
RequeuedKeepsClaim(row) == [row EXCEPT !.status = "Queued", !.lastOutcome = NoOutcome]

\* The common SET list of release and sweep_dead_pid_claims.
Requeued(row) ==
  [row EXCEPT !.status = "Queued", !.claim = NoProc, !.lastOutcome = NoOutcome]

Release(e) ==
  rows' = [rows EXCEPT ![e] = IF @.status \in InFlight THEN Requeued(@) ELSE @]

SweepDeadPidClaims(live) ==
  rows' = [e \in Entries |->
             IF /\ rows[e].status \in InFlight
                /\ rows[e].claim # NoProc
                /\ rows[e].claim \notin live
             THEN Requeued(rows[e])
             ELSE rows[e]]

\* delete_queued; the WHERE clause re-checks the status.
DeleteQueued(e) ==
  /\ rows[e].status = "Queued"
  /\ rows' = [rows EXCEPT ![e] = [FreshRow EXCEPT !.status = "Deleted"]]

-----------------------------------------------------------------------------
(* Writes to conflict_sessions.                                            *)

OpenConflictSession(s, e) ==
  /\ s \in Unused
  /\ sessions' = [sessions EXCEPT ![s] = [entry |-> e, outcome |-> "Open"]]

\* close_conflict_session: overwrites the outcome of a closed session too.
CloseConflictSession(s, outcome) ==
  sessions' = [sessions EXCEPT ![s].outcome = outcome]
=============================================================================
