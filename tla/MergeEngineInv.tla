--------------------------- MODULE MergeEngineInv ---------------------------
(***************************************************************************)
(* The inductive invariant behind the safety properties of MergeEngine:    *)
(* what the threads and the CLI commands have in memory while they run.    *)
(***************************************************************************)
EXTENDS MergeEngine

Busy(w) == pc[w] \in {"precheck", "loop", "save", "handoff"}

\* A process past "off" holds the lock, and only a process with a pool has
\* threads.
LockInv ==
  /\ \A p \in Procs : proc[p] # "off" => lock = p
  /\ \A w \in Workers : pc[w] # "none" => proc[w[1]] \in {"running", "stopping"}

\* A busy thread has taken an entry of its own repo; an idle one has none.
HeldInv ==
  \A w \in Workers :
    /\ Busy(w) => held[w] \in Entries /\ RepoOf[held[w]] = w[2]
    /\ pc[w] \in {"none", "poll", "exited"} => held[w] = NoEntry

\* The (status, last_outcome) pairs a worker has in memory inside the loop.
LoopPair ==
  {<<"Queued", "PrecheckOk">>,
   <<"Rebasing", "RebaseOk">>, <<"Rebasing", "RebaseConflict">>,
   <<"CIRunning", "LintPassed">>, <<"CIRunning", "LintFailed">>,
   <<"CIRunning", "TestPassed">>, <<"CIRunning", "TestFailed">>,
   <<"CIRunning", "BuildPassed">>, <<"CIRunning", "BuildFailed">>,
   <<"Merging", "FastForwardOk">>, <<"Merging", "FastForwardRejected">>}

\* What a thread has in memory while it works on an entry.
WorkingCopy(w) ==
  /\ mem[w].claim = w[1] /\ ~mem[w].finished /\ mem[w].reason = NoReason
  /\ pc[w] = "precheck" => mem[w].status = "Rebasing"
  /\ pc[w] \in {"loop", "save"} => <<mem[w].status, mem[w].lastOutcome>> \in LoopPair
  /\ pc[w] = "save" => mem[w].status \in InFlight

MemInv ==
  \A w \in Workers :
    /\ pc[w] \in {"precheck", "loop", "save"} => WorkingCopy(w)
    /\ pc[w] = "handoff" => mem[w].status = "NeedsHelp" /\ WellFormed(mem[w])

\* What a CLI command is going to write is a well-formed row that claims nothing.
ClientInv ==
  \A c \in Clients : cli[c].op # "idle" =>
    /\ cli[c].id \in Entries
    /\ cli[c].copy.status \in {"Queued", "NeedsHelp", "Cancelled"}
    /\ WellFormed(cli[c].copy)

IInv ==
  /\ TypeOK
  /\ LockInv
  /\ HeldInv
  /\ MemInv
  /\ ClientInv
  /\ RowsConsistent
  /\ InFlightOwned
  /\ SweepIsSafe
=============================================================================
