---------------------------- MODULE MergeEngine ----------------------------
(***************************************************************************)
(* The queue at work: one TUI process at a time owns the lock, sweeps what *)
(* a dead predecessor left and runs one worker thread per repository       *)
(* (engine/worker.rs, engine/pool.rs, engine/recovery.rs, tui/run.rs),     *)
(* while CLI commands (cli/commands/*.rs) read and overwrite the same      *)
(* rows.                                                                   *)
(*                                                                         *)
(* A step is the code between two accesses to shared state, so a worker    *)
(* that runs git and then saves the row takes two steps, and so does a CLI *)
(* command that reads a row and writes it back.  Git, the CI commands and  *)
(* tmux are represented by the results they may return.                    *)
(***************************************************************************)
EXTENDS QueueStore, FiniteSets

CONSTANTS
  Clients,    (* concurrently running CLI commands / TUI attach calls       *)
  Commands,   (* the commands they run: a subset of {"cancel", "retry",     *)
              (* "resolve"}                                                 *)
  CiChoices,  (* the CI configurations a repo may be registered with        *)
  MayDirty,   (* repos whose root worktree the user edits now and then      *)
  MayVanish   (* entries whose source worktree the user may remove          *)

ASSUME EngineAssumption ==
  /\ CiChoices \subseteq SUBSET CiSteps
  /\ MayDirty \subseteq Repos
  /\ MayVanish \subseteq Entries

VARIABLES
  ciOf,     (* per repo: the configured CI steps (RepoCiConfig)             *)
  lock,     (* the process that holds tui.pid                               *)
  proc,     (* per process: how far its TUI has got                         *)
  unswept,  (* per process: sessions its startup sweep still has to probe   *)
  pc,       (* per worker: where its thread is                              *)
  held,     (* per worker: the entry it is processing                       *)
  mem,      (* per worker: its in-memory QueueEntry                         *)
  passed,   (* per worker: history, CI steps passed since the last rebase   *)
  cli,      (* per client: the command, the id and the entry it read        *)
  dirty,    (* per repo: the root worktree has uncommitted changes          *)
  gone,     (* entries whose source worktree has been removed               *)
  landed    (* history: entries a fast-forward has succeeded for            *)

tuiVars    == <<lock, proc, unswept>>
workerVars == <<pc, held, mem, passed>>
envVars    == <<ciOf, dirty, gone>>
vars == <<rows, stamp, sessions, tuiVars, workerVars, cli, envVars, landed>>

Workers == Procs \X Repos

\* "locked": the lock is held; "swept": the dead claims are swept; "probing":
\* the open sessions are listed; "running": the pool is up; "stopping": a quit
\* has set the pool-global ShutdownToken (soft and hard are handled alike).
ProcState == {"off", "locked", "swept", "probing", "running", "stopping"}

\* "none": no thread; "dead": run() returned Err; "exited": it returned Ok.
WorkerPc == {"none", "poll", "precheck", "loop", "save", "handoff", "dead", "exited"}

IdleClient == [op |-> "idle", id |-> NoEntry, copy |-> FreshRow]
ClientOp == {"idle", "cancel", "retryCheck", "retryClose", "retryWrite",
             "respawnClose", "respawnOpen", "respawnWrite"}

TypeOK ==
  /\ StoreTypeOK
  /\ ciOf \in [Repos -> SUBSET CiSteps]
  /\ lock \in Procs \cup {NoProc}
  /\ proc \in [Procs -> ProcState]
  /\ unswept \in [Procs -> SUBSET Sessions]
  /\ pc \in [Workers -> WorkerPc]
  /\ held \in [Workers -> Entries \cup {NoEntry}]
  /\ mem \in [Workers -> Row]
  /\ passed \in [Workers -> SUBSET CiSteps]
  /\ cli \in [Clients -> [op : ClientOp, id : Entries \cup {NoEntry}, copy : Row]]
  /\ dirty \in [Repos -> BOOLEAN]
  /\ gone \subseteq Entries
  /\ landed \subseteq Entries

Init ==
  /\ StoreInit
  /\ ciOf \in [Repos -> CiChoices]
  /\ lock = NoProc
  /\ proc = [p \in Procs |-> "off"]
  /\ unswept = [p \in Procs |-> {}]
  /\ pc = [w \in Workers |-> "none"]
  /\ held = [w \in Workers |-> NoEntry]
  /\ mem = [w \in Workers |-> FreshRow]
  /\ passed = [w \in Workers |-> {}]
  /\ cli = [c \in Clients |-> IdleClient]
  /\ dirty = [r \in Repos |-> FALSE]
  /\ gone = {}
  /\ landed = {}

-----------------------------------------------------------------------------
(* The worker thread of process w[1] for repository w[2].                  *)

Active(w) == pc[w] \in {"poll", "precheck", "loop", "save", "handoff"}

\* worker.deps.shutdown.is_set(): the pool-global token reaches every worker.
ShuttingDown(w) == proc[w[1]] = "stopping"

\* The NextAction of the iteration of process() the worker is about to run.
Decision(w) == Transition(mem[w].status, mem[w].lastOutcome, ciOf[w[2]])
Decides(w, act) == pc[w] = "loop" /\ ~ShuttingDown(w) /\ Decision(w).act = act

Goto(w, to) == pc' = [pc EXCEPT ![w] = to]

\* process() returns Ok: the thread is back at the top of run().
Return(w) ==
  /\ Goto(w, "poll")
  /\ held' = [held EXCEPT ![w] = NoEntry]
  /\ mem' = [mem EXCEPT ![w] = FreshRow]
  /\ passed' = [passed EXCEPT ![w] = {}]

\* Some call returned Err: `?` carries it out of run() and the thread ends.
Die(w) ==
  /\ Goto(w, "dead")
  /\ mem' = [mem EXCEPT ![w] = FreshRow]
  /\ passed' = [passed EXCEPT ![w] = {}]
  /\ UNCHANGED <<rows, stamp, sessions, tuiVars, held, cli, envVars, landed>>

Claim(w) ==
  /\ pc[w] = "poll" /\ ~ShuttingDown(w)
  /\ \E e \in Claimable(w[2]) :
       /\ ClaimEntry(e, w[1])
       /\ held' = [held EXCEPT ![w] = e]
       /\ mem' = [mem EXCEPT ![w] = Claimed(rows[e], w[1])]
  /\ Goto(w, "precheck")
  /\ UNCHANGED <<stamp, sessions, tuiVars, passed, cli, envVars, landed>>

\* while !shutdown.is_set(): leave run().
Leave(w) ==
  /\ pc[w] = "poll" /\ ShuttingDown(w)
  /\ Goto(w, "exited")
  /\ UNCHANGED <<rows, stamp, sessions, tuiVars, held, mem, passed, cli, envVars, landed>>

\* run_precheck looks at the target only if the source worktree is there.
FoundDirty(w) == dirty[w[2]] /\ held[w] \notin gone

\* Mutant: the row goes back to the queue still claimed.
PrecheckDirtyKeepsClaim(w) ==
  /\ pc[w] = "precheck" /\ FoundDirty(w)
  /\ Present(held[w])
  /\ UpdateEntry(held[w], [mem[w] EXCEPT !.status = "Queued",
                                         !.lastOutcome = "PrecheckDirtyTarget"])
  /\ Return(w)
  /\ UNCHANGED <<stamp, sessions, tuiVars, cli, envVars, landed>>

PrecheckDirty(w) ==
  /\ pc[w] = "precheck" /\ FoundDirty(w)
  /\ Present(held[w])
  /\ UpdateEntry(held[w], [mem[w] EXCEPT !.status = "Queued", !.claim = NoProc,
                                         !.lastOutcome = "PrecheckDirtyTarget"])
  /\ Return(w)
  /\ UNCHANGED <<stamp, sessions, tuiVars, cli, envVars, landed>>

\* Mutant: the in-memory status stays Rebasing.
PrecheckOkKeepsStatus(w) ==
  /\ pc[w] = "precheck" /\ ~FoundDirty(w)
  /\ mem' = [mem EXCEPT ![w].lastOutcome = "PrecheckOk"]
  /\ Goto(w, "loop")
  /\ UNCHANGED <<rows, stamp, sessions, tuiVars, held, passed, cli, envVars, landed>>

PrecheckOk(w) ==
  /\ pc[w] = "precheck" /\ ~FoundDirty(w)
  /\ mem' = [mem EXCEPT ![w].status = "Queued", ![w].lastOutcome = "PrecheckOk"]
  /\ Goto(w, "loop")
  /\ UNCHANGED <<rows, stamp, sessions, tuiVars, held, passed, cli, envVars, landed>>

\* The check at the top of the loop, before the decision is even looked at.
ReleaseOnShutdown(w) ==
  /\ pc[w] = "loop" /\ ShuttingDown(w)
  /\ Release(held[w])
  /\ Return(w)
  /\ UNCHANGED <<stamp, sessions, tuiVars, cli, envVars, landed>>

\* execute(action) has returned an outcome; the row is saved in the next step.
Executed(w, status, outcome) ==
  /\ mem' = [mem EXCEPT ![w].status = status, ![w].lastOutcome = outcome]
  /\ Goto(w, "save")
  /\ UNCHANGED <<rows, stamp, sessions, tuiVars, held, cli, envVars>>

\* Bound: a rebase conflicts, and an agent is respawned, only while there is a
\* session id left for every session about to be opened.
SessionToSpare ==
  Cardinality({w \in Workers : mem[w].lastOutcome = "RebaseConflict" /\ pc[w] # "handoff"})
    + Cardinality({c \in Clients : cli[c].op \in {"respawnClose", "respawnOpen"}})
    < Cardinality(Unused)

Rebase(w) ==
  /\ Decides(w, "Rebase") /\ held[w] \notin gone
  /\ \/ Executed(w, AdvanceStatus("Rebase"), "RebaseOk")
     \/ SessionToSpare /\ Executed(w, AdvanceStatus("Rebase"), "RebaseConflict")
  /\ passed' = [passed EXCEPT ![w] = {}]
  /\ UNCHANGED landed

RunCi(w, step) ==
  /\ Decides(w, CiAction(step)) /\ held[w] \notin gone
  /\ \E ok \in BOOLEAN :
       /\ Executed(w, AdvanceStatus(CiAction(step)), CiOutcome(step, ok))
       /\ passed' = [passed EXCEPT ![w] = IF ok THEN @ \cup {step} ELSE @]
  /\ UNCHANGED landed

\* Mutant: the exit status of git is ignored.
FastForwardUnchecked(w) ==
  /\ Decides(w, "FastForward")
  /\ Executed(w, AdvanceStatus("FastForward"), "FastForwardOk")
  /\ landed' \in {landed, landed \cup {held[w]}}
  /\ UNCHANGED passed

FastForward(w) ==
  /\ Decides(w, "FastForward")
  /\ \/ /\ Executed(w, AdvanceStatus("FastForward"), "FastForwardOk")
        /\ landed' = landed \cup {held[w]}
     \/ /\ Executed(w, AdvanceStatus("FastForward"), "FastForwardRejected")
        /\ UNCHANGED landed
  /\ UNCHANGED passed

SaveStep(w) ==
  /\ pc[w] = "save" /\ Present(held[w])
  /\ UpdateEntry(held[w], mem[w])
  /\ Goto(w, "loop")
  /\ UNCHANGED <<stamp, sessions, tuiVars, held, mem, passed, cli, envVars, landed>>

Finalized(row, d) ==
  [row EXCEPT !.status = d.terminal, !.reason = d.reason, !.finished = TRUE, !.claim = NoProc]

FinalizeEntry(w) ==
  /\ Decides(w, "Finalize") /\ Present(held[w])
  /\ UpdateEntry(held[w], Finalized(mem[w], Decision(w)))
  /\ Return(w)
  /\ UNCHANGED <<stamp, sessions, tuiVars, cli, envVars, landed>>

\* Mutant: the entry is not told the id of its session.
HandoffOpenForgetsSession(w) ==
  /\ Decides(w, "HandoffToAgent")
  /\ \E s \in Sessions : OpenConflictSession(s, held[w])
  /\ mem' = [mem EXCEPT ![w].status = "NeedsHelp", ![w].reason = "RebaseUnresolvable",
                        ![w].claim = NoProc]
  /\ Goto(w, "handoff")
  /\ UNCHANGED <<rows, stamp, tuiVars, held, passed, cli, envVars, landed>>

\* handoff() records the session first (tmux and agent errors do not stop it)
\* and the row afterwards.
HandoffOpen(w) ==
  /\ Decides(w, "HandoffToAgent")
  /\ \E s \in Sessions :
       /\ OpenConflictSession(s, held[w])
       /\ mem' = [mem EXCEPT ![w].status = "NeedsHelp", ![w].reason = "RebaseUnresolvable",
                             ![w].session = s, ![w].claim = NoProc]
  /\ Goto(w, "handoff")
  /\ UNCHANGED <<rows, stamp, tuiVars, held, passed, cli, envVars, landed>>

HandoffSave(w) ==
  /\ pc[w] = "handoff" /\ Present(held[w])
  /\ UpdateEntry(held[w], mem[w])
  /\ Return(w)
  /\ UNCHANGED <<stamp, sessions, tuiVars, cli, envVars, landed>>

\* update_entry is next and the row is gone: NotFound.
RowMissing(w) ==
  /\ \/ pc[w] \in {"save", "handoff"}
     \/ pc[w] = "precheck" /\ FoundDirty(w)
     \/ Decides(w, "Finalize")
  /\ ~Present(held[w])

\* A command is next that cannot be spawned in a removed source worktree.
WorktreeMissing(w) ==
  /\ held[w] \in gone
  /\ Decides(w, "Rebase") \/ \E step \in CiSteps : Decides(w, CiAction(step))

StepFails(w) == (RowMissing(w) \/ WorktreeMissing(w)) /\ Die(w)

\* Any other error of a store, git or log file call, at any point.
IoError(w) == Active(w) /\ Die(w)

WorkerStep(w) ==
  \/ Claim(w) \/ Leave(w) \/ PrecheckDirty(w) \/ PrecheckOk(w) \/ ReleaseOnShutdown(w)
  \/ Rebase(w) \/ (\E step \in CiSteps : RunCi(w, step)) \/ FastForward(w)
  \/ SaveStep(w) \/ FinalizeEntry(w) \/ HandoffOpen(w) \/ HandoffSave(w)
  \/ StepFails(w)

-----------------------------------------------------------------------------
(* The TUI process: startup, quit and death.                               *)

Advance(p, from, to) == proc[p] = from /\ proc' = [proc EXCEPT ![p] = to]

\* TuiLock::acquire.  A process that finds the lock held exits unchanged.
AcquireLock(p) ==
  /\ lock = NoProc /\ lock' = p
  /\ Advance(p, "off", "locked")
  /\ UNCHANGED <<rows, stamp, sessions, unswept, workerVars, cli, envVars, landed>>

\* Mutant: the process counts its own pid among the live ones.
SweepSparesOwnPid(p) ==
  /\ Advance(p, "locked", "swept")
  /\ SweepDeadPidClaims({p})
  /\ UNCHANGED <<stamp, sessions, lock, unswept, workerVars, cli, envVars, landed>>

\* sweep_dead_claims(store, &[]): no process is considered alive.
SweepDeadClaims(p) ==
  /\ Advance(p, "locked", "swept")
  /\ SweepDeadPidClaims({})
  /\ UNCHANGED <<stamp, sessions, lock, unswept, workerVars, cli, envVars, landed>>

\* sweep_abandoned_conflict_sessions: the list, then one probe and at most one
\* write per listed session, whatever has happened to it since.
ListOpenSessions(p) ==
  /\ Advance(p, "swept", "probing")
  /\ unswept' = [unswept EXCEPT ![p] = {s \in Sessions : sessions[s].outcome = "Open"}]
  /\ UNCHANGED <<rows, stamp, sessions, lock, workerVars, cli, envVars, landed>>

ProbeSession(p) ==
  /\ proc[p] = "probing"
  /\ \E s \in unswept[p] :
       /\ unswept' = [unswept EXCEPT ![p] = @ \ {s}]
       /\ \/ UNCHANGED sessions                       \* window alive or unknown
          \/ CloseConflictSession(s, "Abandoned")
  /\ UNCHANGED <<rows, stamp, lock, proc, workerVars, cli, envVars, landed>>

\* The first pool.reconcile(): one worker per registered repo.
SpawnWorkers(p) ==
  /\ unswept[p] = {}
  /\ Advance(p, "probing", "running")
  /\ pc' = [w \in Workers |-> IF w[1] = p THEN "poll" ELSE pc[w]]
  /\ UNCHANGED <<rows, stamp, sessions, lock, unswept, held, mem, passed, cli, envVars, landed>>

\* Mutant: the lock is dropped before the workers are joined.
QuitUnlocksEarly(p) ==
  /\ Advance(p, "running", "stopping")
  /\ lock' = NoProc
  /\ UNCHANGED <<rows, stamp, sessions, unswept, workerVars, cli, envVars, landed>>

\* `q`, `Q` or an error of the render loop, then shutdown_and_join.
Quit(p) ==
  /\ Advance(p, "running", "stopping")
  /\ UNCHANGED <<rows, stamp, sessions, lock, unswept, workerVars, cli, envVars, landed>>

\* The process is gone: its threads and their memory with it, and the OS has
\* dropped its lock.
ProcessEnds(p) ==
  /\ lock' = NoProc
  /\ proc' = [proc EXCEPT ![p] = "off"]
  /\ unswept' = [unswept EXCEPT ![p] = {}]
  /\ pc' = [w \in Workers |-> IF w[1] = p THEN "none" ELSE pc[w]]
  /\ held' = [w \in Workers |-> IF w[1] = p THEN NoEntry ELSE held[w]]
  /\ mem' = [w \in Workers |-> IF w[1] = p THEN FreshRow ELSE mem[w]]
  /\ passed' = [w \in Workers |-> IF w[1] = p THEN {} ELSE passed[w]]
  /\ UNCHANGED <<rows, stamp, sessions, cli, envVars, landed>>

\* Mutant: the join waits for ever for a worker that died of an error.
JoinedExitedOnly(p) == \A r \in Repos : pc[<<p, r>>] = "exited"

Joined(p) == \A r \in Repos : pc[<<p, r>>] \in {"exited", "dead"}
Exit(p) == proc[p] = "stopping" /\ Joined(p) /\ ProcessEnds(p)

\* A kill, a power loss or an error during startup.
Crash(p) == proc[p] # "off" /\ ProcessEnds(p)

\* DeleteSelected: the store re-checks the status the snapshot showed.
DeleteSelected(p, e) ==
  /\ proc[p] = "running"
  /\ DeleteQueued(e)
  /\ UNCHANGED <<stamp, sessions, tuiVars, workerVars, cli, envVars, landed>>

TuiStep(p) ==
  \/ SweepDeadClaims(p) \/ ListOpenSessions(p) \/ ProbeSession(p)
  \/ SpawnWorkers(p) \/ Exit(p)

-----------------------------------------------------------------------------
(* CLI commands, and the TUI's attach key, which runs the code of          *)
(* `resolve` on the entry of its last snapshot.                            *)

Enqueue(e) ==
  /\ rows[e].status = "Fresh"
  /\ InsertEntry(e)
  /\ UNCHANGED <<sessions, tuiVars, workerVars, cli, envVars, landed>>

\* The command reads the row and keeps an edited copy of it.
Reads(c, e, command, op, row) ==
  /\ command \in Commands /\ cli[c].op = "idle"
  /\ cli' = [cli EXCEPT ![c] = [op |-> op, id |-> e, copy |-> row]]
  /\ UNCHANGED <<rows, stamp, sessions, tuiVars, workerVars, envVars, landed>>

\* The command writes its copy back; NotFound ends it without effect.
WritesBack(c, op) ==
  /\ cli[c].op = op
  /\ IF Present(cli[c].id) THEN UpdateEntry(cli[c].id, cli[c].copy) ELSE UNCHANGED rows
  /\ cli' = [cli EXCEPT ![c] = IdleClient]
  /\ UNCHANGED <<stamp, sessions, tuiVars, workerVars, envVars, landed>>

Cancelled(row) ==
  [row EXCEPT !.status = "Cancelled", !.reason = "UserCancelled", !.finished = TRUE,
              !.claim = NoProc]

Cancel(c, e) ==
  /\ Present(e) /\ rows[e].status \notin Terminal
  /\ Reads(c, e, "cancel", "cancel", Cancelled(rows[e]))

CancelWrite(c) == WritesBack(c, "cancel")

Retried(row) ==
  [row EXCEPT !.status = "Queued", !.reason = NoReason, !.finished = FALSE, !.claim = NoProc,
              !.lastOutcome = IF row.status = "NeedsHelp" THEN "AgentResolvedConflict"
                                                          ELSE NoOutcome]

Retry(c, e) ==
  /\ rows[e].status \in {"Failed", "NeedsHelp", "Cancelled"}
  /\ Reads(c, e, "retry",
           IF rows[e].status = "NeedsHelp" /\ rows[e].session # NoSession
           THEN "retryCheck" ELSE "retryWrite",
           Retried(rows[e]))

\* get_conflict_session: is it still open?
RetryCheck(c) ==
  /\ cli[c].op = "retryCheck"
  /\ cli' = [cli EXCEPT ![c].op = IF sessions[cli[c].copy.session].outcome = "Open"
                                  THEN "retryClose" ELSE "retryWrite"]
  /\ UNCHANGED <<rows, stamp, sessions, tuiVars, workerVars, envVars, landed>>

RetryClose(c) ==
  /\ cli[c].op = "retryClose"
  /\ CloseConflictSession(cli[c].copy.session, "Resolved")
  /\ cli' = [cli EXCEPT ![c].op = "retryWrite"]
  /\ UNCHANGED <<rows, stamp, tuiVars, workerVars, envVars, landed>>

RetryWrite(c) == WritesBack(c, "retryWrite")

\* conflict_session_handle when the window is dead; with a live window, or when
\* tmux or the agent cannot be started, it changes nothing.
Resolve(c, e) ==
  /\ rows[e].status = "NeedsHelp" /\ rows[e].session # NoSession
  /\ SessionToSpare
  /\ Reads(c, e, "resolve", "respawnClose", rows[e])

RespawnClose(c) ==
  /\ cli[c].op = "respawnClose"
  /\ CloseConflictSession(cli[c].copy.session, "Abandoned")
  /\ cli' = [cli EXCEPT ![c].op = "respawnOpen"]
  /\ UNCHANGED <<rows, stamp, tuiVars, workerVars, envVars, landed>>

RespawnOpen(c) ==
  /\ cli[c].op = "respawnOpen"
  /\ \E s \in Sessions :
       /\ OpenConflictSession(s, cli[c].id)
       /\ cli' = [cli EXCEPT ![c].op = "respawnWrite", ![c].copy.session = s]
  /\ UNCHANGED <<rows, stamp, tuiVars, workerVars, envVars, landed>>

RespawnWrite(c) == WritesBack(c, "respawnWrite")

\* The command is interrupted, or a store call of it fails, between two steps.
Abort(c) ==
  /\ cli[c].op # "idle"
  /\ cli' = [cli EXCEPT ![c] = IdleClient]
  /\ UNCHANGED <<rows, stamp, sessions, tuiVars, workerVars, envVars, landed>>

ClientStep(c) ==
  \/ \E e \in Entries : Cancel(c, e) \/ Retry(c, e) \/ Resolve(c, e)
  \/ CancelWrite(c) \/ RetryCheck(c) \/ RetryClose(c) \/ RetryWrite(c)
  \/ RespawnClose(c) \/ RespawnOpen(c) \/ RespawnWrite(c) \/ Abort(c)

-----------------------------------------------------------------------------
(* The user's worktrees.                                                   *)

TouchTarget(r) ==
  /\ r \in MayDirty
  /\ dirty' = [dirty EXCEPT ![r] = ~@]
  /\ UNCHANGED <<rows, stamp, sessions, tuiVars, workerVars, cli, ciOf, gone, landed>>

RemoveWorktree(e) ==
  /\ e \in MayVanish \ gone
  /\ gone' = gone \cup {e}
  /\ UNCHANGED <<rows, stamp, sessions, tuiVars, workerVars, cli, ciOf, dirty, landed>>

Next ==
  \/ \E w \in Workers : WorkerStep(w) \/ IoError(w)
  \/ \E p \in Procs : AcquireLock(p) \/ TuiStep(p) \/ Quit(p) \/ Crash(p)
  \/ \E p \in Procs, e \in Entries : DeleteSelected(p, e)
  \/ \E e \in Entries : Enqueue(e) \/ RemoveWorktree(e)
  \/ \E c \in Clients : ClientStep(c)
  \/ \E r \in Repos : TouchTarget(r)

Spec == Init /\ [][Next]_vars

\* A live thread keeps being scheduled, git and CI commands return, and the
\* main thread of a process gets through its startup and its shutdown.  Users,
\* errors and crashes are under no obligation.
Fairness ==
  /\ \A w \in Workers : WF_vars(WorkerStep(w))
  /\ \A p \in Procs : WF_vars(TuiStep(p))

FairSpec == Spec /\ Fairness

-----------------------------------------------------------------------------
(* Safety.                                                                 *)

\* What a row may look like at rest: finished_at is set exactly in a terminal
\* status, a claim is held exactly in an in-flight one, and the failure reason
\* is the one the recorded outcome stands for.
WellFormed(row) ==
  /\ row.finished <=> row.status \in Terminal
  /\ row.claim # NoProc <=> row.status \in InFlight
  /\ row.status = "Merged" => row.lastOutcome = "FastForwardOk"
  /\ row.status = "Failed" =>
       <<row.lastOutcome, row.reason>> \in {<<"LintFailed", "CILintFailed">>,
                                            <<"TestFailed", "CITestsFailed">>,
                                            <<"BuildFailed", "CIBuildFailed">>,
                                            <<"FastForwardRejected", "FastForwardFailed">>}
  /\ row.status = "NeedsHelp" =>
       row.lastOutcome = "RebaseConflict" /\ row.reason = "RebaseUnresolvable"
  /\ row.status = "Cancelled" => row.reason = "UserCancelled"
  /\ row.status \in {"Queued"} \cup InFlight \cup {"Merged"} => row.reason = NoReason

\* Every row is well formed at all times, although claims, worker saves, shutdown
\* releases, crash sweeps and stale whole-row writes of CLI commands land on it
\* in any order (store/sqlite_store.rs, engine/worker.rs, cli/commands).
RowsConsistent == \A e \in Entries : WellFormed(rows[e])

\* A row in flight belongs to somebody: while a TUI has workers, its claim is
\* that process's and the entry is the one the repo's worker thread took (a
\* thread that died on an error included); so nothing is in flight unattended
\* and two rows of a repo are never in flight together.  The startup sweep,
\* the lock and release() have to cooperate for this across crashes, restarts
\* and recycled pids.
InFlightOwned ==
  \A p \in Procs : proc[p] \in {"running", "stopping"} =>
    \A e \in Entries : rows[e].status \in InFlight =>
      rows[e].claim = p /\ held[<<p, RepoOf[e]>>] = e

\* Worker threads exist only in the process that holds tui.pid, and between its
\* startup sweep and its first worker nothing is in flight: the sweep can treat
\* every claim as dead (`&[]` in tui/run.rs) because of this.
SweepIsSafe ==
  \A p \in Procs :
    /\ (\E r \in Repos : pc[<<p, r>>] # "none") => lock = p
    /\ proc[p] \in {"swept", "probing"} => \A e \in Entries : rows[e].status \notin InFlight

\* A fast-forward succeeds only after every configured CI step has passed since
\* the last rebase of the same pass: no route through transition() skips one.
LandsOnlyGreen ==
  \A w \in Workers : mem[w].lastOutcome = "FastForwardOk" => passed[w] = ciOf[w[2]]

\* The pairs the worker feeds to transition() never reach its panic! arm, nor
\* the Sleep arm, which would leave the row claimed; and a CI step is chosen
\* only if its command is configured (the expect() calls of engine/shell.rs).
FsmTotal ==
  \A w \in Workers : pc[w] = "loop" =>
    /\ Decision(w).act \notin {"Panic", "Sleep"}
    /\ \A step \in CiSteps : Decision(w).act = CiAction(step) => step \in ciOf[w[2]]

\* An entry recorded as Merged has been fast-forwarded, whatever was cancelled,
\* retried, released or swept in between.
MergedHasLanded == \A e \in Entries : rows[e].status = "Merged" => e \in landed

\* A NeedsHelp row names a conflict session recorded for this very entry, so
\* `resolve` and the attach key always have a session to go to; handoff() and
\* respawn() write the two tables in separate calls.
NeedsHelpHasSession ==
  \A e \in Entries : rows[e].status = "NeedsHelp" =>
    /\ rows[e].session # NoSession
    /\ sessions[rows[e].session].entry = e

-----------------------------------------------------------------------------
(* Steps.                                                                  *)

ByClient == \E c \in Clients : cli'[c] # cli[c]

\* The engine leaves a Merged row alone: neither a worker nor release nor the
\* startup sweep re-opens what has landed; only a stale CLI write can.
EngineKeepsMerged ==
  [][\A e \in Entries : rows[e].status = "Merged" => rows'[e] = rows[e] \/ ByClient]_vars

\* Claims are first in, first out: when a row is claimed no other row of its repo
\* is in flight and none with an earlier enqueued_at is waiting, retried and
\* released ones included (the claim made in the head comment of engine/pool.rs).
FifoClaims ==
  [][\A w \in Workers : pc[w] = "poll" /\ pc'[w] = "precheck" =>
       \A e \in Entries \ {held'[w]} : RepoOf[e] = w[2] =>
         /\ rows[e].status \notin InFlight
         /\ rows[e].status = "Queued" => stamp[e] >= stamp[held'[w]]]_vars

\* NOT guaranteed.  What docs/07-cli.md says of `cancel`: an in-flight entry
\* is cancelled, so no engine step takes a Cancelled row further.
CancelSticks ==
  [][\A e \in Entries : rows[e].status = "Cancelled" =>
       rows'[e].status = "Cancelled" \/ ByClient]_vars

-----------------------------------------------------------------------------
(* Liveness, under FairSpec.                                               *)

\* Nobody interferes with repo r any more: the TUI stays up, the worker thread
\* has not died, the target is clean and no command is half way.
Undisturbed(r) ==
  /\ ~dirty[r]
  /\ \A c \in Clients : cli[c].op = "idle"
  /\ \E p \in Procs : proc[p] = "running" /\ pc[<<p, r>>] # "dead"

\* If a repo is eventually left undisturbed its queue drains: every entry ends
\* up merged, failed, cancelled, deleted or waiting for help, including those
\* found in flight by a restart, released by a shutdown or sent back by a dirty
\* target.
QueueDrains ==
  \A r \in Repos :
    <>[]Undisturbed(r) =>
      <>[](\A e \in Entries :
             RepoOf[e] = r => rows[e].status \notin {"Queued"} \cup InFlight)

\* Quitting ends: every worker finishes its current call, releases its row and
\* is joined, also a worker that died before.
QuitCompletes == \A p \in Procs : proc[p] = "stopping" ~> proc[p] = "off"
=============================================================================
