------------------------- MODULE MergeServiceProofs -------------------------
(***************************************************************************)
(* Machine-checked theorems about MergeEngine, for every set of entries,   *)
(* sessions, repositories, processes and clients.  First the inductive     *)
(* invariant IInv: rows are consistent, and those in flight are owned.     *)
(* Then what the queue may be trusted with: only what CI has passed lands, *)
(* and what is recorded as Merged has landed and stays so; a conflicting   *)
(* entry always has its session.  Each rests on an invariant of its own on *)
(* top of IInv.  At last MergeEngine implements MergeService: every step   *)
(* of a thread, a process, a CLI command or a user is one step of the      *)
(* service or none.                                                        *)
(***************************************************************************)
EXTENDS MergeEngineService, TLAPS

-----------------------------------------------------------------------------
(* Operators the model is built from.                                      *)

\* transition() returns a NextAction for every pair, and the terminal status of
\* a Finalize is one that ends the entry.
LEMMA TransitionType ==
  ASSUME NEW s, NEW o, NEW ci
  PROVE  /\ Transition(s, o, ci) \in NextAction
         /\ Transition(s, o, ci).act = "Finalize" =>
              Transition(s, o, ci).terminal \in Terminal
  BY DEF Transition, NextAction, Do, Finalize, FirstCiStep, AfterLint, AfterTest,
         QueueStatus, InFlight, Terminal, MergeFailureReason, NoReason

\* The row edits of the store, the worker and the CLI yield rows.
LEMMA RowEdits ==
  /\ FreshRow \in Row /\ NewRow \in Row
  /\ [FreshRow EXCEPT !.status = "Deleted"] \in Row
  /\ \A row \in Row : /\ \A p \in Procs : Claimed(row, p) \in Row
                      /\ Requeued(row) \in Row
                      /\ Cancelled(row) \in Row
                      /\ Retried(row) \in Row
                      /\ \A d \in NextAction : Finalized(row, d) \in Row
<1>1. FreshRow \in Row
  BY DEF Row, FreshRow, RowStatus
<1>2. NewRow \in Row /\ [FreshRow EXCEPT !.status = "Deleted"] \in Row
  BY <1>1 DEF Row, NewRow, RowStatus, QueueStatus
<1>3. ASSUME NEW row \in Row, NEW p \in Procs
      PROVE  Claimed(row, p) \in Row
  BY DEF Row, Claimed, RowStatus, QueueStatus, InFlight, StepOutcome
<1>4. ASSUME NEW row \in Row
      PROVE  Requeued(row) \in Row
  BY DEF Row, Requeued, RowStatus, QueueStatus
<1>5. ASSUME NEW row \in Row
      PROVE  Cancelled(row) \in Row
  BY DEF Row, Cancelled, RowStatus, QueueStatus, Terminal, MergeFailureReason
<1>6. ASSUME NEW row \in Row
      PROVE  Retried(row) \in Row
  BY DEF Row, Retried, RowStatus, QueueStatus, StepOutcome
<1>7. ASSUME NEW row \in Row, NEW d \in NextAction
      PROVE  Finalized(row, d) \in Row
  BY DEF Row, Finalized, NextAction, RowStatus
<1> QED
  BY <1>1, <1>2, <1>3, <1>4, <1>5, <1>6, <1>7

\* What execute() writes into the in-memory entry keeps it a row.
LEMMA ExecutedRow ==
  ASSUME NEW row \in Row, NEW s \in QueueStatus, NEW o \in StepOutcome
  PROVE  [row EXCEPT !.status = s, !.lastOutcome = o] \in Row
  BY DEF Row, RowStatus

\* The statuses and outcomes of a CI step are those of the enumerations.
LEMMA CiTypes ==
  /\ \A a : AdvanceStatus(a) \in InFlight
  /\ \A step \in CiSteps, ok \in BOOLEAN : CiOutcome(step, ok) \in StepOutcome
  BY DEF AdvanceStatus, InFlight, CiSteps, CiOutcome, StepOutcome

-----------------------------------------------------------------------------
(* Type correctness.                                                       *)

LEMMA InitType == Init => TypeOK
  BY RowEdits, StoreAssumption, EngineAssumption
  DEF Init, StoreInit, TypeOK, StoreTypeOK, ProcState, WorkerPc, IdleClient, ClientOp,
      UnusedSession, Session, Workers

\* Every step of a worker thread.
LEMMA WorkerType ==
  ASSUME TypeOK, HeldInv, NEW w \in Workers, WorkerStep(w) \/ IoError(w)
  PROVE  TypeOK'
<1> USE DEF TypeOK, StoreTypeOK, WorkerPc, Goto
<1>0. /\ w[1] \in Procs /\ w[2] \in Repos
      /\ mem[w] \in Row /\ held[w] \in Entries \cup {NoEntry}
  BY DEF Workers
<1>1. CASE Claim(w)
  <2>1. PICK e \in Claimable(w[2]) :
          /\ ClaimEntry(e, w[1])
          /\ held' = [held EXCEPT ![w] = e]
          /\ mem' = [mem EXCEPT ![w] = Claimed(rows[e], w[1])]
    BY <1>1 DEF Claim
  <2>2. e \in Entries
    BY DEF Claimable
  <2>3. Claimed(rows[e], w[1]) \in Row
    BY <1>0, <2>2, RowEdits
  <2>4. rows' \in [Entries -> Row] /\ mem' \in [Workers -> Row]
    BY <2>1, <2>3 DEF ClaimEntry
  <2> QED
    BY <1>1, <2>1, <2>2, <2>4 DEF Claim, tuiVars, envVars
<1>2. CASE Leave(w)
  BY <1>2 DEF Leave, tuiVars, envVars
<1>3. CASE PrecheckDirty(w)
  <2>1. [mem[w] EXCEPT !.status = "Queued", !.claim = NoProc,
                       !.lastOutcome = "PrecheckDirtyTarget"] \in Row
    BY <1>0 DEF Row, RowStatus, QueueStatus, StepOutcome
  <2> QED
    BY <1>3, <2>1, RowEdits DEF PrecheckDirty, UpdateEntry, Return, tuiVars, envVars
<1>4. CASE PrecheckOk(w)
  <2>1. [mem[w] EXCEPT !.status = "Queued", !.lastOutcome = "PrecheckOk"] \in Row
    BY <1>0, ExecutedRow DEF QueueStatus, StepOutcome
  <2>2. mem' \in [Workers -> Row]
    BY <1>4, <2>1 DEF PrecheckOk
  <2> QED
    BY <1>4, <2>2 DEF PrecheckOk, tuiVars, envVars
<1>5. CASE ReleaseOnShutdown(w)
  BY <1>5, RowEdits DEF ReleaseOnShutdown, Release, Return, tuiVars, envVars
<1>6. ASSUME NEW s \in InFlight, NEW o \in StepOutcome, Executed(w, s, o)
      PROVE  /\ mem' \in [Workers -> Row]
             /\ pc' \in [Workers -> WorkerPc]
             /\ UNCHANGED <<rows, stamp, sessions, lock, proc, unswept, held, cli, ciOf, dirty, gone>>
  <2>1. [mem[w] EXCEPT !.status = s, !.lastOutcome = o] \in Row
    BY <1>0, ExecutedRow DEF QueueStatus
  <2> QED
    BY <1>6, <2>1 DEF Executed, tuiVars, envVars
<1>7. CASE Rebase(w)
  BY <1>6, <1>7, CiTypes DEF Rebase, StepOutcome
<1>8. ASSUME NEW step \in CiSteps, RunCi(w, step)
      PROVE  TypeOK'
  BY <1>6, <1>8, CiTypes DEF RunCi
<1>9. CASE FastForward(w)
  <2>1. held[w] \in Entries
    BY <1>9 DEF FastForward, Decides, HeldInv, Busy
  <2>2. PICK o \in {"FastForwardOk", "FastForwardRejected"} :
          Executed(w, AdvanceStatus("FastForward"), o)
    BY <1>9 DEF FastForward
  <2>3. AdvanceStatus("FastForward") \in InFlight /\ o \in StepOutcome
    BY CiTypes DEF StepOutcome
  <2>4. landed' \subseteq Entries /\ passed' = passed
    BY <1>9, <2>1 DEF FastForward
  <2> QED
    BY <1>6, <2>2, <2>3, <2>4
<1>10. CASE SaveStep(w)
  BY <1>0, <1>10 DEF SaveStep, UpdateEntry, tuiVars, envVars
<1>11. CASE FinalizeEntry(w)
  <2>1. Finalized(mem[w], Decision(w)) \in Row
    BY <1>0, RowEdits, TransitionType DEF Decision
  <2> QED
    BY <1>11, <2>1, RowEdits DEF FinalizeEntry, UpdateEntry, Return, tuiVars, envVars
<1>12. CASE HandoffOpen(w)
  <2>1. PICK s \in Sessions :
          /\ OpenConflictSession(s, held[w])
          /\ mem' = [mem EXCEPT ![w].status = "NeedsHelp", ![w].reason = "RebaseUnresolvable",
                                ![w].session = s, ![w].claim = NoProc]
    BY <1>12 DEF HandoffOpen
  <2>2. [mem[w] EXCEPT !.status = "NeedsHelp", !.reason = "RebaseUnresolvable",
                       !.session = s, !.claim = NoProc] \in Row
    BY <1>0 DEF Row, RowStatus, QueueStatus, MergeFailureReason
  <2>3. mem' \in [Workers -> Row]
    BY <2>1, <2>2
  <2>4. [entry |-> held[w], outcome |-> "Open"] \in Session
    BY <1>0 DEF Session
  <2>5. sessions' \in [Sessions -> Session]
    BY <2>1, <2>4 DEF OpenConflictSession
  <2> QED
    BY <1>12, <2>3, <2>5 DEF HandoffOpen, tuiVars, envVars
<1>13. CASE HandoffSave(w)
  BY <1>0, <1>13, RowEdits DEF HandoffSave, UpdateEntry, Return, tuiVars, envVars
<1>14. CASE StepFails(w) \/ IoError(w)
  BY <1>14, RowEdits DEF StepFails, IoError, Die, tuiVars, envVars
<1> QED
  BY <1>1, <1>2, <1>3, <1>4, <1>5, <1>7, <1>8, <1>9, <1>10, <1>11, <1>12, <1>13, <1>14
  DEF WorkerStep

\* Every step of the TUI process outside its workers.
LEMMA TuiType ==
  ASSUME TypeOK, NEW p \in Procs,
         AcquireLock(p) \/ TuiStep(p) \/ Quit(p) \/ Crash(p)
           \/ \E e \in Entries : DeleteSelected(p, e)
  PROVE  TypeOK'
<1> USE DEF TypeOK, StoreTypeOK, ProcState, WorkerPc, Advance
<1>1. CASE AcquireLock(p)
  BY <1>1 DEF AcquireLock, workerVars, envVars
<1>2. CASE SweepDeadClaims(p)
  BY <1>2, RowEdits DEF SweepDeadClaims, SweepDeadPidClaims, workerVars, envVars
<1>3. CASE ListOpenSessions(p)
  BY <1>3 DEF ListOpenSessions, workerVars, envVars
<1>4. CASE ProbeSession(p)
  <2>1. sessions' \in [Sessions -> Session] /\ unswept' \in [Procs -> SUBSET Sessions]
    BY <1>4 DEF ProbeSession, CloseConflictSession, Session
  <2> QED
    BY <1>4, <2>1 DEF ProbeSession, workerVars, envVars
<1>5. CASE SpawnWorkers(p)
  BY <1>5 DEF SpawnWorkers, envVars
<1>6. CASE Quit(p)
  BY <1>6 DEF Quit, workerVars, envVars
<1>7. CASE Exit(p) \/ Crash(p)
  <2>1. ProcessEnds(p)
    BY <1>7 DEF Exit, Crash
  <2>2. /\ pc' \in [Workers -> WorkerPc] /\ held' \in [Workers -> Entries \cup {NoEntry}]
        /\ mem' \in [Workers -> Row] /\ passed' \in [Workers -> SUBSET CiSteps]
    BY <2>1, RowEdits DEF ProcessEnds
  <2> QED
    BY <2>1, <2>2 DEF ProcessEnds, envVars
<1>8. ASSUME NEW e \in Entries, DeleteSelected(p, e)
      PROVE  TypeOK'
  BY <1>8, RowEdits DEF DeleteSelected, DeleteQueued, tuiVars, workerVars, envVars
<1> QED
  BY <1>1, <1>2, <1>3, <1>4, <1>5, <1>6, <1>7, <1>8 DEF TuiStep

\* Every step of a CLI command.
LEMMA ClientType ==
  ASSUME TypeOK, NEW c \in Clients, ClientStep(c)
  PROVE  TypeOK'
<1> DEFINE ClientRec == [op : ClientOp, id : Entries \cup {NoEntry}, copy : Row]
<1> USE DEF TypeOK, StoreTypeOK, ClientOp
<1>0. cli[c] \in ClientRec /\ IdleClient \in ClientRec
  BY RowEdits DEF IdleClient
<1>1. ASSUME NEW e \in Entries, NEW k, NEW o \in ClientOp, NEW row \in Row, Reads(c, e, k, o, row)
      PROVE  TypeOK'
  BY <1>1 DEF Reads, tuiVars, workerVars, envVars
<1>2. ASSUME NEW e \in Entries, Cancel(c, e) \/ Retry(c, e) \/ Resolve(c, e)
      PROVE  TypeOK'
  BY <1>1, <1>2, RowEdits DEF Cancel, Retry, Resolve
<1>3. ASSUME NEW o, WritesBack(c, o)
      PROVE  TypeOK'
  BY <1>0, <1>3 DEF WritesBack, UpdateEntry, tuiVars, workerVars, envVars
<1>4. CASE CancelWrite(c) \/ RetryWrite(c) \/ RespawnWrite(c)
  BY <1>3, <1>4 DEF CancelWrite, RetryWrite, RespawnWrite
<1>5. CASE RetryCheck(c)
  BY <1>0, <1>5 DEF RetryCheck, tuiVars, workerVars, envVars
<1>6. ASSUME NEW s, NEW o \in {"Resolved", "Abandoned"}, CloseConflictSession(s, o)
      PROVE  sessions' \in [Sessions -> Session]
  BY <1>6 DEF CloseConflictSession, Session
<1>7. CASE RetryClose(c) \/ RespawnClose(c)
  <2>1. sessions' \in [Sessions -> Session]
    BY <1>6, <1>7 DEF RetryClose, RespawnClose
  <2>2. cli' \in [Clients -> ClientRec]
    BY <1>0, <1>7 DEF RetryClose, RespawnClose
  <2> QED
    BY <1>7, <2>1, <2>2 DEF RetryClose, RespawnClose, tuiVars, workerVars, envVars
<1>8. CASE RespawnOpen(c)
  <2>1. PICK s \in Sessions :
          /\ OpenConflictSession(s, cli[c].id)
          /\ cli' = [cli EXCEPT ![c].op = "respawnWrite", ![c].copy.session = s]
    BY <1>8 DEF RespawnOpen
  <2>2. sessions' \in [Sessions -> Session]
    BY <1>0, <2>1 DEF OpenConflictSession, Session
  <2>3. [cli[c].copy EXCEPT !.session = s] \in Row
    BY <1>0 DEF Row
  <2>4. [cli[c] EXCEPT !.op = "respawnWrite", !.copy.session = s] \in ClientRec
    BY <1>0, <2>3
  <2>5. cli' \in [Clients -> ClientRec]
    BY <2>1, <2>4
  <2> QED
    BY <1>8, <2>2, <2>5 DEF RespawnOpen, tuiVars, workerVars, envVars
<1>9. CASE Abort(c)
  BY <1>0, <1>9 DEF Abort, tuiVars, workerVars, envVars
<1> QED
  BY <1>2, <1>4, <1>5, <1>7, <1>8, <1>9 DEF ClientStep

\* Every step, given that a thread at work holds an entry.
LEMMA NextType == TypeOK /\ HeldInv /\ [Next]_vars => TypeOK'
<1> SUFFICES ASSUME TypeOK, HeldInv, [Next]_vars
             PROVE  TypeOK'
  OBVIOUS
<1>1. ASSUME NEW e \in Entries, Enqueue(e) \/ RemoveWorktree(e)
      PROVE  TypeOK'
  BY <1>1, RowEdits DEF Enqueue, InsertEntry, RemoveWorktree, TypeOK, StoreTypeOK,
     tuiVars, workerVars, envVars
<1>2. ASSUME NEW r \in Repos, TouchTarget(r)
      PROVE  TypeOK'
  BY <1>2 DEF TouchTarget, TypeOK, StoreTypeOK, tuiVars, workerVars
<1>3. CASE UNCHANGED vars
  BY <1>3 DEF vars, TypeOK, StoreTypeOK, tuiVars, workerVars, envVars
<1> QED
  BY <1>1, <1>2, <1>3, WorkerType, TuiType, ClientType DEF Next

-----------------------------------------------------------------------------
(* Threads and processes.                                                  *)

\* A worker step concerns its own thread only: the other threads, the processes
\* and the CLI commands are left alone, and the thread keeps its entry, gives it
\* up, or has just claimed one.
LEMMA WorkerFrame ==
  ASSUME TypeOK, NEW w \in Workers, WorkerStep(w) \/ IoError(w)
  PROVE  /\ UNCHANGED <<lock, proc, unswept, cli>>
         /\ \A v \in Workers \ {w} : pc'[v] = pc[v] /\ held'[v] = held[v] /\ mem'[v] = mem[v]
         /\ Active(w)
         /\ \/ Busy(w) /\ Busy(w)' /\ held'[w] = held[w]
            \/ Busy(w) /\ pc'[w] = "poll" /\ held'[w] = NoEntry
            \/ pc[w] = "poll" /\ pc'[w] = "exited" /\ held'[w] = held[w]
            \/ pc'[w] = "dead" /\ held'[w] = held[w]
            \/ Claim(w) /\ Busy(w)' /\ held'[w] \in Entries /\ RepoOf[held'[w]] = w[2]
<1> USE DEF TypeOK, Busy, Active, Goto, Return, Decides, tuiVars
<1>1. CASE Claim(w)
  BY <1>1 DEF Claim, Claimable
<1>2. CASE Leave(w) \/ StepFails(w) \/ IoError(w)
  BY <1>2 DEF Leave, StepFails, IoError, Die, RowMissing, WorktreeMissing
<1>3. CASE PrecheckDirty(w) \/ PrecheckOk(w) \/ ReleaseOnShutdown(w)
  BY <1>3 DEF PrecheckDirty, PrecheckOk, ReleaseOnShutdown
<1>4. ASSUME NEW s, NEW o, Executed(w, s, o), pc[w] = "loop"
      PROVE  /\ UNCHANGED <<lock, proc, unswept, cli>>
             /\ \A v \in Workers \ {w} : pc'[v] = pc[v] /\ held'[v] = held[v] /\ mem'[v] = mem[v]
             /\ Busy(w) /\ Busy(w)' /\ held'[w] = held[w]
  BY <1>4 DEF Executed
<1>5. CASE Rebase(w) \/ FastForward(w) \/ \E step \in CiSteps : RunCi(w, step)
  <2>1. pc[w] = "loop" /\ \E s, o : Executed(w, s, o)
    BY <1>5 DEF Rebase, FastForward, RunCi
  <2> QED
    BY <1>4, <2>1
<1>6. CASE SaveStep(w) \/ FinalizeEntry(w) \/ HandoffOpen(w) \/ HandoffSave(w)
  BY <1>6 DEF SaveStep, FinalizeEntry, HandoffOpen, HandoffSave
<1> QED
  BY <1>1, <1>2, <1>3, <1>5, <1>6 DEF WorkerStep

\* A step of the user, of the environment or of a CLI command touches neither
\* a thread nor a process.
LEMMA OtherFrame ==
  ASSUME \/ UNCHANGED vars
         \/ \E p \in Procs, e \in Entries : DeleteSelected(p, e)
         \/ \E e \in Entries : Enqueue(e) \/ RemoveWorktree(e)
         \/ \E c \in Clients : ClientStep(c)
         \/ \E r \in Repos : TouchTarget(r)
  PROVE  UNCHANGED <<lock, proc, unswept, pc, held, mem, passed>>
  BY DEF vars, DeleteSelected, Enqueue, RemoveWorktree, TouchTarget, ClientStep, Cancel, Retry,
         Resolve, Reads, CancelWrite, RetryWrite, RespawnWrite, WritesBack, RetryCheck, RetryClose,
         RespawnClose, RespawnOpen, Abort, tuiVars, workerVars

\* The lock decides which process may have threads.
LEMMA NextLock == TypeOK /\ LockInv /\ [Next]_vars => LockInv'
<1> SUFFICES ASSUME TypeOK, LockInv, [Next]_vars
             PROVE  LockInv'
  OBVIOUS
<1> USE DEF TypeOK, LockInv
<1>1. ASSUME NEW w \in Workers, WorkerStep(w) \/ IoError(w)
      PROVE  LockInv'
  BY <1>1, WorkerFrame DEF Active
<1>2. ASSUME NEW p \in Procs, AcquireLock(p) \/ TuiStep(p) \/ Quit(p) \/ Crash(p)
      PROVE  LockInv'
  <2> USE DEF Advance
  <2>1. CASE AcquireLock(p)
    BY <2>1, StoreAssumption DEF AcquireLock, workerVars, Workers
  <2>2. CASE SweepDeadClaims(p) \/ ListOpenSessions(p) \/ ProbeSession(p) \/ Quit(p)
    <3>1. /\ lock' = lock /\ pc' = pc /\ proc[p] # "off"
          /\ \E to \in ProcState : proc' = [proc EXCEPT ![p] = to]
          /\ proc[p] = "running" => proc'[p] = "stopping"
          /\ proc[p] # "stopping"
      BY <2>2 DEF SweepDeadClaims, ListOpenSessions, ProbeSession, Quit, workerVars, ProcState
    <3> QED
      BY <3>1 DEF Workers
  <2>3. CASE SpawnWorkers(p)
    BY <2>3 DEF SpawnWorkers, Workers
  <2>4. CASE Exit(p) \/ Crash(p)
    <3>1. ProcessEnds(p) /\ proc[p] # "off"
      BY <2>4 DEF Exit, Crash
    <3>2. \A q \in Procs : proc'[q] = "off"
      BY <3>1 DEF ProcessEnds
    <3>3. \A w \in Workers : pc'[w] = "none" \/ (w[1] # p /\ pc'[w] = pc[w])
      BY <3>1 DEF ProcessEnds
    <3>4. \A w \in Workers : w[1] \in Procs /\ (w[1] # p => pc[w] = "none")
      BY <3>1 DEF Workers
    <3> QED
      BY <3>2, <3>3, <3>4
  <2> QED
    BY <1>2, <2>1, <2>2, <2>3, <2>4 DEF TuiStep
<1> QED
  BY <1>1, <1>2, OtherFrame DEF Next

\* A thread at work holds an entry of its own repository.
LEMMA NextHeld == TypeOK /\ LockInv /\ HeldInv /\ [Next]_vars => HeldInv'
<1> SUFFICES ASSUME TypeOK, LockInv, HeldInv, [Next]_vars
             PROVE  HeldInv'
  OBVIOUS
<1> USE DEF TypeOK, HeldInv, Busy
<1>1. ASSUME NEW w \in Workers, WorkerStep(w) \/ IoError(w)
      PROVE  HeldInv'
  BY <1>1, WorkerFrame
<1>2. ASSUME NEW p \in Procs, AcquireLock(p) \/ TuiStep(p) \/ Quit(p) \/ Crash(p)
      PROVE  HeldInv'
  <2>1. CASE AcquireLock(p) \/ SweepDeadClaims(p) \/ ListOpenSessions(p) \/ ProbeSession(p)
             \/ Quit(p)
    BY <2>1 DEF AcquireLock, SweepDeadClaims, ListOpenSessions, ProbeSession, Quit, workerVars
  <2>2. CASE SpawnWorkers(p)
    <3>1. \A w \in Workers : w[1] = p => held[w] = NoEntry
      BY <2>2 DEF SpawnWorkers, Advance, LockInv, Workers
    <3> QED
      BY <2>2, <3>1 DEF SpawnWorkers
  <2>3. CASE Exit(p) \/ Crash(p)
    <3>1. ProcessEnds(p)
      BY <2>3 DEF Exit, Crash
    <3>2. \A w \in Workers : \/ pc'[w] = "none" /\ held'[w] = NoEntry
                             \/ pc'[w] = pc[w] /\ held'[w] = held[w]
      BY <3>1 DEF ProcessEnds
    <3> QED
      BY <3>2
  <2> QED
    BY <1>2, <2>1, <2>2, <2>3 DEF TuiStep
<1> QED
  BY <1>1, <1>2, OtherFrame DEF Next

\* The types, the lock and the threads together are inductive.
ThreadInv == TypeOK /\ LockInv /\ HeldInv

LEMMA InitThread == Init => ThreadInv
  BY InitType DEF Init, ThreadInv, LockInv, HeldInv, Busy, Workers

\* Every reachable state has the types that TypeOK gives, whatever crashes,
\* restarts and interleavings led to it.
THEOREM TypeCorrect == Spec => []TypeOK
<1>1. ThreadInv /\ [Next]_vars => ThreadInv'
  BY NextType, NextLock, NextHeld DEF ThreadInv
<1>2. ThreadInv => TypeOK
  BY DEF ThreadInv
<1> QED
  BY InitThread, <1>1, <1>2, PTL DEF Spec

-----------------------------------------------------------------------------
(* What the threads and the commands have in memory.                       *)

\* How transition() ends an entry, from the pairs a worker feeds it.
LEMMA FinalizePair ==
  ASSUME NEW s, NEW o, NEW ci, <<s, o>> \in LoopPair,
         Transition(s, o, ci).act = "Finalize"
  PROVE  \/ /\ Transition(s, o, ci) = Finalize("Merged", NoReason)
            /\ o = "FastForwardOk"
         \/ \E r : /\ Transition(s, o, ci) = Finalize("Failed", r)
                   /\ <<o, r>> \in {<<"LintFailed", "CILintFailed">>,
                                    <<"TestFailed", "CITestsFailed">>,
                                    <<"BuildFailed", "CIBuildFailed">>,
                                    <<"FastForwardRejected", "FastForwardFailed">>}
  BY DEF Transition, LoopPair, Do, Finalize, FirstCiStep, AfterLint, AfterTest

\* A handoff is decided after a rebase conflict only.
LEMMA HandoffPair ==
  ASSUME NEW s, NEW o, NEW ci, <<s, o>> \in LoopPair,
         Transition(s, o, ci).act = "HandoffToAgent"
  PROVE  s = "Rebasing" /\ o = "RebaseConflict"
  BY DEF Transition, LoopPair, Do, Finalize, FirstCiStep, AfterLint, AfterTest

\* The pairs execute() leaves behind.
LEMMA ExecutePair ==
  /\ <<AdvanceStatus("Rebase"), "RebaseOk">> \in LoopPair
  /\ <<AdvanceStatus("Rebase"), "RebaseConflict">> \in LoopPair
  /\ <<AdvanceStatus("FastForward"), "FastForwardOk">> \in LoopPair
  /\ <<AdvanceStatus("FastForward"), "FastForwardRejected">> \in LoopPair
  /\ \A step \in CiSteps, ok \in BOOLEAN :
       <<AdvanceStatus(CiAction(step)), CiOutcome(step, ok)>> \in LoopPair
<1>1. \A step \in CiSteps : AdvanceStatus(CiAction(step)) = "CIRunning"
  BY DEF AdvanceStatus, CiAction, CiSteps
<1>2. \A step \in CiSteps, ok \in BOOLEAN : <<"CIRunning", CiOutcome(step, ok)>> \in LoopPair
  BY DEF CiOutcome, CiSteps, LoopPair
<1> QED
  BY <1>1, <1>2 DEF AdvanceStatus, LoopPair

\* A worker's in-memory entry claims for its own process and carries one of the
\* pairs of the loop.
LEMMA WorkerMem ==
  ASSUME TypeOK, MemInv, RowsConsistent, NEW w \in Workers, WorkerStep(w) \/ IoError(w)
  PROVE  MemInv'
<1> DEFINE Good == /\ pc'[w] \in {"precheck", "loop", "save"} => WorkingCopy(w)'
                   /\ pc'[w] = "handoff" => mem'[w].status = "NeedsHelp" /\ WellFormed(mem'[w])
<1>0. \A v \in Workers \ {w} : pc'[v] = pc[v] /\ mem'[v] = mem[v]
  BY WorkerFrame
<1>a. SUFFICES Good
  BY <1>0 DEF MemInv, WorkingCopy
<1>b. mem[w] \in Row /\ mem \in [Workers -> Row] /\ pc \in [Workers -> WorkerPc]
  BY DEF TypeOK
<1>c. w[1] \in Procs
  BY DEF Workers
<1>1. CASE Claim(w)
  <2>1. PICK e \in Claimable(w[2]) : mem' = [mem EXCEPT ![w] = Claimed(rows[e], w[1])]
    BY <1>1 DEF Claim
  <2>2. rows[e] \in Row /\ ~rows[e].finished /\ rows[e].reason = NoReason
    BY <2>1 DEF Claimable, RowsConsistent, WellFormed, TypeOK, StoreTypeOK, Terminal
  <2>3. pc'[w] = "precheck" /\ mem'[w] = Claimed(rows[e], w[1])
    BY <1>1, <1>b, <2>1 DEF Claim, Goto
  <2> QED
    BY <2>2, <2>3 DEF WorkingCopy, Claimed, Row
<1>2. CASE \/ Leave(w) \/ PrecheckDirty(w) \/ ReleaseOnShutdown(w) \/ FinalizeEntry(w)
           \/ HandoffSave(w) \/ StepFails(w) \/ IoError(w)
  <2>1. pc'[w] \in {"poll", "exited", "dead"}
    BY <1>2, <1>b DEF Leave, PrecheckDirty, ReleaseOnShutdown, FinalizeEntry, HandoffSave,
       StepFails, IoError, Die, Return, Goto
  <2> QED
    BY <2>1
<1>3. CASE PrecheckOk(w)
  <2>1. pc'[w] = "loop"
        /\ mem'[w] = [mem[w] EXCEPT !.status = "Queued", !.lastOutcome = "PrecheckOk"]
    BY <1>3, <1>b DEF PrecheckOk, Goto
  <2>2. WorkingCopy(w)
    BY <1>3 DEF PrecheckOk, MemInv
  <2> QED
    BY <1>b, <2>1, <2>2 DEF WorkingCopy, LoopPair, Row
<1>4. ASSUME NEW s \in InFlight, NEW o, <<s, o>> \in LoopPair, Executed(w, s, o), pc[w] = "loop"
      PROVE  Good
  <2>1. pc'[w] = "save" /\ mem'[w] = [mem[w] EXCEPT !.status = s, !.lastOutcome = o]
    BY <1>4, <1>b DEF Executed, Goto
  <2>2. WorkingCopy(w)
    BY <1>4 DEF MemInv
  <2>3. /\ mem'[w].status = s /\ mem'[w].lastOutcome = o /\ mem'[w].claim = mem[w].claim
        /\ mem'[w].finished = mem[w].finished /\ mem'[w].reason = mem[w].reason
    BY <1>b, <2>1 DEF Row
  <2> QED
    BY <1>4, <2>1, <2>2, <2>3 DEF WorkingCopy
<1>5. CASE Rebase(w) \/ FastForward(w) \/ \E step \in CiSteps : RunCi(w, step)
  <2>1. pc[w] = "loop"
    BY <1>5 DEF Rebase, FastForward, RunCi, Decides
  <2>2. PICK s \in InFlight, o \in StepOutcome : <<s, o>> \in LoopPair /\ Executed(w, s, o)
    BY <1>5, ExecutePair, CiTypes DEF Rebase, FastForward, RunCi, StepOutcome
  <2> QED
    BY <1>4, <2>1, <2>2
<1>6. CASE SaveStep(w)
  <2>1. pc'[w] = "loop" /\ pc[w] = "save" /\ mem' = mem
    BY <1>6, <1>b DEF SaveStep, Goto
  <2> QED
    BY <2>1 DEF MemInv, WorkingCopy
<1>7. CASE HandoffOpen(w)
  <2>1. PICK s \in Sessions :
          mem'[w] = [mem[w] EXCEPT !.status = "NeedsHelp", !.reason = "RebaseUnresolvable",
                                   !.session = s, !.claim = NoProc]
    BY <1>7, <1>b DEF HandoffOpen
  <2>2. WorkingCopy(w) /\ mem[w].lastOutcome = "RebaseConflict"
    BY <1>7, HandoffPair DEF HandoffOpen, Decides, Decision, MemInv, WorkingCopy
  <2>3. pc'[w] = "handoff"
    BY <1>7, <1>b DEF HandoffOpen, Goto
  <2>4. WellFormed(mem'[w]) /\ mem'[w].status = "NeedsHelp"
    BY <1>b, <2>1, <2>2 DEF WellFormed, WorkingCopy, Row, Terminal, InFlight
  <2> QED
    BY <2>3, <2>4
<1> QED
  BY <1>1, <1>2, <1>3, <1>5, <1>6, <1>7 DEF WorkerStep

LEMMA NextMem ==
  TypeOK /\ LockInv /\ MemInv /\ RowsConsistent /\ [Next]_vars => MemInv'
<1> SUFFICES ASSUME TypeOK, LockInv, MemInv, RowsConsistent, [Next]_vars
             PROVE  MemInv'
  OBVIOUS
<1>1. ASSUME NEW p \in Procs, AcquireLock(p) \/ TuiStep(p) \/ Quit(p) \/ Crash(p)
      PROVE  MemInv'
  <2>1. CASE AcquireLock(p) \/ SweepDeadClaims(p) \/ ListOpenSessions(p) \/ ProbeSession(p)
             \/ Quit(p)
    <3>1. pc' = pc /\ mem' = mem
      BY <2>1 DEF AcquireLock, SweepDeadClaims, ListOpenSessions, ProbeSession, Quit, workerVars
    <3> QED
      BY <3>1 DEF MemInv, WorkingCopy
  <2>2. CASE SpawnWorkers(p)
    <3>1. \A w \in Workers : pc'[w] \in {pc[w], "poll"} /\ mem'[w] = mem[w]
      BY <2>2 DEF SpawnWorkers, TypeOK
    <3> QED
      BY <3>1 DEF MemInv, WorkingCopy
  <2>3. CASE Exit(p) \/ Crash(p)
    <3>1. ProcessEnds(p)
      BY <2>3 DEF Exit, Crash
    <3>2. \A w \in Workers : pc'[w] = "none" \/ (pc'[w] = pc[w] /\ mem'[w] = mem[w])
      BY <3>1 DEF ProcessEnds
    <3> QED
      BY <3>2 DEF MemInv, WorkingCopy
  <2> QED
    BY <1>1, <2>1, <2>2, <2>3 DEF TuiStep
<1>2. ASSUME pc' = pc, mem' = mem
      PROVE  MemInv'
  BY <1>2 DEF MemInv, WorkingCopy
<1> QED
  BY <1>1, <1>2, WorkerMem, OtherFrame DEF Next

\* What a command read and edited is fit to be written back.
LEMMA EditedRows ==
  ASSUME NEW row \in Row, WellFormed(row)
  PROVE  /\ WellFormed(Cancelled(row)) /\ Cancelled(row).status = "Cancelled"
         /\ WellFormed(Retried(row)) /\ Retried(row).status = "Queued"
  BY DEF WellFormed, Cancelled, Retried, Row, Terminal, InFlight

LEMMA NextClient ==
  TypeOK /\ ClientInv /\ RowsConsistent /\ [Next]_vars => ClientInv'
<1> SUFFICES ASSUME TypeOK, ClientInv, RowsConsistent, [Next]_vars
             PROVE  ClientInv'
  OBVIOUS
<1>1. ASSUME NEW c \in Clients, ClientStep(c)
      PROVE  ClientInv'
  <2> DEFINE Good(rec) == rec.op # "idle" =>
               /\ rec.id \in Entries
               /\ rec.copy.status \in {"Queued", "NeedsHelp", "Cancelled"}
               /\ WellFormed(rec.copy)
  <2> SUFFICES ASSUME NEW rec, cli' = [cli EXCEPT ![c] = rec]
               PROVE  Good(rec)
    <3>1. \E rec : cli' = [cli EXCEPT ![c] = rec]
      BY <1>1 DEF ClientStep, Cancel, Retry, Resolve, Reads, CancelWrite, RetryWrite, RespawnWrite,
         WritesBack, RetryCheck, RetryClose, RespawnClose, RespawnOpen, Abort
    <3> QED
      BY <3>1 DEF ClientInv, TypeOK
  <2>0. rec = cli'[c] /\ Good(cli[c]) /\ cli[c].copy \in Row
    BY DEF TypeOK, ClientInv
  <2>1. ASSUME NEW e \in Entries, Cancel(c, e) \/ Retry(c, e) \/ Resolve(c, e)
        PROVE  Good(rec)
    <3>1. rows[e] \in Row /\ WellFormed(rows[e])
      BY DEF TypeOK, StoreTypeOK, RowsConsistent
    <3>2. cli \in [Clients -> [op : ClientOp, id : Entries \cup {NoEntry}, copy : Row]]
      BY DEF TypeOK
    <3> QED
      BY <2>0, <2>1, <3>1, <3>2, EditedRows DEF Cancel, Retry, Resolve, Reads
  <2>2. CASE CancelWrite(c) \/ RetryWrite(c) \/ RespawnWrite(c) \/ Abort(c)
    BY <2>0, <2>2 DEF CancelWrite, RetryWrite, RespawnWrite, WritesBack, Abort, IdleClient, TypeOK
  <2>3. CASE RetryCheck(c) \/ RetryClose(c) \/ RespawnClose(c)
    BY <2>0, <2>3 DEF RetryCheck, RetryClose, RespawnClose, TypeOK
  <2>4. CASE RespawnOpen(c)
    BY <2>0, <2>4 DEF RespawnOpen, TypeOK, WellFormed, Row
  <2> QED
    BY <1>1, <2>1, <2>2, <2>3, <2>4 DEF ClientStep
<1>2. ASSUME cli' = cli
      PROVE  ClientInv'
  BY <1>2 DEF ClientInv
<1>3. ASSUME NEW p \in Procs, AcquireLock(p) \/ TuiStep(p) \/ Quit(p) \/ Crash(p)
      PROVE  cli' = cli
  BY <1>3 DEF AcquireLock, TuiStep, SweepDeadClaims, ListOpenSessions, ProbeSession, SpawnWorkers,
     Quit, Exit, Crash, ProcessEnds
<1> QED
  BY <1>1, <1>2, <1>3, WorkerFrame DEF Next, vars, DeleteSelected, Enqueue, RemoveWorktree, TouchTarget

-----------------------------------------------------------------------------
(* The rows.                                                               *)

\* The rows the store writes on its own account are well formed.
LEMMA StoreRows ==
  /\ WellFormed(FreshRow) /\ WellFormed(NewRow)
  /\ WellFormed([FreshRow EXCEPT !.status = "Deleted"])
  /\ \A row \in Row : WellFormed(row) =>
       /\ row.status \in InFlight => /\ WellFormed(Requeued(row))
                                     /\ Requeued(row).status = "Queued"
       /\ row.status = "Queued" =>
            \A p \in Procs : WellFormed(Claimed(row, p))
<1>1. /\ WellFormed(FreshRow) /\ WellFormed(NewRow)
      /\ WellFormed([FreshRow EXCEPT !.status = "Deleted"])
  BY DEF WellFormed, FreshRow, NewRow, Terminal, InFlight, NoReason
<1>2. ASSUME NEW row \in Row, WellFormed(row), row.status \in InFlight
      PROVE  WellFormed(Requeued(row)) /\ Requeued(row).status = "Queued"
  BY <1>2 DEF WellFormed, Requeued, Row, Terminal, InFlight
<1>3. ASSUME NEW row \in Row, WellFormed(row), row.status = "Queued", NEW p \in Procs
      PROVE  WellFormed(Claimed(row, p))
  BY <1>3, StoreAssumption DEF WellFormed, Claimed, Row, Terminal, InFlight
<1> QED
  BY <1>1, <1>2, <1>3

\* What a worker step writes: at most one row, that of the entry it holds (or is
\* claiming); if the row is in flight afterwards the worker holds it.
LEMMA WorkerRows ==
  ASSUME TypeOK, HeldInv, MemInv, RowsConsistent,
         NEW w \in Workers, WorkerStep(w) \/ IoError(w)
  PROVE  \/ rows' = rows /\ held'[w] = held[w]
         \/ \E e \in Entries, row \in Row :
              /\ rows' = [rows EXCEPT ![e] = row]
              /\ RepoOf[e] = w[2]
              /\ WellFormed(row)
              /\ row.status \in InFlight => row.claim = w[1] /\ held'[w] = e
              /\ held[w] \in {e, NoEntry} /\ held'[w] \in {e, NoEntry}
<1> DEFINE Written(e, row) ==
             /\ rows' = [rows EXCEPT ![e] = row]
             /\ RepoOf[e] = w[2]
             /\ WellFormed(row)
             /\ row.status \in InFlight => row.claim = w[1] /\ held'[w] = e
             /\ held[w] \in {e, NoEntry} /\ held'[w] \in {e, NoEntry}
           e == held[w]
<1>a. /\ rows \in [Entries -> Row] /\ mem[w] \in Row /\ held \in [Workers -> Entries \cup {NoEntry}]
      /\ w[1] \in Procs
  BY DEF TypeOK, StoreTypeOK, Workers
<1>b. Busy(w) => e \in Entries /\ RepoOf[e] = w[2]
  BY DEF HeldInv
<1>1. CASE Claim(w)
  <2>1. PICK f \in Claimable(w[2]) : ClaimEntry(f, w[1]) /\ held' = [held EXCEPT ![w] = f]
    BY <1>1 DEF Claim
  <2>2. f \in Entries /\ RepoOf[f] = w[2] /\ rows[f].status = "Queued"
    BY <2>1 DEF Claimable
  <2>3. Claimed(rows[f], w[1]) \in Row /\ WellFormed(Claimed(rows[f], w[1]))
    BY <1>a, <2>2, RowEdits, StoreRows DEF RowsConsistent
  <2>4. Claimed(rows[f], w[1]).claim = w[1]
    BY <1>a, <2>2 DEF Claimed, Row
  <2>5. held[w] = NoEntry
    BY <1>1 DEF Claim, HeldInv
  <2> QED
    BY <1>a, <2>1, <2>2, <2>3, <2>4, <2>5 DEF ClaimEntry
<1>2. CASE \/ Leave(w) \/ PrecheckOk(w) \/ Rebase(w) \/ (\E step \in CiSteps : RunCi(w, step))
           \/ FastForward(w) \/ HandoffOpen(w) \/ StepFails(w) \/ IoError(w)
  BY <1>2 DEF Leave, PrecheckOk, Rebase, RunCi, FastForward, Executed, HandoffOpen, StepFails,
     IoError, Die
<1>3. CASE PrecheckDirty(w)
  <2> DEFINE row == [mem[w] EXCEPT !.status = "Queued", !.claim = NoProc,
                                   !.lastOutcome = "PrecheckDirtyTarget"]
  <2>1. row \in Row
    BY <1>a DEF Row, RowStatus, QueueStatus, StepOutcome
  <2>2. WorkingCopy(w) /\ Busy(w)
    BY <1>3 DEF PrecheckDirty, MemInv, Busy
  <2>3. WellFormed(row) /\ row.status = "Queued"
    BY <1>a, <2>2 DEF WorkingCopy, WellFormed, Row, Terminal, InFlight
  <2>4. rows' = [rows EXCEPT ![e] = row] /\ held'[w] = NoEntry
    BY <1>3, <1>a DEF PrecheckDirty, UpdateEntry, Return
  <2>5. Written(e, row)
    BY <1>b, <2>2, <2>3, <2>4 DEF InFlight
  <2> QED
    BY <1>b, <2>1, <2>2, <2>5
<1>4. CASE ReleaseOnShutdown(w)
  <2> DEFINE row == IF rows[e].status \in InFlight THEN Requeued(rows[e]) ELSE rows[e]
  <2>1. Busy(w) /\ rows' = [rows EXCEPT ![e] = row] /\ held'[w] = NoEntry
    BY <1>4, <1>a DEF ReleaseOnShutdown, Release, Return, Busy
  <2>2. row \in Row /\ WellFormed(row) /\ row.status \notin InFlight
    BY <1>a, <1>b, <2>1, RowEdits, StoreRows DEF RowsConsistent, InFlight
  <2> QED
    BY <1>b, <2>1, <2>2
<1>5. CASE SaveStep(w)
  <2>1. Busy(w) /\ rows' = [rows EXCEPT ![e] = mem[w]] /\ held'[w] = e
    BY <1>5 DEF SaveStep, UpdateEntry, Busy
  <2>2. WorkingCopy(w) /\ pc[w] = "save"
    BY <1>5 DEF SaveStep, MemInv
  <2>3. WellFormed(mem[w]) /\ mem[w].claim = w[1]
    BY <1>a, <2>2, StoreAssumption DEF WorkingCopy, WellFormed, Row, Terminal, InFlight
  <2> QED
    BY <1>a, <1>b, <2>1, <2>3
<1>6. CASE FinalizeEntry(w)
  <2> DEFINE row == Finalized(mem[w], Decision(w))
  <2>1. Busy(w) /\ rows' = [rows EXCEPT ![e] = row] /\ held'[w] = NoEntry
    BY <1>6, <1>a DEF FinalizeEntry, UpdateEntry, Return, Busy, Decides
  <2>2. row \in Row
    BY <1>a, RowEdits, TransitionType DEF Decision
  <2>3. /\ WorkingCopy(w) /\ <<mem[w].status, mem[w].lastOutcome>> \in LoopPair
        /\ Decision(w).act = "Finalize"
    BY <1>6 DEF FinalizeEntry, Decides, MemInv, WorkingCopy
  <2>4. /\ row.status = Decision(w).terminal /\ row.reason = Decision(w).reason
        /\ row.finished = TRUE /\ row.claim = NoProc /\ row.lastOutcome = mem[w].lastOutcome
    BY <1>a DEF Finalized, Row
  <2>5. WellFormed(row) /\ row.status \notin InFlight
    BY <2>3, <2>4, FinalizePair DEF Decision, Finalize, WellFormed, Terminal, InFlight
  <2> QED
    BY <1>b, <2>1, <2>2, <2>5
<1>7. CASE HandoffSave(w)
  <2>1. Busy(w) /\ rows' = [rows EXCEPT ![e] = mem[w]] /\ held'[w] = NoEntry
    BY <1>7, <1>a DEF HandoffSave, UpdateEntry, Return, Busy
  <2>2. WellFormed(mem[w]) /\ mem[w].status = "NeedsHelp"
    BY <1>7 DEF HandoffSave, MemInv
  <2> QED
    BY <1>a, <1>b, <2>1, <2>2 DEF InFlight
<1> QED
  BY <1>1, <1>2, <1>3, <1>4, <1>5, <1>6, <1>7 DEF WorkerStep

\* What any other step writes is well formed and not in flight.
LEMMA OtherRows ==
  ASSUME TypeOK, ClientInv, RowsConsistent,
         \/ UNCHANGED vars
         \/ \E p \in Procs : AcquireLock(p) \/ TuiStep(p) \/ Quit(p) \/ Crash(p)
         \/ \E p \in Procs, e \in Entries : DeleteSelected(p, e)
         \/ \E e \in Entries : Enqueue(e) \/ RemoveWorktree(e)
         \/ \E c \in Clients : ClientStep(c)
         \/ \E r \in Repos : TouchTarget(r)
  PROVE  \A e \in Entries :
           rows'[e] = rows[e] \/ (WellFormed(rows'[e]) /\ rows'[e].status \notin InFlight)
<1> DEFINE Good == \A e \in Entries :
             rows'[e] = rows[e] \/ (WellFormed(rows'[e]) /\ rows'[e].status \notin InFlight)
<1>a. rows \in [Entries -> Row] /\ \A e \in Entries : WellFormed(rows[e])
  BY DEF TypeOK, StoreTypeOK, RowsConsistent
<1>1. ASSUME NEW p \in Procs, SweepDeadClaims(p)
      PROVE  Good
  <2>1. ASSUME NEW e \in Entries
        PROVE  rows'[e] = rows[e] \/ (rows[e].status \in InFlight /\ rows'[e] = Requeued(rows[e]))
    BY <1>1 DEF SweepDeadClaims, SweepDeadPidClaims
  <2> QED
    BY <1>a, <2>1, StoreRows DEF InFlight
<1>2. ASSUME NEW p \in Procs, NEW e \in Entries, DeleteSelected(p, e)
      PROVE  Good
  <2>1. rows' = [rows EXCEPT ![e] = [FreshRow EXCEPT !.status = "Deleted"]]
    BY <1>2 DEF DeleteSelected, DeleteQueued
  <2>2. [FreshRow EXCEPT !.status = "Deleted"].status = "Deleted"
    BY DEF FreshRow
  <2> QED
    BY <1>a, <2>1, <2>2, StoreRows DEF InFlight
<1>3. ASSUME NEW e \in Entries, Enqueue(e)
      PROVE  Good
  BY <1>3, <1>a, StoreRows DEF Enqueue, InsertEntry, InFlight, NewRow, FreshRow
<1>4. ASSUME NEW c \in Clients, ClientStep(c)
      PROVE  Good
  <2>1. CASE rows' = rows
    BY <2>1
  <2>2. CASE CancelWrite(c) \/ RetryWrite(c) \/ RespawnWrite(c)
    <3>1. /\ cli[c].op # "idle"
          /\ rows' = [rows EXCEPT ![cli[c].id] = cli[c].copy] \/ rows' = rows
      BY <2>2 DEF CancelWrite, RetryWrite, RespawnWrite, WritesBack, UpdateEntry
    <3>2. /\ cli[c].copy.status \notin InFlight /\ WellFormed(cli[c].copy)
          /\ cli[c].id \in Entries
      BY <3>1 DEF ClientInv, InFlight
    <3> QED
      BY <1>a, <3>1, <3>2
  <2> QED
    BY <1>4, <2>1, <2>2 DEF ClientStep, Cancel, Retry, Resolve, Reads, RetryCheck, RetryClose,
       RespawnClose, RespawnOpen, Abort
<1>5. CASE rows' = rows
  BY <1>5
<1> QED
  BY <1>1, <1>2, <1>3, <1>4, <1>5 DEF vars, AcquireLock, TuiStep, ListOpenSessions, ProbeSession,
     SpawnWorkers, Quit, Exit, Crash, ProcessEnds, RemoveWorktree, TouchTarget

LEMMA NextRows ==
  TypeOK /\ HeldInv /\ MemInv /\ ClientInv /\ RowsConsistent /\ [Next]_vars => RowsConsistent'
<1> SUFFICES ASSUME TypeOK, HeldInv, MemInv, ClientInv, RowsConsistent, [Next]_vars
             PROVE  RowsConsistent'
  OBVIOUS
<1> USE DEF RowsConsistent
<1>1. ASSUME NEW w \in Workers, WorkerStep(w) \/ IoError(w)
      PROVE  RowsConsistent'
  <2>1. rows \in [Entries -> Row]
    BY DEF TypeOK, StoreTypeOK
  <2> QED
    BY <1>1, <2>1, WorkerRows
<1> QED
  BY <1>1, OtherRows DEF Next

-----------------------------------------------------------------------------
(* Ownership of the rows in flight.                                        *)

\* Between the sweep and the first worker nothing is in flight.
NoneInFlight(p) == proc[p] \in {"swept", "probing"} =>
                     \A e \in Entries : rows[e].status \notin InFlight

LEMMA NextOwned ==
  ASSUME IInv, [Next]_vars
  PROVE  InFlightOwned' /\ (\A p \in Procs : NoneInFlight(p))'
<1>a. /\ rows \in [Entries -> Row] /\ proc \in [Procs -> ProcState]
      /\ RepoOf \in [Entries -> Repos] /\ NoEntry \notin Entries
  BY StoreAssumption DEF IInv, TypeOK, StoreTypeOK
<1>b. \A p, q \in Procs : proc[p] # "off" /\ proc[q] # "off" => p = q
  BY DEF IInv, LockInv
<1>1. ASSUME NEW w \in Workers, WorkerStep(w) \/ IoError(w)
      PROVE  InFlightOwned' /\ (\A p \in Procs : NoneInFlight(p))'
  <2>1. /\ proc' = proc /\ \A v \in Workers \ {w} : held'[v] = held[v]
        /\ w[1] \in Procs /\ proc[w[1]] \in {"running", "stopping"}
    BY <1>1, WorkerFrame DEF IInv, LockInv, Workers, Active
  <2>2. \A p \in Procs : proc[p] # "off" => p = w[1]
    BY <1>b, <2>1
  <2>3. \A p \in Procs : NoneInFlight(p)'
    BY <2>1, <2>2 DEF NoneInFlight
  <2>4. ASSUME rows' = rows, held'[w] = held[w]
        PROVE  InFlightOwned'
    <3>1. \A v \in Workers : held'[v] = held[v]
      BY <2>1, <2>4
    <3>2. \A p \in Procs, e \in Entries : <<p, RepoOf[e]>> \in Workers
      BY <1>a DEF Workers
    <3> QED
      BY <2>1, <2>4, <3>1, <3>2 DEF IInv, InFlightOwned
  <2>5. ASSUME NEW e \in Entries, NEW row \in Row,
               rows' = [rows EXCEPT ![e] = row], RepoOf[e] = w[2],
               row.status \in InFlight => row.claim = w[1] /\ held'[w] = e,
               held[w] \in {e, NoEntry}, held'[w] \in {e, NoEntry}
        PROVE  InFlightOwned'
    <3> SUFFICES ASSUME NEW p \in Procs, proc[p] \in {"running", "stopping"},
                        NEW f \in Entries, rows'[f].status \in InFlight
                 PROVE  rows'[f].claim = p /\ held'[<<p, RepoOf[f]>>] = f
      BY <2>1 DEF InFlightOwned
    <3>1. p = w[1] /\ w = <<p, w[2]>>
      BY <2>2 DEF Workers
    <3>2. CASE f = e
      BY <1>a, <2>5, <3>1, <3>2
    <3>3. CASE f # e
      <4>1. rows'[f] = rows[f]
        BY <1>a, <2>5, <3>3
      <4>2. rows[f].claim = p /\ held[<<p, RepoOf[f]>>] = f
        BY <4>1 DEF IInv, InFlightOwned
      <4>3. <<p, RepoOf[f]>> # w
        BY <1>a, <2>5, <3>3, <4>2
      <4> QED
        BY <1>a, <2>1, <4>1, <4>2, <4>3 DEF Workers
    <3> QED
      BY <3>2, <3>3
  <2> QED
    BY <1>1, <2>3, <2>4, <2>5, WorkerRows DEF IInv
<1>2. ASSUME NEW p \in Procs, SpawnWorkers(p)
      PROVE  InFlightOwned' /\ (\A q \in Procs : NoneInFlight(q))'
  <2>1. rows' = rows /\ proc' = [proc EXCEPT ![p] = "running"] /\ proc[p] = "probing"
    BY <1>2 DEF SpawnWorkers, Advance
  <2>2. \A e \in Entries : rows'[e].status \notin InFlight
    BY <2>1 DEF IInv, SweepIsSafe
  <2> QED
    BY <2>2 DEF InFlightOwned, NoneInFlight
<1>3. ASSUME NEW p \in Procs, SweepDeadClaims(p)
      PROVE  InFlightOwned' /\ (\A q \in Procs : NoneInFlight(q))'
  <2>1. ASSUME NEW e \in Entries
        PROVE  rows'[e].status \notin InFlight
    <3>1. rows[e] \in Row /\ WellFormed(rows[e])
      BY <1>a DEF IInv, RowsConsistent
    <3>2. \/ rows[e].status \notin InFlight /\ rows'[e] = rows[e]
          \/ rows[e].status \in InFlight /\ rows'[e] = Requeued(rows[e])
      BY <1>3, <3>1 DEF SweepDeadClaims, SweepDeadPidClaims, WellFormed
    <3> QED
      BY <3>1, <3>2, StoreRows DEF InFlight
  <2> QED
    BY <2>1 DEF InFlightOwned, NoneInFlight
<1>4. ASSUME NEW p \in Procs, AcquireLock(p) \/ ListOpenSessions(p) \/ ProbeSession(p) \/ Quit(p)
      PROVE  InFlightOwned' /\ (\A q \in Procs : NoneInFlight(q))'
  <2>1. /\ rows' = rows /\ held' = held
        /\ \/ proc' = proc
           \/ \E to \in ProcState : /\ proc' = [proc EXCEPT ![p] = to]
                                    /\ to \in {"swept", "probing"} => proc[p] = "swept"
                                    /\ to \in {"running", "stopping"} => proc[p] = "running"
    BY <1>4 DEF AcquireLock, ListOpenSessions, ProbeSession, Quit, Advance, ProcState, workerVars
  <2> QED
    BY <1>a, <2>1 DEF IInv, InFlightOwned, SweepIsSafe, NoneInFlight
<1>5. ASSUME NEW p \in Procs, Exit(p) \/ Crash(p)
      PROVE  InFlightOwned' /\ (\A q \in Procs : NoneInFlight(q))'
  <2>1. ProcessEnds(p) /\ proc[p] # "off"
    BY <1>5 DEF Exit, Crash
  <2>2. \A q \in Procs : proc'[q] = "off"
    BY <1>a, <1>b, <2>1 DEF ProcessEnds
  <2> QED
    BY <2>2 DEF InFlightOwned, NoneInFlight
<1>6. ASSUME proc' = proc, held' = held,
             \A e \in Entries : rows'[e] = rows[e] \/ rows'[e].status \notin InFlight
      PROVE  InFlightOwned' /\ (\A q \in Procs : NoneInFlight(q))'
  BY <1>6 DEF IInv, InFlightOwned, SweepIsSafe, NoneInFlight
<1> QED
  BY <1>1, <1>2, <1>3, <1>4, <1>5, <1>6, OtherFrame, OtherRows DEF Next, TuiStep, IInv

LEMMA NextInv == IInv /\ [Next]_vars => IInv'
<1> SUFFICES ASSUME IInv, [Next]_vars
             PROVE  IInv'
  OBVIOUS
<1>1. TypeOK' /\ LockInv' /\ HeldInv' /\ MemInv' /\ ClientInv' /\ RowsConsistent'
  BY NextType, NextLock, NextHeld, NextMem, NextClient, NextRows DEF IInv
<1>2. InFlightOwned' /\ (\A p \in Procs : NoneInFlight(p))'
  BY NextOwned
<1>3. (\A p \in Procs : (\E r \in Repos : pc[<<p, r>>] # "none") => lock = p)'
  BY <1>1 DEF LockInv, Workers
<1>4. SweepIsSafe'
  BY <1>2, <1>3 DEF SweepIsSafe, NoneInFlight
<1> QED
  BY <1>1, <1>2, <1>4 DEF IInv

LEMMA InitInv == Init => IInv
<1> SUFFICES ASSUME Init
             PROVE  IInv
  OBVIOUS
<1>1. TypeOK /\ LockInv /\ HeldInv
  BY InitThread DEF ThreadInv
<1>2. MemInv /\ ClientInv
  BY DEF Init, MemInv, ClientInv, IdleClient, Workers
<1>3. RowsConsistent
  BY StoreRows DEF Init, StoreInit, RowsConsistent
<1>4. InFlightOwned /\ SweepIsSafe
  BY DEF Init, StoreInit, InFlightOwned, SweepIsSafe, FreshRow, InFlight, Workers
<1> QED
  BY <1>1, <1>2, <1>3, <1>4 DEF IInv

-----------------------------------------------------------------------------
(* The theorems.                                                           *)

\* The conjunction IInv holds in every reachable state.
THEOREM Inductive == Spec => []IInv
  BY InitInv, NextInv, PTL DEF Spec

\* Every row is well formed, whatever the threads, the sweeps and the stale
\* writes of CLI commands do to it.
THEOREM RowsStayConsistent == Spec => []RowsConsistent
<1>1. IInv => RowsConsistent
  BY DEF IInv
<1> QED
  BY Inductive, <1>1, PTL

\* A row in flight is claimed by the process of record and held by the one
\* thread of its repository.
THEOREM InFlightIsOwned == Spec => []InFlightOwned
<1>1. IInv => InFlightOwned
  BY DEF IInv
<1> QED
  BY Inductive, <1>1, PTL

\* The startup sweep may treat every claim as dead: threads exist in the lock
\* holder only, and nothing is in flight until its workers start.
THEOREM SweepStaysSafe == Spec => []SweepIsSafe
<1>1. IInv => SweepIsSafe
  BY DEF IInv
<1> QED
  BY Inductive, <1>1, PTL

-----------------------------------------------------------------------------
(* The routing.                                                            *)

\* From the pairs of the loop, transition() neither panics nor sleeps, and it
\* chooses a CI step that is configured.
LEMMA Routing ==
  ASSUME NEW s, NEW o, NEW ci, <<s, o>> \in LoopPair
  PROVE  /\ Transition(s, o, ci).act \notin {"Panic", "Sleep"}
         /\ Transition(s, o, ci).act = "RunLint" => "lint" \in ci
         /\ Transition(s, o, ci).act = "RunTest" => "test" \in ci
         /\ Transition(s, o, ci).act = "RunBuild" => "build" \in ci
  BY DEF Transition, LoopPair, Do, Finalize, FirstCiStep, AfterLint, AfterTest

\* The engine never reaches the panic! of transition() nor the expect() of a
\* missing CI command, whatever was claimed, retried or released before.
THEOREM FsmIsTotal == Spec => []FsmTotal
<1>1. IInv => FsmTotal
  <2> SUFFICES ASSUME IInv, NEW w \in Workers, pc[w] = "loop"
               PROVE  /\ Decision(w).act \notin {"Panic", "Sleep"}
                      /\ \A step \in CiSteps : Decision(w).act = CiAction(step) =>
                           step \in ciOf[w[2]]
    BY DEF FsmTotal
  <2>1. <<mem[w].status, mem[w].lastOutcome>> \in LoopPair
    BY DEF IInv, MemInv, WorkingCopy
  <2> QED
    BY <2>1, Routing DEF Decision, CiAction, CiSteps
<1> QED
  BY Inductive, <1>1, PTL

-----------------------------------------------------------------------------
(* Only what is green lands.                                               *)

Passing == {"RebaseOk", "LintPassed", "TestPassed", "BuildPassed", "FastForwardOk"}

\* The steps a worker has run when its last outcome is o: the configured ones up
\* to o.
Done(o, ci) ==
  CASE o = "RebaseOk"   -> {}
    [] o = "LintPassed" -> ci \cap {"lint"}
    [] o = "TestPassed" -> ci \cap {"lint", "test"}
    [] OTHER            -> ci

PassInv ==
  \A w \in Workers :
    IF pc[w] \in {"loop", "save"}
    THEN mem[w].lastOutcome \in Passing => passed[w] = Done(mem[w].lastOutcome, ciOf[w[2]])
    ELSE mem[w].lastOutcome # "FastForwardOk"

\* A step that transition() chooses after the steps of Done is the next
\* configured one; the fast-forward comes after the last.
LEMMA NextStep ==
  ASSUME NEW s, NEW o, NEW ci \in SUBSET CiSteps, <<s, o>> \in LoopPair
  PROVE  LET act == Transition(s, o, ci).act
         IN  /\ act \in {"RunLint", "RunTest", "RunBuild", "FastForward"} => o \in Passing
             /\ act = "RunLint" => Done(o, ci) \cup {"lint"} = Done("LintPassed", ci)
             /\ act = "RunTest" => Done(o, ci) \cup {"test"} = Done("TestPassed", ci)
             /\ act = "RunBuild" => Done(o, ci) \cup {"build"} = Done("BuildPassed", ci)
             /\ act = "FastForward" => Done(o, ci) = ci
<1> DEFINE act == Transition(s, o, ci).act
<1>1. /\ act \in {"RunLint", "RunTest", "RunBuild", "FastForward"} => o \in Passing
      /\ act = "RunLint" => "lint" \in ci /\ o = "RebaseOk"
      /\ act = "RunTest" => "test" \in ci /\ (o = "LintPassed" \/ (o = "RebaseOk" /\ "lint" \notin ci))
      /\ act = "RunBuild" => /\ "build" \in ci
                             /\ \/ o = "TestPassed"
                                \/ (o = "LintPassed" /\ "test" \notin ci)
                                \/ (o = "RebaseOk" /\ "lint" \notin ci /\ "test" \notin ci)
      /\ act = "FastForward" => \/ o = "BuildPassed"
                                \/ (o = "TestPassed" /\ "build" \notin ci)
                                \/ (o = "LintPassed" /\ "test" \notin ci /\ "build" \notin ci)
                                \/ (o = "RebaseOk" /\ ci = {})
  BY DEF Transition, LoopPair, Do, Finalize, FirstCiStep, AfterLint, AfterTest, Passing, CiSteps
<1>2. /\ Done("RebaseOk", ci) = {}
      /\ Done("LintPassed", ci) = ci \cap {"lint"}
      /\ Done("TestPassed", ci) = ci \cap {"lint", "test"}
      /\ Done("BuildPassed", ci) = ci
  BY DEF Done
<1>3. \A x \in ci : x = "lint" \/ x = "test" \/ x = "build"
  BY DEF CiSteps
<1>4. act = "RunLint" => Done(o, ci) \cup {"lint"} = Done("LintPassed", ci)
  BY <1>1, <1>2
<1>5. act = "RunTest" => Done(o, ci) \cup {"test"} = Done("TestPassed", ci)
  BY <1>1, <1>2
<1>6. act = "RunBuild" => Done(o, ci) \cup {"build"} = Done("BuildPassed", ci)
  BY <1>1, <1>2, <1>3
<1>7. act = "FastForward" => Done(o, ci) = ci
  BY <1>1, <1>2, <1>3
<1> QED
  BY <1>1, <1>4, <1>5, <1>6, <1>7

LEMMA InitPass == Init => PassInv
  BY DEF Init, PassInv, FreshRow, NoOutcome, Workers

LEMMA NextPass == IInv /\ PassInv /\ [Next]_vars => PassInv'
<1> SUFFICES ASSUME IInv, PassInv, [Next]_vars
             PROVE  PassInv'
  OBVIOUS
<1>a. /\ TypeOK /\ LockInv
      /\ mem \in [Workers -> Row] /\ pc \in [Workers -> WorkerPc]
      /\ passed \in [Workers -> SUBSET CiSteps] /\ ciOf \in [Repos -> SUBSET CiSteps]
  BY DEF IInv, TypeOK
<1>1. ASSUME NEW w \in Workers, WorkerStep(w) \/ IoError(w)
      PROVE  PassInv'
  <2> DEFINE Good == IF pc'[w] \in {"loop", "save"}
                     THEN mem'[w].lastOutcome \in Passing =>
                            passed'[w] = Done(mem'[w].lastOutcome, ciOf[w[2]])
                     ELSE mem'[w].lastOutcome # "FastForwardOk"
  <2>0. /\ \A v \in Workers \ {w} : pc'[v] = pc[v] /\ mem'[v] = mem[v]
        /\ w[2] \in Repos
    BY <1>1, <1>a, WorkerFrame DEF Workers
  <2>1. ciOf' = ciOf /\ \A v \in Workers \ {w} : passed'[v] = passed[v]
    BY <1>1, <1>a DEF WorkerStep, IoError, Claim, Leave, PrecheckDirty, PrecheckOk,
       ReleaseOnShutdown, Rebase, RunCi, FastForward, SaveStep, FinalizeEntry, HandoffOpen,
       HandoffSave, StepFails, Die, Return, Executed, envVars
  <2>2. SUFFICES Good
    BY <2>0, <2>1 DEF PassInv, Workers
  <2>3. CASE Claim(w) \/ PrecheckOk(w)
    <3>1. CASE Claim(w)
      <4>1. PICK e \in Entries : mem'[w] = Claimed(rows[e], w[1]) /\ rows[e] \in Row
        BY <3>1, <1>a DEF Claim, Claimable, TypeOK, StoreTypeOK
      <4>2. mem'[w].lastOutcome = "PrecheckOk" /\ pc'[w] = "precheck"
        BY <3>1, <4>1, <1>a DEF Claim, Claimed, Goto, Row
      <4> QED
        BY <4>2
    <3>2. CASE PrecheckOk(w)
      BY <3>2, <1>a DEF PrecheckOk, Goto, Row, Passing
    <3> QED
      BY <2>3, <3>1, <3>2
  <2>4. CASE Leave(w) \/ HandoffOpen(w)
    <3>1. CASE Leave(w)
      BY <3>1, <1>a DEF Leave, Goto, PassInv
    <3>2. CASE HandoffOpen(w)
      <4>1. PICK s \in Sessions :
              mem'[w] = [mem[w] EXCEPT !.status = "NeedsHelp", !.reason = "RebaseUnresolvable",
                                       !.session = s, !.claim = NoProc]
        BY <3>2, <1>a DEF HandoffOpen
      <4>2. pc[w] = "loop" /\ pc'[w] = "handoff" /\ Decision(w).act = "HandoffToAgent"
        BY <3>2, <1>a DEF HandoffOpen, Decides, Goto
      <4>3. <<mem[w].status, mem[w].lastOutcome>> \in LoopPair
        BY <4>2 DEF IInv, MemInv, WorkingCopy
      <4>4. mem[w].lastOutcome = "RebaseConflict"
        BY <4>2, <4>3, HandoffPair DEF Decision
      <4> QED
        BY <4>1, <4>2, <4>4, <1>a DEF Row
    <3> QED
      BY <2>4, <3>1, <3>2
  <2>5. CASE PrecheckDirty(w) \/ ReleaseOnShutdown(w) \/ FinalizeEntry(w) \/ HandoffSave(w)
             \/ StepFails(w) \/ IoError(w)
    <3>1. mem'[w] = FreshRow /\ pc'[w] \notin {"loop", "save"}
      BY <2>5, <1>a DEF PrecheckDirty, ReleaseOnShutdown, FinalizeEntry, HandoffSave, StepFails,
         IoError, Die, Return, Goto
    <3> QED
      BY <3>1 DEF FreshRow, NoOutcome
  <2>6. ASSUME NEW s, NEW o, Executed(w, s, o)
        PROVE  pc'[w] = "save" /\ mem'[w].lastOutcome = o
    BY <2>6, <1>a DEF Executed, Goto, Row
  <2>7. CASE Rebase(w)
    BY <2>6, <2>7, <1>a DEF Rebase, Passing, Done
  <2>8. ASSUME pc[w] = "loop"
        PROVE  /\ <<mem[w].status, mem[w].lastOutcome>> \in LoopPair
               /\ mem[w].lastOutcome \in Passing =>
                    passed[w] = Done(mem[w].lastOutcome, ciOf[w[2]])
               /\ ciOf[w[2]] \in SUBSET CiSteps
    BY <2>0, <2>8, <1>a DEF IInv, MemInv, WorkingCopy, PassInv
  <2>9. ASSUME NEW step \in CiSteps, RunCi(w, step)
        PROVE  Good
    <3>1. PICK ok \in BOOLEAN :
            /\ Executed(w, AdvanceStatus(CiAction(step)), CiOutcome(step, ok))
            /\ passed'[w] = IF ok THEN passed[w] \cup {step} ELSE passed[w]
      BY <2>9, <1>a DEF RunCi
    <3>2. pc[w] = "loop" /\ Decision(w).act = CiAction(step)
      BY <2>9 DEF RunCi, Decides
    <3>3. CASE ~ok
      BY <2>6, <3>1, <3>3 DEF CiOutcome, CiSteps, Passing
    <3>4. CASE ok
      <4>1. passed'[w] = Done(CiOutcome(step, TRUE), ciOf[w[2]])
        BY <2>8, <3>1, <3>2, <3>4, NextStep DEF Decision, CiAction, CiSteps, CiOutcome
      <4> QED
        BY <2>6, <3>1, <3>4, <4>1
    <3> QED
      BY <3>3, <3>4
  <2>10. CASE FastForward(w)
    <3>1. passed'[w] = ciOf[w[2]]
      BY <2>8, <2>10, NextStep DEF FastForward, Decides, Decision
    <3> QED
      BY <2>6, <2>10, <3>1 DEF FastForward, Passing, Done
  <2>11. CASE SaveStep(w)
    <3>1. pc[w] = "save" /\ pc'[w] = "loop" /\ mem' = mem /\ passed' = passed
      BY <2>11, <1>a DEF SaveStep, Goto
    <3> QED
      BY <3>1 DEF PassInv
  <2> QED
    BY <1>1, <2>3, <2>4, <2>5, <2>7, <2>9, <2>10, <2>11 DEF WorkerStep
<1>2. ASSUME NEW p \in Procs, AcquireLock(p) \/ TuiStep(p) \/ Quit(p) \/ Crash(p)
      PROVE  PassInv'
  <2>0. ciOf' = ciOf
    BY <1>2 DEF AcquireLock, TuiStep, SweepDeadClaims, ListOpenSessions, ProbeSession, SpawnWorkers,
       Quit, Exit, Crash, ProcessEnds, envVars
  <2>1. \A w \in Workers :
          \/ pc'[w] = pc[w] /\ mem'[w] = mem[w] /\ passed'[w] = passed[w]
          \/ pc[w] = "none" /\ pc'[w] = "poll" /\ mem'[w] = mem[w]
          \/ pc'[w] = "none" /\ mem'[w] = FreshRow
    BY <1>2, <1>a DEF AcquireLock, TuiStep, SweepDeadClaims, ListOpenSessions, ProbeSession,
       SpawnWorkers, Quit, Exit, Crash, ProcessEnds, Advance, LockInv, workerVars
  <2> QED
    BY <2>0, <2>1 DEF PassInv, FreshRow, NoOutcome
<1>3. ASSUME UNCHANGED <<pc, mem, passed, ciOf>>
      PROVE  PassInv'
  BY <1>3 DEF PassInv
<1>4. ASSUME NEW r \in Repos, TouchTarget(r)
      PROVE  ciOf' = ciOf
  BY <1>4 DEF TouchTarget
<1>5. ASSUME \/ UNCHANGED vars
             \/ \E p \in Procs, e \in Entries : DeleteSelected(p, e)
             \/ \E e \in Entries : Enqueue(e) \/ RemoveWorktree(e)
             \/ \E c \in Clients : ClientStep(c)
      PROVE  ciOf' = ciOf
  BY <1>5 DEF vars, envVars, DeleteSelected, Enqueue, RemoveWorktree, ClientStep, Cancel, Retry,
     Resolve, Reads, CancelWrite, RetryWrite, RespawnWrite, WritesBack, RetryCheck, RetryClose,
     RespawnClose, RespawnOpen, Abort
<1> QED
  BY <1>1, <1>2, <1>3, <1>4, <1>5, OtherFrame DEF Next

\* No route through the state machine, and no restart, retry or stale write, gets
\* an entry fast-forwarded without every configured CI step having passed since
\* its last rebase.
THEOREM OnlyGreenLands == Spec => []LandsOnlyGreen
<1>1. Init => IInv /\ PassInv
  BY InitInv, InitPass
<1>2. (IInv /\ PassInv) /\ [Next]_vars => (IInv /\ PassInv)'
  BY NextInv, NextPass
<1>3. IInv /\ PassInv => LandsOnlyGreen
  BY DEF PassInv, LandsOnlyGreen, Passing, Done
<1> QED
  BY <1>1, <1>2, <1>3, PTL DEF Spec

-----------------------------------------------------------------------------
(* What is recorded as Merged has landed and stays Merged.                 *)

\* A worker that has seen its fast-forward succeed holds an entry that landed,
\* and nobody works on a Merged entry.
LandedInv ==
  /\ MergedHasLanded
  /\ \A w \in Workers :
       pc[w] \in {"loop", "save"} /\ mem[w].lastOutcome = "FastForwardOk" => held[w] \in landed
  /\ \A w \in Workers : Busy(w) => rows[held[w]].status # "Merged"

\* A worker turns a row into a Merged one only at the end of the pass in which its
\* fast-forward succeeded.
LEMMA WorkerMerges ==
  ASSUME IInv, NEW w \in Workers, WorkerStep(w) \/ IoError(w),
         NEW e \in Entries, rows'[e].status = "Merged", rows[e].status # "Merged"
  PROVE  /\ e = held[w] /\ pc[w] = "loop" /\ mem[w].lastOutcome = "FastForwardOk"
         /\ pc'[w] = "poll"
<1>a. /\ rows \in [Entries -> Row] /\ mem[w] \in Row /\ pc \in [Workers -> WorkerPc]
  BY DEF IInv, TypeOK, StoreTypeOK
<1>1. CASE FinalizeEntry(w)
  <2>1. /\ pc[w] = "loop" /\ pc'[w] = "poll" /\ Decision(w).act = "Finalize"
        /\ rows' = [rows EXCEPT ![held[w]] = Finalized(mem[w], Decision(w))]
    BY <1>1, <1>a DEF FinalizeEntry, Decides, UpdateEntry, Return, Goto
  <2>2. e = held[w] /\ Finalized(mem[w], Decision(w)).status = "Merged"
    BY <1>a, <2>1
  <2>3. Decision(w).terminal = "Merged"
    BY <1>a, <2>2 DEF Finalized, Row
  <2>4. <<mem[w].status, mem[w].lastOutcome>> \in LoopPair
    BY <2>1 DEF IInv, MemInv, WorkingCopy
  <2>5. mem[w].lastOutcome = "FastForwardOk"
    BY <2>1, <2>3, <2>4, FinalizePair DEF Decision, Finalize
  <2> QED
    BY <2>1, <2>2, <2>5
<1>2. CASE Claim(w)
  <2>1. PICK f \in Entries : rows' = [rows EXCEPT ![f] = Claimed(@, w[1])]
    BY <1>2 DEF Claim, Claimable, ClaimEntry
  <2>2. Claimed(rows[f], w[1]).status = "Rebasing"
    BY <1>a DEF Claimed, Row
  <2> QED
    BY <1>a, <2>1, <2>2
<1>3. CASE PrecheckDirty(w)
  <2>1. rows' = [rows EXCEPT ![held[w]] =
                   [mem[w] EXCEPT !.status = "Queued", !.claim = NoProc,
                                  !.lastOutcome = "PrecheckDirtyTarget"]]
    BY <1>3 DEF PrecheckDirty, UpdateEntry
  <2> QED
    BY <1>a, <2>1 DEF Row
<1>4. CASE ReleaseOnShutdown(w)
  <2>1. rows'[e] = rows[e] \/ rows'[e] = Requeued(rows[e])
    BY <1>4, <1>a DEF ReleaseOnShutdown, Release
  <2> QED
    BY <1>a, <2>1 DEF Requeued, Row
<1>5. CASE SaveStep(w) \/ HandoffSave(w)
  <2>1. rows' = [rows EXCEPT ![held[w]] = mem[w]] /\ pc[w] \in {"save", "handoff"}
    BY <1>5 DEF SaveStep, HandoffSave, UpdateEntry
  <2>2. mem[w].status # "Merged"
    BY <2>1 DEF IInv, MemInv, WorkingCopy, InFlight
  <2> QED
    BY <1>a, <2>1, <2>2
<1>6. CASE \/ Leave(w) \/ PrecheckOk(w) \/ Rebase(w) \/ FastForward(w) \/ HandoffOpen(w)
           \/ StepFails(w) \/ IoError(w) \/ \E step \in CiSteps : RunCi(w, step)
  BY <1>6 DEF Leave, PrecheckOk, Rebase, FastForward, HandoffOpen, StepFails, IoError, Die, RunCi,
     Executed
<1> QED
  BY <1>1, <1>2, <1>3, <1>4, <1>5, <1>6 DEF WorkerStep

\* Nothing but a worker makes a row Merged.
LEMMA OtherMerges ==
  ASSUME IInv,
         \/ UNCHANGED vars
         \/ \E p \in Procs : AcquireLock(p) \/ TuiStep(p) \/ Quit(p) \/ Crash(p)
         \/ \E p \in Procs, e \in Entries : DeleteSelected(p, e)
         \/ \E e \in Entries : Enqueue(e) \/ RemoveWorktree(e)
         \/ \E c \in Clients : ClientStep(c)
         \/ \E r \in Repos : TouchTarget(r)
  PROVE  /\ \A e \in Entries : rows'[e].status = "Merged" => rows[e].status = "Merged"
         /\ landed' = landed
<1>a. rows \in [Entries -> Row]
  BY DEF IInv, TypeOK, StoreTypeOK
<1>1. landed' = landed
  BY DEF vars, AcquireLock, TuiStep, SweepDeadClaims, ListOpenSessions, ProbeSession, SpawnWorkers,
     Quit, Exit, Crash, ProcessEnds, DeleteSelected, Enqueue, RemoveWorktree, TouchTarget,
     ClientStep, Cancel, Retry, Resolve, Reads, CancelWrite, RetryWrite, RespawnWrite, WritesBack,
     RetryCheck, RetryClose, RespawnClose, RespawnOpen, Abort
<1>2. ASSUME NEW p \in Procs, SweepDeadClaims(p), NEW e \in Entries
      PROVE  rows'[e].status = "Merged" => rows[e].status = "Merged"
  <2>1. rows'[e] = rows[e] \/ rows'[e] = Requeued(rows[e])
    BY <1>2, <1>a DEF SweepDeadClaims, SweepDeadPidClaims
  <2> QED
    BY <1>a, <2>1 DEF Requeued, Row
<1>3. ASSUME NEW p \in Procs, NEW f \in Entries, DeleteSelected(p, f), NEW e \in Entries
      PROVE  rows'[e].status = "Merged" => rows[e].status = "Merged"
  BY <1>3, <1>a DEF DeleteSelected, DeleteQueued, FreshRow
<1>4. ASSUME NEW f \in Entries, Enqueue(f), NEW e \in Entries
      PROVE  rows'[e].status = "Merged" => rows[e].status = "Merged"
  BY <1>4, <1>a DEF Enqueue, InsertEntry, NewRow, FreshRow
<1>5. ASSUME NEW c \in Clients, ClientStep(c), NEW e \in Entries
      PROVE  rows'[e].status = "Merged" => rows[e].status = "Merged"
  <2>1. CASE CancelWrite(c) \/ RetryWrite(c) \/ RespawnWrite(c)
    <3>1. /\ cli[c].op # "idle"
          /\ rows' = [rows EXCEPT ![cli[c].id] = cli[c].copy] \/ rows' = rows
      BY <2>1 DEF CancelWrite, RetryWrite, RespawnWrite, WritesBack, UpdateEntry
    <3>2. cli[c].copy.status # "Merged"
      BY <3>1 DEF IInv, ClientInv
    <3> QED
      BY <1>a, <3>1, <3>2
  <2>2. CASE rows' = rows
    BY <2>2
  <2> QED
    BY <1>5, <2>1, <2>2 DEF ClientStep, Cancel, Retry, Resolve, Reads, RetryCheck, RetryClose,
       RespawnClose, RespawnOpen, Abort
<1>6. CASE rows' = rows
  BY <1>1, <1>6
<1>7. \A e \in Entries : rows'[e].status = "Merged" => rows[e].status = "Merged"
  BY <1>2, <1>3, <1>4, <1>5, <1>6 DEF vars, AcquireLock, TuiStep, ListOpenSessions, ProbeSession,
     SpawnWorkers, Quit, Exit, Crash, ProcessEnds, RemoveWorktree, TouchTarget
<1> QED
  BY <1>1, <1>7

LEMMA InitLanded == Init => LandedInv
  BY DEF Init, StoreInit, LandedInv, MergedHasLanded, FreshRow, Busy, NoOutcome, Workers

\* At most one thread is busy with an entry.
LEMMA SameThread ==
  ASSUME IInv, NEW v \in Workers, NEW w \in Workers, Busy(v), Busy(w), held[v] = held[w]
  PROVE  v = w
<1>1. v[2] = w[2]
  BY DEF IInv, HeldInv
<1>2. proc[v[1]] # "off" /\ proc[w[1]] # "off" /\ v[1] \in Procs /\ w[1] \in Procs
  BY DEF IInv, LockInv, Busy, Workers
<1>3. v[1] = w[1]
  BY <1>2 DEF IInv, LockInv
<1> QED
  BY <1>1, <1>3 DEF Workers

\* A thread reports a fast-forward only for an entry that has landed.
LEMMA WorkerLands ==
  ASSUME IInv, LandedInv, NEW w \in Workers, WorkerStep(w) \/ IoError(w)
  PROVE  /\ landed \subseteq landed'
         /\ pc'[w] \in {"loop", "save"} /\ mem'[w].lastOutcome = "FastForwardOk" =>
              held'[w] \in landed'
<1>a. /\ mem \in [Workers -> Row] /\ pc \in [Workers -> WorkerPc]
      /\ held \in [Workers -> Entries \cup {NoEntry}]
  BY DEF IInv, TypeOK
<1>1. CASE Claim(w) \/ Leave(w) \/ PrecheckDirty(w) \/ ReleaseOnShutdown(w) \/ FinalizeEntry(w)
           \/ HandoffOpen(w) \/ HandoffSave(w) \/ StepFails(w) \/ IoError(w)
  BY <1>1, <1>a DEF Claim, Leave, PrecheckDirty, ReleaseOnShutdown, FinalizeEntry, HandoffOpen,
     HandoffSave, StepFails, IoError, Die, Return, Goto
<1>2. CASE PrecheckOk(w)
  BY <1>2, <1>a DEF PrecheckOk, Row
<1>3. ASSUME NEW s, NEW o, Executed(w, s, o)
      PROVE  mem'[w].lastOutcome = o /\ held' = held
  BY <1>3, <1>a DEF Executed, Row
<1>4. CASE Rebase(w)
  BY <1>3, <1>4 DEF Rebase
<1>5. ASSUME NEW step \in CiSteps, RunCi(w, step)
      PROVE  landed' = landed /\ mem'[w].lastOutcome # "FastForwardOk"
  BY <1>3, <1>5 DEF RunCi, CiOutcome, CiSteps
<1>6. CASE FastForward(w)
  BY <1>3, <1>6 DEF FastForward
<1>7. CASE SaveStep(w)
  BY <1>7, <1>a DEF SaveStep, LandedInv
<1> QED
  BY <1>1, <1>2, <1>4, <1>5, <1>6, <1>7 DEF WorkerStep

LEMMA NextLanded == IInv /\ LandedInv /\ [Next]_vars => LandedInv'
<1> SUFFICES ASSUME IInv, LandedInv, [Next]_vars
             PROVE  LandedInv'
  OBVIOUS
<1>a. TypeOK /\ LockInv /\ rows \in [Entries -> Row]
  BY DEF IInv, TypeOK, StoreTypeOK
<1>1. ASSUME NEW w \in Workers, WorkerStep(w) \/ IoError(w)
      PROVE  LandedInv'
  <2>0. /\ \A v \in Workers \ {w} : pc'[v] = pc[v] /\ mem'[v] = mem[v] /\ held'[v] = held[v]
        /\ landed \subseteq landed'
    BY <1>1, <1>a, WorkerFrame, WorkerLands
  <2>1. MergedHasLanded'
    <3> SUFFICES ASSUME NEW e \in Entries, rows'[e].status = "Merged"
                 PROVE  e \in landed'
      BY DEF MergedHasLanded
    <3>1. CASE rows[e].status = "Merged"
      BY <2>0, <3>1 DEF LandedInv, MergedHasLanded
    <3>2. CASE rows[e].status # "Merged"
      BY <1>1, <2>0, <3>2, WorkerMerges DEF LandedInv
    <3> QED
      BY <3>1, <3>2
  <2>2. \A v \in Workers :
          pc'[v] \in {"loop", "save"} /\ mem'[v].lastOutcome = "FastForwardOk" =>
            held'[v] \in landed'
    BY <1>1, <2>0, WorkerLands DEF LandedInv
  <2>3. ASSUME NEW v \in Workers, Busy(v)'
        PROVE  rows'[held'[v]].status # "Merged"
    <3>1. CASE v # w
      <4>1. Busy(v) /\ held'[v] = held[v] /\ held[v] \in Entries
        BY <2>0, <2>3, <3>1 DEF Busy, IInv, HeldInv
      <4>2. ASSUME rows'[held[v]].status = "Merged"
            PROVE  FALSE
        <5>1. held[v] = held[w] /\ pc[w] = "loop"
          BY <1>1, <4>1, <4>2, WorkerMerges DEF LandedInv
        <5> QED
          BY <3>1, <4>1, <5>1, SameThread DEF Busy
      <4> QED
        BY <4>1, <4>2
    <3>2. CASE v = w
      <4>1. CASE Claim(w)
        <5>1. PICK e \in Entries : /\ rows' = [rows EXCEPT ![e] = Claimed(@, w[1])]
                                   /\ held'[w] = e
          BY <4>1, <1>a DEF Claim, Claimable, ClaimEntry, TypeOK
        <5>2. Claimed(rows[e], w[1]).status = "Rebasing"
          BY <1>a DEF Claimed, Row
        <5> QED
          BY <1>a, <3>2, <5>1, <5>2
      <4>2. CASE ~Claim(w)
        <5>1. Busy(w) /\ held'[w] = held[w] /\ held[w] \in Entries /\ pc'[w] # "poll"
          BY <1>1, <1>a, <2>3, <3>2, <4>2, WorkerFrame DEF Busy, IInv, HeldInv
        <5> QED
          BY <1>1, <3>2, <5>1, WorkerMerges DEF LandedInv
      <4> QED
        BY <4>1, <4>2
    <3> QED
      BY <3>1, <3>2
  <2> QED
    BY <2>1, <2>2, <2>3 DEF LandedInv
<1>b. ASSUME \/ UNCHANGED vars
             \/ \E p \in Procs : AcquireLock(p) \/ TuiStep(p) \/ Quit(p) \/ Crash(p)
             \/ \E p \in Procs, e \in Entries : DeleteSelected(p, e)
             \/ \E e \in Entries : Enqueue(e) \/ RemoveWorktree(e)
             \/ \E c \in Clients : ClientStep(c)
             \/ \E r \in Repos : TouchTarget(r),
             \A v \in Workers : Busy(v)' =>
               pc'[v] = pc[v] /\ mem'[v] = mem[v] /\ held'[v] = held[v]
      PROVE  LandedInv'
  <2>1. /\ \A e \in Entries : rows'[e].status = "Merged" => rows[e].status = "Merged"
        /\ landed' = landed
    BY <1>b, OtherMerges
  <2>2. \A v \in Workers : Busy(v)' => Busy(v) /\ held[v] \in Entries
    BY <1>b DEF Busy, IInv, HeldInv
  <2> QED
    BY <1>b, <2>1, <2>2 DEF LandedInv, MergedHasLanded, Busy
<1>2. ASSUME NEW p \in Procs, AcquireLock(p) \/ TuiStep(p) \/ Quit(p) \/ Crash(p)
      PROVE  LandedInv'
  <2>1. \A v \in Workers :
          \/ pc'[v] = pc[v] /\ mem'[v] = mem[v] /\ held'[v] = held[v]
          \/ pc'[v] \in {"none", "poll"}
    BY <1>2, <1>a DEF AcquireLock, TuiStep, SweepDeadClaims, ListOpenSessions, ProbeSession,
       SpawnWorkers, Quit, Exit, Crash, ProcessEnds, workerVars
  <2> QED
    BY <1>2, <1>b, <2>1 DEF Busy
<1> QED
  BY <1>1, <1>2, <1>b, OtherFrame DEF Next

\* A row says Merged only of an entry whose fast-forward has succeeded, in whatever
\* order cancels, retries, releases and sweeps wrote to it.
THEOREM MergedIsLanded == Spec => []MergedHasLanded
<1>1. Init => IInv /\ LandedInv
  BY InitInv, InitLanded
<1>2. (IInv /\ LandedInv) /\ [Next]_vars => (IInv /\ LandedInv)'
  BY NextInv, NextLanded
<1>3. IInv /\ LandedInv => MergedHasLanded
  BY DEF LandedInv
<1> QED
  BY <1>1, <1>2, <1>3, PTL DEF Spec

\* What a step of the engine may write to: a worker its own entry, a claim a waiting
\* row, a sweep the rows in flight.
LEMMA EngineWrites ==
  ASSUME IInv, NEW e \in Entries, rows[e].status = "Merged",
         \A w \in Workers : Busy(w) => held[w] # e,
         \/ \E w \in Workers : WorkerStep(w) \/ IoError(w)
         \/ \E p \in Procs : AcquireLock(p) \/ TuiStep(p) \/ Quit(p) \/ Crash(p)
         \/ \E p \in Procs, f \in Entries : DeleteSelected(p, f)
         \/ \E f \in Entries : Enqueue(f) \/ RemoveWorktree(f)
         \/ \E r \in Repos : TouchTarget(r)
  PROVE  rows'[e] = rows[e]
<1>a. rows \in [Entries -> Row]
  BY DEF IInv, TypeOK, StoreTypeOK
<1>1. ASSUME NEW w \in Workers, WorkerStep(w) \/ IoError(w)
      PROVE  rows'[e] = rows[e]
  <2>1. CASE Claim(w)
    <3>1. PICK f \in Entries : rows[f].status = "Queued" /\ rows' = [rows EXCEPT ![f] = Claimed(@, w[1])]
      BY <2>1 DEF Claim, Claimable, ClaimEntry
    <3> QED
      BY <1>a, <3>1
  <2>2. CASE PrecheckDirty(w) \/ SaveStep(w) \/ FinalizeEntry(w) \/ HandoffSave(w)
    <3>1. Busy(w) /\ \E row : rows' = [rows EXCEPT ![held[w]] = row]
      BY <2>2 DEF PrecheckDirty, SaveStep, FinalizeEntry, HandoffSave, UpdateEntry, Decides, Busy
    <3> QED
      BY <1>a, <3>1
  <2>3. CASE ReleaseOnShutdown(w)
    <3>1. Busy(w)
      BY <2>3 DEF ReleaseOnShutdown, Busy
    <3> QED
      BY <1>a, <2>3, <3>1 DEF ReleaseOnShutdown, Release
  <2>4. CASE \/ Leave(w) \/ PrecheckOk(w) \/ Rebase(w) \/ FastForward(w) \/ HandoffOpen(w)
             \/ StepFails(w) \/ IoError(w) \/ \E step \in CiSteps : RunCi(w, step)
    BY <2>4 DEF Leave, PrecheckOk, Rebase, FastForward, HandoffOpen, StepFails, IoError, Die, RunCi,
       Executed
  <2> QED
    BY <1>1, <2>1, <2>2, <2>3, <2>4 DEF WorkerStep
<1>2. ASSUME NEW p \in Procs, AcquireLock(p) \/ TuiStep(p) \/ Quit(p) \/ Crash(p)
      PROVE  rows'[e] = rows[e]
  BY <1>2 DEF AcquireLock, TuiStep, SweepDeadClaims, SweepDeadPidClaims, ListOpenSessions,
     ProbeSession, SpawnWorkers, Quit, Exit, Crash, ProcessEnds, InFlight
<1>3. ASSUME NEW f \in Entries,
             Enqueue(f) \/ RemoveWorktree(f) \/ \E p \in Procs : DeleteSelected(p, f)
      PROVE  rows'[e] = rows[e]
  BY <1>3, <1>a DEF Enqueue, InsertEntry, RemoveWorktree, DeleteSelected, DeleteQueued
<1> QED
  BY <1>1, <1>2, <1>3 DEF TouchTarget

\* No step of a thread, a sweep or the TUI changes a Merged row; a CLI command that
\* read it before it was Merged still may.
THEOREM EngineLeavesMerged == Spec => EngineKeepsMerged
<1> DEFINE Keeps == \A e \in Entries : rows[e].status = "Merged" => rows'[e] = rows[e] \/ ByClient
<1>1. Init => IInv /\ LandedInv
  BY InitInv, InitLanded
<1>2. (IInv /\ LandedInv) /\ [Next]_vars => (IInv /\ LandedInv)'
  BY NextInv, NextLanded
<1>3. (IInv /\ LandedInv) /\ [Next]_vars => [Keeps]_vars
  <2> SUFFICES ASSUME IInv, LandedInv, Next, NEW e \in Entries, rows[e].status = "Merged"
               PROVE  rows'[e] = rows[e] \/ ByClient
    OBVIOUS
  <2>1. \A w \in Workers : Busy(w) => held[w] # e
    BY DEF LandedInv
  <2>2. ASSUME NEW c \in Clients, ClientStep(c), rows'[e] # rows[e]
        PROVE  ByClient
    <3>1. cli[c].op # "idle" /\ cli' = [cli EXCEPT ![c] = IdleClient]
      BY <2>2 DEF ClientStep, Cancel, Retry, Resolve, Reads, CancelWrite, RetryWrite, RespawnWrite,
         WritesBack, RetryCheck, RetryClose, RespawnClose, RespawnOpen, Abort
    <3> QED
      BY <3>1 DEF ByClient, IdleClient, IInv, TypeOK
  <2> QED
    BY <2>1, <2>2, EngineWrites DEF Next
<1> QED
  BY <1>1, <1>2, <1>3, PTL DEF Spec, EngineKeepsMerged

\* The claim a worker makes is of the oldest waiting row of its repository, while
\* nothing of the repository is in flight.
THEOREM ClaimsAreFifo == Spec => FifoClaims
<1> DEFINE Fifo == \A w \in Workers : pc[w] = "poll" /\ pc'[w] = "precheck" =>
                     \A e \in Entries \ {held'[w]} : RepoOf[e] = w[2] =>
                       /\ rows[e].status \notin InFlight
                       /\ rows[e].status = "Queued" => stamp[e] >= stamp[held'[w]]
<1>1. IInv /\ [Next]_vars => [Fifo]_vars
  <2> SUFFICES ASSUME IInv, Next, NEW w \in Workers, pc[w] = "poll", pc'[w] = "precheck",
                      NEW e \in Entries \ {held'[w]}, RepoOf[e] = w[2]
               PROVE  /\ rows[e].status \notin InFlight
                      /\ rows[e].status = "Queued" => stamp[e] >= stamp[held'[w]]
    OBVIOUS
  <2>a. TypeOK /\ LockInv /\ pc \in [Workers -> WorkerPc]
    BY DEF IInv, TypeOK
  <2>1. \A p \in Procs : ~(AcquireLock(p) \/ TuiStep(p) \/ Quit(p) \/ Crash(p))
    BY <2>a DEF AcquireLock, TuiStep, SweepDeadClaims, ListOpenSessions, ProbeSession,
       SpawnWorkers, Quit, Exit, Crash, ProcessEnds, workerVars
  <2>2. WorkerStep(w) \/ IoError(w)
    BY <2>a, <2>1, WorkerFrame, OtherFrame DEF Next
  <2>3. Claim(w)
    BY <2>a, <2>2, WorkerFrame DEF Busy
  <2>4. held'[w] \in Claimable(w[2])
    BY <2>3 DEF Claim, IInv, TypeOK
  <2>5. proc[w[1]] \in {"running", "stopping"} /\ held[w] = NoEntry /\ w[1] \in Procs
        /\ w = <<w[1], w[2]>>
    BY DEF IInv, LockInv, HeldInv, Workers
  <2>6. rows[e].status \notin InFlight
    BY <2>5, StoreAssumption DEF IInv, InFlightOwned
  <2>7. ASSUME rows[e].status = "Queued"
        PROVE  stamp[e] >= stamp[held'[w]]
    <3>1. rows[e].claim = NoProc
      BY <2>6, <2>7 DEF IInv, RowsConsistent, WellFormed
    <3>2. stamp[held'[w]] <= stamp[e] /\ held'[w] \in Entries
      BY <2>4, <2>7, <3>1 DEF Claimable
    <3>3. stamp \in [Entries -> Stamps \cup {0}] /\ Stamps \cup {0} \subseteq Nat
      BY <2>a, StoreAssumption DEF TypeOK, StoreTypeOK
    <3>4. stamp[held'[w]] \in Nat /\ stamp[e] \in Nat
      BY <3>2, <3>3
    <3> QED
      BY <3>2, <3>4
  <2> QED
    BY <2>6, <2>7
<1> QED
  BY Inductive, <1>1, PTL DEF Spec, FifoClaims

-----------------------------------------------------------------------------
(* A conflicting entry has its session.                                    *)

Owns(s, e) == s \in Sessions /\ sessions[s].entry = e /\ sessions[s].outcome # "Unused"

\* The session is recorded before anything points to it: by then the row, the thread
\* in its handoff and the command that respawns all own theirs.
SessionInv ==
  /\ \A e \in Entries : rows[e].status = "NeedsHelp" => Owns(rows[e].session, e)
  /\ \A w \in Workers : pc[w] = "handoff" => Owns(mem[w].session, held[w])
  /\ \A c \in Clients : cli[c].op # "idle" /\ cli[c].copy.status = "NeedsHelp" =>
       Owns(cli[c].copy.session, cli[c].id)

\* A session is owned for ever: closing keeps its entry, and only unused ones are
\* opened.
LEMMA OwnsForEver ==
  ASSUME IInv, [Next]_vars, NEW s, NEW e, Owns(s, e)
  PROVE  Owns(s, e)'
<1>a. sessions \in [Sessions -> Session]
  BY DEF IInv, TypeOK, StoreTypeOK
<1>1. ASSUME NEW t, NEW o \in {"Resolved", "Abandoned"}, CloseConflictSession(t, o)
      PROVE  Owns(s, e)'
  <2>1. \/ sessions'[s] = sessions[s]
        \/ sessions'[s] = [sessions[s] EXCEPT !.outcome = o]
    BY <1>1, <1>a DEF CloseConflictSession, Owns
  <2>2. sessions[s] \in Session
    BY <1>a DEF Owns
  <2> QED
    BY <2>1, <2>2 DEF Owns, Session
<1>2. ASSUME NEW t, NEW f, OpenConflictSession(t, f)
      PROVE  Owns(s, e)'
  BY <1>2, <1>a DEF OpenConflictSession, Unused, Owns
<1>3. CASE sessions' = sessions
  BY <1>3 DEF Owns
<1>4. ASSUME NEW w \in Workers, WorkerStep(w) \/ IoError(w)
      PROVE  Owns(s, e)'
  BY <1>2, <1>3, <1>4 DEF WorkerStep, IoError, Claim, Leave, PrecheckDirty, PrecheckOk,
     ReleaseOnShutdown, Rebase, RunCi, FastForward, SaveStep, FinalizeEntry, HandoffOpen,
     HandoffSave, StepFails, Die, Executed
<1>5. ASSUME NEW p \in Procs, AcquireLock(p) \/ TuiStep(p) \/ Quit(p) \/ Crash(p)
      PROVE  Owns(s, e)'
  BY <1>1, <1>3, <1>5 DEF AcquireLock, TuiStep, SweepDeadClaims, ListOpenSessions, ProbeSession,
     SpawnWorkers, Quit, Exit, Crash, ProcessEnds
<1>6. ASSUME NEW c \in Clients, ClientStep(c)
      PROVE  Owns(s, e)'
  BY <1>1, <1>2, <1>3, <1>6 DEF ClientStep, Cancel, Retry, Resolve, Reads, CancelWrite, RetryWrite,
     RespawnWrite, WritesBack, RetryCheck, RetryClose, RespawnClose, RespawnOpen, Abort
<1> QED
  BY <1>3, <1>4, <1>5, <1>6 DEF Next, vars, DeleteSelected, Enqueue, InsertEntry, RemoveWorktree, TouchTarget

\* A worker writes a NeedsHelp row at the end of its handoff only, and has recorded
\* the session when it gets there.
LEMMA WorkerHandsOver ==
  ASSUME IInv, NEW w \in Workers, WorkerStep(w) \/ IoError(w)
  PROVE  /\ \A e \in Entries : rows'[e].status = "NeedsHelp" =>
              \/ rows'[e] = rows[e]
              \/ pc[w] = "handoff" /\ held[w] = e /\ rows'[e] = mem[w]
         /\ pc'[w] = "handoff" => Owns(mem[w].session, held[w])'
<1>a. /\ rows \in [Entries -> Row] /\ mem \in [Workers -> Row] /\ pc \in [Workers -> WorkerPc]
      /\ sessions \in [Sessions -> Session]
  BY DEF IInv, TypeOK, StoreTypeOK
<1>1. CASE Claim(w)
  <2>1. PICK f \in Entries : rows' = [rows EXCEPT ![f] = Claimed(@, w[1])]
    BY <1>1 DEF Claim, Claimable, ClaimEntry
  <2>2. Claimed(rows[f], w[1]).status = "Rebasing" /\ pc'[w] = "precheck"
    BY <1>1, <1>a DEF Claim, Goto, Claimed, Row
  <2> QED
    BY <1>a, <2>1, <2>2
<1>2. CASE PrecheckDirty(w)
  <2>1. /\ rows' = [rows EXCEPT ![held[w]] =
                   [mem[w] EXCEPT !.status = "Queued", !.claim = NoProc,
                                  !.lastOutcome = "PrecheckDirtyTarget"]]
        /\ pc'[w] = "poll"
    BY <1>2, <1>a DEF PrecheckDirty, UpdateEntry, Return, Goto
  <2> QED
    BY <1>a, <2>1 DEF Row
<1>3. CASE ReleaseOnShutdown(w)
  <2>1. \A e \in Entries : rows'[e] = rows[e] \/ rows'[e] = Requeued(rows[e])
    BY <1>3, <1>a DEF ReleaseOnShutdown, Release
  <2>2. pc'[w] = "poll"
    BY <1>3, <1>a DEF ReleaseOnShutdown, Return, Goto
  <2>3. \A row \in Row : Requeued(row).status = "Queued"
    BY DEF Requeued, Row
  <2>4. \A e \in Entries : rows[e] \in Row
    BY <1>a
  <2> QED
    BY <2>1, <2>2, <2>3, <2>4
<1>4. CASE SaveStep(w)
  <2>1. rows' = [rows EXCEPT ![held[w]] = mem[w]] /\ pc[w] = "save" /\ pc'[w] = "loop"
    BY <1>4, <1>a DEF SaveStep, UpdateEntry, Goto
  <2>2. mem[w].status # "NeedsHelp"
    BY <2>1 DEF IInv, MemInv, WorkingCopy, InFlight
  <2> QED
    BY <1>a, <2>1, <2>2
<1>5. CASE FinalizeEntry(w)
  <2>1. /\ pc[w] = "loop" /\ pc'[w] = "poll" /\ Decision(w).act = "Finalize"
        /\ rows' = [rows EXCEPT ![held[w]] = Finalized(mem[w], Decision(w))]
    BY <1>5, <1>a DEF FinalizeEntry, Decides, UpdateEntry, Return, Goto
  <2>2. Decision(w).terminal \in Terminal
    BY <2>1, TransitionType DEF Decision
  <2>3. Finalized(mem[w], Decision(w)).status # "NeedsHelp"
    BY <1>a, <2>2 DEF Finalized, Row, Terminal
  <2> QED
    BY <1>a, <2>1, <2>3
<1>6. CASE HandoffOpen(w)
  <2>1. PICK s \in Sessions :
          /\ OpenConflictSession(s, held[w])
          /\ mem'[w] = [mem[w] EXCEPT !.status = "NeedsHelp", !.reason = "RebaseUnresolvable",
                                      !.session = s, !.claim = NoProc]
    BY <1>6, <1>a DEF HandoffOpen
  <2>2. mem[w] \in Row /\ rows' = rows /\ held' = held
    BY <1>6, <1>a DEF HandoffOpen
  <2>4. mem'[w].session = s
    BY <2>1, <2>2 DEF Row
  <2>3. sessions'[s] = [entry |-> held[w], outcome |-> "Open"]
    BY <1>a, <2>1 DEF OpenConflictSession
  <2> QED
    BY <2>2, <2>3, <2>4 DEF Owns
<1>7. CASE HandoffSave(w)
  <2>1. rows' = [rows EXCEPT ![held[w]] = mem[w]] /\ pc[w] = "handoff" /\ pc'[w] = "poll"
    BY <1>7, <1>a DEF HandoffSave, UpdateEntry, Return, Goto
  <2> QED
    BY <1>a, <2>1
<1>8. CASE \/ Leave(w) \/ PrecheckOk(w) \/ Rebase(w) \/ FastForward(w)
           \/ StepFails(w) \/ IoError(w) \/ \E step \in CiSteps : RunCi(w, step)
  BY <1>8, <1>a DEF Leave, PrecheckOk, Rebase, FastForward, StepFails, IoError, Die, RunCi, Executed,
     Goto
<1> QED
  BY <1>1, <1>2, <1>3, <1>4, <1>5, <1>6, <1>7, <1>8 DEF WorkerStep

LEMMA InitSession == Init => SessionInv
  BY DEF Init, StoreInit, SessionInv, FreshRow, IdleClient, Workers

LEMMA NextSession == IInv /\ SessionInv /\ [Next]_vars => SessionInv'
<1> SUFFICES ASSUME IInv, SessionInv, [Next]_vars
             PROVE  SessionInv'
  OBVIOUS
<1>a. /\ TypeOK /\ LockInv /\ rows \in [Entries -> Row]
      /\ cli \in [Clients -> [op : ClientOp, id : Entries \cup {NoEntry}, copy : Row]]
      /\ sessions \in [Sessions -> Session]
  BY DEF IInv, TypeOK, StoreTypeOK
<1>b. \A s, e : Owns(s, e) => Owns(s, e)'
  BY OwnsForEver
<1> DEFINE RowsOk == \A e \in Entries : rows'[e].status = "NeedsHelp" => Owns(rows[e].session, e)'
           ThreadsOk == \A w \in Workers : pc'[w] = "handoff" => Owns(mem[w].session, held[w])'
           ClientsOk == \A c \in Clients : cli'[c].op # "idle" /\ cli'[c].copy.status = "NeedsHelp" =>
                          Owns(cli[c].copy.session, cli[c].id)'
<1>c. SUFFICES RowsOk /\ ThreadsOk /\ ClientsOk
  BY DEF SessionInv, Owns
<1>1. ASSUME NEW w \in Workers, WorkerStep(w) \/ IoError(w)
      PROVE  RowsOk /\ ThreadsOk /\ ClientsOk
  <2>1. /\ \A v \in Workers \ {w} : pc'[v] = pc[v] /\ mem'[v] = mem[v] /\ held'[v] = held[v]
        /\ cli' = cli
    BY <1>1, <1>a, WorkerFrame
  <2>2. RowsOk
    BY <1>1, <1>b, WorkerHandsOver DEF SessionInv, Owns
  <2>3. ThreadsOk
    BY <1>1, <1>b, <2>1, WorkerHandsOver DEF SessionInv, Owns
  <2>4. ClientsOk
    BY <1>b, <2>1 DEF SessionInv, Owns
  <2> QED
    BY <2>2, <2>3, <2>4
<1>2. ASSUME NEW p \in Procs, AcquireLock(p) \/ TuiStep(p) \/ Quit(p) \/ Crash(p)
      PROVE  RowsOk /\ ThreadsOk /\ ClientsOk
  <2>1. \A w \in Workers :
          \/ pc'[w] = pc[w] /\ mem'[w] = mem[w] /\ held'[w] = held[w]
          \/ pc'[w] \in {"none", "poll"}
    BY <1>2, <1>a DEF AcquireLock, TuiStep, SweepDeadClaims, ListOpenSessions, ProbeSession,
       SpawnWorkers, Quit, Exit, Crash, ProcessEnds, workerVars
  <2>2. cli' = cli
    BY <1>2 DEF AcquireLock, TuiStep, SweepDeadClaims, ListOpenSessions, ProbeSession,
       SpawnWorkers, Quit, Exit, Crash, ProcessEnds
  <2>3. \A e \in Entries : rows'[e] = rows[e] \/ rows'[e] = Requeued(rows[e])
    BY <1>2, <1>a DEF AcquireLock, TuiStep, SweepDeadClaims, SweepDeadPidClaims, ListOpenSessions,
       ProbeSession, SpawnWorkers, Quit, Exit, Crash, ProcessEnds
  <2>4. \A row \in Row : Requeued(row).status = "Queued"
    BY DEF Requeued, Row
  <2> QED
    BY <1>a, <1>b, <2>1, <2>2, <2>3, <2>4 DEF SessionInv, Owns
<1>3. ASSUME NEW c \in Clients, ClientStep(c)
      PROVE  RowsOk /\ ThreadsOk /\ ClientsOk
  <2>1. ThreadsOk
    BY <1>3, <1>b, OtherFrame DEF SessionInv, Owns
  <2>2. RowsOk
    <3>1. rows' = rows \/ (cli[c].op # "idle" /\ rows' = [rows EXCEPT ![cli[c].id] = cli[c].copy])
      BY <1>3 DEF ClientStep, Cancel, Retry, Resolve, Reads, CancelWrite, RetryWrite, RespawnWrite,
         WritesBack, UpdateEntry, RetryCheck, RetryClose, RespawnClose, RespawnOpen, Abort
    <3> QED
      BY <1>a, <1>b, <3>1 DEF SessionInv, Owns
  <2>3. ClientsOk
    <3>1. CASE RespawnOpen(c)
      <4>1. PICK s \in Sessions :
              /\ OpenConflictSession(s, cli[c].id)
              /\ cli' = [cli EXCEPT ![c].op = "respawnWrite", ![c].copy.session = s]
        BY <3>1 DEF RespawnOpen
      <4>2. sessions'[s] = [entry |-> cli[c].id, outcome |-> "Open"]
        BY <1>a, <4>1 DEF OpenConflictSession
      <4>3. cli[c].copy \in Row /\ cli'[c].id = cli[c].id /\ cli'[c].copy = [cli[c].copy EXCEPT !.session = s]
        BY <1>a, <4>1
      <4>4. cli'[c].copy.session = s
        BY <4>3 DEF Row
      <4>5. Owns(cli[c].copy.session, cli[c].id)'
        BY <4>2, <4>3, <4>4 DEF Owns
      <4>6. \A d \in Clients \ {c} : cli'[d] = cli[d]
        BY <1>a, <4>1
      <4> QED
        BY <1>b, <4>5, <4>6 DEF SessionInv, Owns
    <3>2. ASSUME NEW e \in Entries, Resolve(c, e)
          PROVE  ClientsOk
      <4>1. cli' = [cli EXCEPT ![c] = [op |-> "respawnClose", id |-> e, copy |-> rows[e]]]
            /\ rows[e].status = "NeedsHelp"
        BY <3>2 DEF Resolve, Reads
      <4> QED
        BY <1>a, <1>b, <4>1 DEF SessionInv, Owns
    <3>3. ASSUME NEW e \in Entries, Cancel(c, e) \/ Retry(c, e)
          PROVE  ClientsOk
      <4>1. PICK o, row : /\ cli' = [cli EXCEPT ![c] = [op |-> o, id |-> e, copy |-> row]]
                          /\ row = Cancelled(rows[e]) \/ row = Retried(rows[e])
        BY <3>3 DEF Cancel, Retry, Reads
      <4>2. row.status # "NeedsHelp"
        <5>1. rows[e] \in Row
          BY <1>a
        <5> QED
          BY <4>1, <5>1 DEF Cancelled, Retried, Row
      <4> QED
        BY <1>a, <1>b, <4>1, <4>2 DEF SessionInv, Owns
    <3>4. CASE CancelWrite(c) \/ RetryWrite(c) \/ RespawnWrite(c) \/ Abort(c)
      <4>1. cli' = [cli EXCEPT ![c] = IdleClient]
        BY <3>4 DEF CancelWrite, RetryWrite, RespawnWrite, WritesBack, Abort
      <4> QED
        BY <1>a, <1>b, <4>1 DEF SessionInv, Owns, IdleClient
    <3>5. CASE RetryCheck(c) \/ RetryClose(c) \/ RespawnClose(c)
      <4>1. /\ \A d \in Clients : cli'[d].copy = cli[d].copy /\ cli'[d].id = cli[d].id
            /\ \A d \in Clients : cli'[d].op # "idle" => cli[d].op # "idle"
        BY <1>a, <3>5 DEF RetryCheck, RetryClose, RespawnClose
      <4> QED
        BY <1>b, <4>1 DEF SessionInv, Owns
    <3> QED
      BY <1>3, <3>1, <3>2, <3>3, <3>4, <3>5 DEF ClientStep
  <2> QED
    BY <2>1, <2>2, <2>3
<1>4. ASSUME \/ UNCHANGED vars
             \/ \E p \in Procs, e \in Entries : DeleteSelected(p, e)
             \/ \E e \in Entries : Enqueue(e) \/ RemoveWorktree(e)
             \/ \E r \in Repos : TouchTarget(r)
      PROVE  RowsOk /\ ThreadsOk /\ ClientsOk
  <2>1. cli' = cli /\ pc' = pc /\ mem' = mem /\ held' = held
    BY <1>4, OtherFrame DEF vars, DeleteSelected, Enqueue, RemoveWorktree, TouchTarget
  <2>2. \A e \in Entries : rows'[e] = rows[e] \/ rows'[e].status # "NeedsHelp"
    BY <1>4, <1>a DEF vars, DeleteSelected, DeleteQueued, Enqueue, InsertEntry, NewRow, FreshRow,
       RemoveWorktree, TouchTarget
  <2> QED
    BY <1>b, <2>1, <2>2 DEF SessionInv, Owns
<1> QED
  BY <1>1, <1>2, <1>3, <1>4 DEF Next

\* Whoever finds an entry in NeedsHelp finds a session recorded for it, although the
\* handoff and the respawn write the two tables one after the other and can be cut
\* short in between.
THEOREM HelpHasSession == Spec => []NeedsHelpHasSession
<1>1. Init => IInv /\ SessionInv
  BY InitInv, InitSession
<1>2. (IInv /\ SessionInv) /\ [Next]_vars => (IInv /\ SessionInv)'
  BY NextInv, NextSession
<1>3. IInv /\ SessionInv => NeedsHelpHasSession
  BY StoreAssumption DEF SessionInv, NeedsHelpHasSession, Owns
<1> QED
  BY <1>1, <1>2, <1>3, PTL DEF Spec

-----------------------------------------------------------------------------
(* The service.  Places.                                                   *)

\* The place of a row is decided by its status alone.
LEMMA Places ==
  ASSUME NEW row \in Row
  PROVE  /\ PlaceOf(row) = "absent"  <=> row.status = "Fresh"
         /\ PlaceOf(row) = "deleted" <=> row.status = "Deleted"
         /\ PlaceOf(row) = "waiting" <=> row.status = "Queued"
         /\ PlaceOf(row) = "working" <=> row.status \in InFlight
         /\ PlaceOf(row) = "parked"  <=> row.status = "NeedsHelp"
         /\ PlaceOf(row) = "merged"  <=> row.status = "Merged"
         /\ PlaceOf(row) = "closed"  <=> row.status \in {"Failed", "Cancelled"}
<1>1. row.status \in RowStatus
  BY DEF Row
<1> QED
  BY <1>1 DEF PlaceOf, RowStatus, QueueStatus, InFlight, Terminal

\* Overwriting a row moves its entry and no other.
LEMMA Overwritten ==
  ASSUME TypeOK, NEW e \in Entries, NEW row, rows' = [rows EXCEPT ![e] = row]
  PROVE  Service!Moves(e, PlaceOf(row))
  BY DEF TypeOK, StoreTypeOK, Service!Moves

\* An entry with a row is known to the service.
LEMMA PresentIsKnown ==
  ASSUME TypeOK, NEW e \in Entries
  PROVE  Service!Known(e) <=> Present(e)
<1>1. rows[e] \in Row
  BY DEF TypeOK, StoreTypeOK
<1> QED
  BY <1>1, Places DEF Service!Known, Present

-----------------------------------------------------------------------------
(* The service.  Jobs.                                                     *)

\* Where a thread lives, it is the server of its repository.
JobInv ==
  /\ \A w \in Workers : pc[w] # "none" =>
       JobOf(w[2]) = IF Busy(w) THEN {held[w]} ELSE {}
  /\ \A r \in Repos : (\A w \in Workers : ~Busy(w)) => JobOf(r) = {}

LEMMA JobFacts == IInv => JobInv
<1> SUFFICES ASSUME IInv
             PROVE  JobInv
  OBVIOUS
<1>1. ASSUME NEW w \in Workers, pc[w] # "none",
             NEW v \in Workers, v[2] = w[2], Busy(v)
      PROVE  v = w
  <2>1. /\ proc[w[1]] # "off" /\ proc[v[1]] # "off" /\ v[1] \in Procs /\ w[1] \in Procs
    BY <1>1 DEF IInv, LockInv, Busy, Workers
  <2>2. v[1] = w[1]
    BY <2>1 DEF IInv, LockInv
  <2> QED
    BY <1>1, <2>2 DEF Workers
<1>2. ASSUME NEW w \in Workers, pc[w] # "none"
      PROVE  JobOf(w[2]) = IF Busy(w) THEN {held[w]} ELSE {}
  BY <1>1, <1>2 DEF JobOf
<1>3. ASSUME NEW r \in Repos, \A w \in Workers : ~Busy(w)
      PROVE  JobOf(r) = {}
  BY <1>3 DEF JobOf
<1> QED
  BY <1>2, <1>3 DEF JobInv

LEMMA NextJob == IInv /\ [Next]_vars => JobInv /\ JobInv'
  BY NextInv, JobFacts, PTL

\* A worker step changes at most the job of its own repository.
LEMMA OwnJob ==
  ASSUME IInv, Next, NEW w \in Workers, WorkerStep(w) \/ IoError(w)
  PROVE  /\ JobOf(w[2]) = IF Busy(w) THEN {held[w]} ELSE {}
         /\ [r \in Repos |-> JobOf(r)]' =
              [[r \in Repos |-> JobOf(r)] EXCEPT ![w[2]] =
                 IF Busy(w)' THEN {held'[w]} ELSE {}]
<1>1. /\ \A v \in Workers \ {w} : pc'[v] = pc[v] /\ held'[v] = held[v]
      /\ pc[w] # "none" /\ pc'[w] # "none"
  BY WorkerFrame DEF IInv, Active, Busy
<1>2. /\ JobOf(w[2]) = IF Busy(w) THEN {held[w]} ELSE {}
      /\ JobOf(w[2])' = IF Busy(w)' THEN {held'[w]} ELSE {}
  BY <1>1, NextJob DEF JobInv
<1>3. ASSUME NEW r \in Repos, r # w[2]
      PROVE  JobOf(r)' = JobOf(r)
  BY <1>1, <1>3 DEF JobOf, Busy
<1> QED
  BY <1>2, <1>3 DEF Workers

\* A step that leaves the threads alone leaves the jobs alone.
LEMMA SameJobs ==
  ASSUME \A w \in Workers : /\ Busy(w)' <=> Busy(w)
                            /\ Busy(w) => held'[w] = held[w]
  PROVE  [r \in Repos |-> JobOf(r)]' = [r \in Repos |-> JobOf(r)]
<1>1. ASSUME NEW r \in Repos
      PROVE  JobOf(r)' = JobOf(r)
  BY DEF JobOf
<1> QED
  BY <1>1

-----------------------------------------------------------------------------
(* Steps.                                                                  *)

\* What a worker does is done by the server of its repository.
LEMMA WorkerServes ==
  ASSUME IInv, LandedInv, Next, NEW w \in Workers, WorkerStep(w) \/ IoError(w)
  PROVE  [Service!Next]_(Service!vars)
<1>a. /\ TypeOK /\ rows \in [Entries -> Row] /\ pc \in [Workers -> WorkerPc]
      /\ held \in [Workers -> Entries \cup {NoEntry}] /\ mem \in [Workers -> Row]
      /\ w[1] \in Procs /\ w[2] \in Repos
  BY DEF IInv, TypeOK, StoreTypeOK, Workers
<1>b. /\ JobOf(w[2]) = IF Busy(w) THEN {held[w]} ELSE {}
      /\ [r \in Repos |-> JobOf(r)]' =
           [[r \in Repos |-> JobOf(r)] EXCEPT ![w[2]] = IF Busy(w)' THEN {held'[w]} ELSE {}]
  BY OwnJob
<1>c. /\ Busy(w) => held[w] \in Entries /\ RepoOf[held[w]] = w[2]
      /\ \A e \in Entries : rows'[e].status = "Merged" => e \in landed'
      /\ rows' \in [Entries -> Row]
  BY NextInv, NextLanded DEF IInv, HeldInv, LandedInv, MergedHasLanded, TypeOK, StoreTypeOK
<1>1. CASE Claim(w)
  <2>1. PICK e \in Claimable(w[2]) : /\ rows' = [rows EXCEPT ![e] = Claimed(rows[e], w[1])]
                                     /\ held'[w] = e
    BY <1>1, <1>a DEF Claim, ClaimEntry
  <2>2. /\ e \in Entries /\ RepoOf[e] = w[2] /\ rows[e].status = "Queued"
        /\ rows[e] \in Row /\ Claimed(rows[e], w[1]) \in Row
    BY <1>a, <2>1, RowEdits DEF Claimable
  <2>3. Claimed(rows[e], w[1]).status = "Rebasing"
    BY <2>2 DEF Claimed, Row
  <2>4. Service!Moves(e, "working") /\ PlaceOf(rows[e]) = "waiting"
    BY <1>a, <2>1, <2>2, <2>3, Overwritten, Places DEF InFlight
  <2>5. ~Busy(w) /\ Busy(w)' /\ landed' = landed /\ pc[w] = "poll"
    BY <1>1, <1>a DEF Claim, Goto, Busy
  <2>6. ASSUME NEW f \in Entries, RepoOf[f] = w[2]
        PROVE  PlaceOf(rows[f]) # "working"
    <3>1. proc[w[1]] \in {"running", "stopping"} /\ held[w] = NoEntry /\ w = <<w[1], w[2]>>
      BY <2>5 DEF IInv, LockInv, HeldInv, Workers
    <3>2. rows[f].status \notin InFlight
      BY <1>a, <2>6, <3>1, StoreAssumption DEF IInv, InFlightOwned
    <3> QED
      BY <1>a, <3>2, Places
  <2>7. Service!Take(w[2], e)
    BY <1>a, <1>b, <2>1, <2>2, <2>4, <2>5, <2>6 DEF Service!Take
  <2> QED
    BY <1>a, <2>2, <2>7 DEF Service!Next
<1>2. CASE FastForward(w) /\ landed' # landed
  <2>1. /\ Busy(w) /\ Busy(w)' /\ held'[w] = held[w] /\ rows' = rows
        /\ landed' = landed \cup {held[w]}
    BY <1>2, <1>a DEF FastForward, Decides, Executed, Goto, Busy
  <2>2. Service!Land(w[2], held[w])
    BY <1>a, <1>b, <2>1 DEF Service!Land
  <2> QED
    BY <1>a, <1>c, <2>1, <2>2 DEF Service!Next
<1>3. CASE SaveStep(w)
  <2>1. /\ Busy(w) /\ Busy(w)' /\ held'[w] = held[w] /\ landed' = landed
        /\ rows' = [rows EXCEPT ![held[w]] = mem[w]]
        /\ Present(held[w]) /\ pc[w] = "save"
    BY <1>3, <1>a DEF SaveStep, UpdateEntry, Goto, Busy
  <2>2. mem[w].status \in InFlight
    BY <2>1 DEF IInv, MemInv, WorkingCopy
  <2>a. PlaceOf(mem[w]) = "working" /\ held[w] \in Entries
    BY <1>a, <1>c, <2>1, <2>2, Places
  <2>3. Service!Moves(held[w], "working") /\ Service!Known(held[w])
    BY <1>a, <2>1, <2>a, Overwritten, PresentIsKnown
  <2>4. Service!Carry(w[2], held[w])
    BY <1>a, <1>b, <2>1, <2>3 DEF Service!Carry
  <2> QED
    BY <1>a, <1>c, <2>1, <2>4 DEF Service!Next
<1>d. ASSUME Busy(w), ~Busy(w)', landed' = landed, Present(held[w]),
             NEW row \in Row, rows' = [rows EXCEPT ![held[w]] = row],
             row.status \in {"Queued", "NeedsHelp", "Merged", "Failed", "Cancelled"}
      PROVE  [Service!Next]_(Service!vars)
  <2>1. Service!Moves(held[w], PlaceOf(row)) /\ Service!Known(held[w])
    BY <1>a, <1>c, <1>d, Overwritten, PresentIsKnown
  <2>2. /\ PlaceOf(row) \in {"waiting", "parked", "closed", "merged"}
        /\ PlaceOf(row) = "merged" => held[w] \in landed
    BY <1>a, <1>c, <1>d, Places
  <2>3. Service!PutDown(w[2], held[w])
    BY <1>a, <1>b, <1>d, <2>1, <2>2 DEF Service!PutDown, Service!Idles
  <2> QED
    BY <1>a, <1>c, <1>d, <2>3 DEF Service!Next
<1>e. ASSUME ~Busy(w)', rows' = rows, landed' = landed
      PROVE  [Service!Next]_(Service!vars)
  <2>1. Service!Drop(w[2])
    BY <1>b, <1>e DEF Service!Drop, Service!Idles
  <2> QED
    BY <1>a, <2>1 DEF Service!Next
<1>4. CASE PrecheckDirty(w)
  <2> DEFINE row == [mem[w] EXCEPT !.status = "Queued", !.claim = NoProc,
                                   !.lastOutcome = "PrecheckDirtyTarget"]
  <2>1. /\ Busy(w) /\ ~Busy(w)' /\ landed' = landed /\ Present(held[w])
        /\ rows' = [rows EXCEPT ![held[w]] = row]
    BY <1>4, <1>a DEF PrecheckDirty, UpdateEntry, Return, Goto, Busy
  <2>2. row \in Row /\ row.status = "Queued"
    BY <1>a DEF Row, RowStatus, QueueStatus, StepOutcome
  <2> QED
    BY <1>d, <2>1, <2>2
<1>5. CASE ReleaseOnShutdown(w)
  <2>1. /\ Busy(w) /\ ~Busy(w)' /\ landed' = landed
        /\ rows' = [rows EXCEPT ![held[w]] = IF @.status \in InFlight THEN Requeued(@) ELSE @]
    BY <1>5, <1>a DEF ReleaseOnShutdown, Release, Return, Goto, Busy
  <2>2. CASE rows[held[w]].status \in InFlight
    <3>1. rows[held[w]] \in Row /\ Present(held[w])
      BY <1>a, <1>c, <2>1, <2>2 DEF Present, InFlight
    <3>2. Requeued(rows[held[w]]) \in Row /\ Requeued(rows[held[w]]).status = "Queued"
      BY <3>1, RowEdits DEF Requeued, Row
    <3> QED
      BY <1>d, <2>1, <2>2, <3>1, <3>2
  <2>3. CASE rows[held[w]].status \notin InFlight
    BY <1>a, <1>e, <2>1, <2>3
  <2> QED
    BY <2>2, <2>3
<1>6. CASE FinalizeEntry(w)
  <2>1. /\ Busy(w) /\ ~Busy(w)' /\ landed' = landed /\ Present(held[w])
        /\ rows' = [rows EXCEPT ![held[w]] = Finalized(mem[w], Decision(w))]
        /\ Decision(w).act = "Finalize"
    BY <1>6, <1>a DEF FinalizeEntry, Decides, UpdateEntry, Return, Goto, Busy
  <2>2. Decision(w) \in NextAction /\ Decision(w).terminal \in Terminal
    BY <2>1, TransitionType DEF Decision
  <2>3. Finalized(mem[w], Decision(w)) \in Row
    BY <1>a, <2>2, RowEdits
  <2>4. Finalized(mem[w], Decision(w)).status \in Terminal
    BY <1>a, <2>2 DEF Finalized, Row
  <2> QED
    BY <1>d, <2>1, <2>3, <2>4 DEF Terminal
<1>7. CASE HandoffSave(w)
  <2>1. /\ Busy(w) /\ ~Busy(w)' /\ landed' = landed /\ Present(held[w])
        /\ rows' = [rows EXCEPT ![held[w]] = mem[w]] /\ pc[w] = "handoff"
    BY <1>7, <1>a DEF HandoffSave, UpdateEntry, Return, Goto, Busy
  <2>2. mem[w].status = "NeedsHelp"
    BY <2>1 DEF IInv, MemInv
  <2> QED
    BY <1>a, <1>d, <2>1, <2>2
<1>8. CASE StepFails(w) \/ IoError(w) \/ Leave(w)
  <2>1. ~Busy(w)' /\ rows' = rows /\ landed' = landed
    BY <1>8, <1>a DEF StepFails, IoError, Die, Leave, Goto, Busy
  <2> QED
    BY <1>e, <2>1
<1>9. CASE \/ PrecheckOk(w) \/ Rebase(w) \/ (FastForward(w) /\ landed' = landed) \/ HandoffOpen(w)
           \/ \E step \in CiSteps : RunCi(w, step)
  <2>1. /\ Busy(w) /\ Busy(w)' /\ held'[w] = held[w] /\ rows' = rows /\ landed' = landed
    BY <1>9, <1>a DEF PrecheckOk, Rebase, FastForward, HandoffOpen, RunCi, Decides, Executed, Goto,
       Busy
  <2>2. [r \in Repos |-> JobOf(r)]' = [r \in Repos |-> JobOf(r)]
    BY <1>a, <1>b, <2>1
  <2> QED
    BY <2>1, <2>2 DEF Service!vars
<1> QED
  BY <1>1, <1>2, <1>3, <1>4, <1>5, <1>6, <1>7, <1>8, <1>9 DEF WorkerStep

\* Processes lose all their servers at once, and the sweep puts back what they were
\* at; the rest of what a process does is not seen.
LEMMA TuiServes ==
  ASSUME IInv, Next, NEW p \in Procs, AcquireLock(p) \/ TuiStep(p) \/ Quit(p) \/ Crash(p)
  PROVE  [Service!Next]_(Service!vars)
<1>a. /\ TypeOK /\ rows \in [Entries -> Row] /\ JobInv /\ JobInv'
      /\ landed' = landed
  BY NextJob, OtherMerges DEF IInv, TypeOK, StoreTypeOK
<1>1. CASE SweepDeadClaims(p)
  <2>1. \A w \in Workers : ~Busy(w) /\ pc'[w] = pc[w]
    <3>1. ASSUME NEW w \in Workers
          PROVE  pc[w] = "none"
      BY <1>1 DEF SweepDeadClaims, Advance, IInv, LockInv, Workers
    <3> QED
      BY <1>1, <3>1 DEF SweepDeadClaims, workerVars, Busy
  <2>2. /\ [r \in Repos |-> JobOf(r)] = [r \in Repos |-> {}]
        /\ [r \in Repos |-> JobOf(r)]' = [r \in Repos |-> JobOf(r)]
    BY <1>a, <2>1, SameJobs DEF JobInv, Busy
  <2>3. ASSUME NEW e \in Entries
        PROVE  PlaceOf(rows'[e]) = IF PlaceOf(rows[e]) = "working" THEN "waiting"
                                   ELSE PlaceOf(rows[e])
    <3>1. rows[e] \in Row /\ WellFormed(rows[e])
      BY <1>a DEF IInv, RowsConsistent
    <3>2. rows'[e] = IF rows[e].status \in InFlight THEN Requeued(rows[e]) ELSE rows[e]
      BY <1>1, <3>1 DEF SweepDeadClaims, SweepDeadPidClaims, WellFormed
    <3>3. Requeued(rows[e]) \in Row /\ Requeued(rows[e]).status = "Queued"
      BY <3>1, RowEdits DEF Requeued, Row
    <3> QED
      BY <3>1, <3>2, <3>3, Places
  <2>4. Service!Recover
    BY <1>a, <2>2, <2>3 DEF Service!Recover
  <2> QED
    BY <2>4 DEF Service!Next
<1>2. CASE Exit(p) \/ Crash(p)
  <2>1. ProcessEnds(p) /\ proc[p] # "off"
    BY <1>2 DEF Exit, Crash
  <2>2. \A w \in Workers : pc'[w] = "none"
    BY <1>a, <2>1 DEF ProcessEnds, TypeOK, IInv, LockInv, Workers
  <2>3. [r \in Repos |-> JobOf(r)]' = [r \in Repos |-> {}]
    BY <1>a, <2>2 DEF JobInv, Busy
  <2>4. rows' = rows
    BY <2>1 DEF ProcessEnds
  <2>5. Service!Fail
    BY <1>a, <2>3, <2>4 DEF Service!Fail
  <2> QED
    BY <2>5 DEF Service!Next
<1>3. CASE AcquireLock(p) \/ ListOpenSessions(p) \/ ProbeSession(p) \/ SpawnWorkers(p) \/ Quit(p)
  <2>1. /\ rows' = rows /\ held' = held
        /\ \A w \in Workers : pc'[w] = pc[w] \/ (pc[w] = "none" /\ pc'[w] = "poll")
    BY <1>a, <1>3 DEF AcquireLock, ListOpenSessions, ProbeSession, SpawnWorkers, Quit, Advance,
       workerVars, TypeOK, IInv, LockInv
  <2>2. [r \in Repos |-> JobOf(r)]' = [r \in Repos |-> JobOf(r)]
    BY <2>1, SameJobs DEF Busy
  <2> QED
    BY <1>a, <2>1, <2>2 DEF Service!vars
<1> QED
  BY <1>1, <1>2, <1>3 DEF TuiStep

\* Users and CLI commands submit, delete and overrule.
LEMMA OtherServes ==
  ASSUME IInv, Next,
         \/ \E p \in Procs, e \in Entries : DeleteSelected(p, e)
         \/ \E e \in Entries : Enqueue(e) \/ RemoveWorktree(e)
         \/ \E c \in Clients : ClientStep(c)
         \/ \E r \in Repos : TouchTarget(r)
  PROVE  [Service!Next]_(Service!vars)
<1>a. /\ TypeOK /\ rows \in [Entries -> Row] /\ landed' = landed
      /\ cli \in [Clients -> [op : ClientOp, id : Entries \cup {NoEntry}, copy : Row]]
  BY OtherMerges DEF IInv, TypeOK, StoreTypeOK
<1>b. [r \in Repos |-> JobOf(r)]' = [r \in Repos |-> JobOf(r)]
  BY OtherFrame, SameJobs DEF Busy
<1>1. ASSUME NEW e \in Entries, Enqueue(e)
      PROVE  [Service!Next]_(Service!vars)
  <2>1. rows[e].status = "Fresh" /\ rows[e] \in Row /\ rows' = [rows EXCEPT ![e] = NewRow]
    BY <1>a, <1>1 DEF Enqueue, InsertEntry
  <2>2. NewRow \in Row /\ NewRow.status = "Queued"
    BY RowEdits DEF NewRow, FreshRow
  <2>3. PlaceOf(rows[e]) = "absent" /\ Service!Moves(e, "waiting")
    BY <1>a, <2>1, <2>2, Overwritten, Places
  <2>4. Service!Submit(e)
    BY <1>a, <1>b, <2>3 DEF Service!Submit
  <2> QED
    BY <2>4 DEF Service!Next
<1>2. ASSUME NEW e \in Entries, DeleteQueued(e)
      PROVE  [Service!Next]_(Service!vars)
  <2> DEFINE row == [FreshRow EXCEPT !.status = "Deleted"]
  <2>1. rows[e].status = "Queued" /\ rows[e] \in Row /\ rows' = [rows EXCEPT ![e] = row]
    BY <1>a, <1>2 DEF DeleteQueued
  <2>2. row \in Row /\ row.status = "Deleted"
    BY RowEdits DEF FreshRow
  <2>a. PlaceOf(rows[e]) = "waiting" /\ PlaceOf(row) = "deleted"
    <3> HIDE DEF row
    <3> QED
      BY <2>1, <2>2, Places
  <2>3. PlaceOf(rows[e]) = "waiting" /\ Service!Moves(e, "deleted")
    <3> HIDE DEF row
    <3> QED
      BY <1>a, <2>1, <2>a, Overwritten
  <2>4. Service!Delete(e)
    BY <1>a, <1>b, <2>3 DEF Service!Delete
  <2> QED
    BY <2>4 DEF Service!Next
<1>3. ASSUME rows' = rows
      PROVE  [Service!Next]_(Service!vars)
  BY <1>a, <1>b, <1>3 DEF Service!vars
<1>4. ASSUME NEW c \in Clients, ClientStep(c), rows' # rows
      PROVE  [Service!Next]_(Service!vars)
  <2>1. /\ cli[c].op # "idle" /\ Present(cli[c].id)
        /\ rows' = [rows EXCEPT ![cli[c].id] = cli[c].copy]
    BY <1>4 DEF ClientStep, Cancel, Retry, Resolve, Reads, CancelWrite, RetryWrite, RespawnWrite,
       WritesBack, UpdateEntry, RetryCheck, RetryClose, RespawnClose, RespawnOpen, Abort
  <2>2. /\ cli[c].id \in Entries /\ cli[c].copy \in Row
        /\ cli[c].copy.status \in {"Queued", "NeedsHelp", "Cancelled"}
    BY <1>a, <2>1 DEF IInv, ClientInv
  <2>3. PlaceOf(cli[c].copy) \in {"waiting", "parked", "closed"}
    BY <2>2, Places
  <2>4. Service!Moves(cli[c].id, PlaceOf(cli[c].copy)) /\ Service!Known(cli[c].id)
    BY <1>a, <2>1, <2>2, Overwritten, PresentIsKnown
  <2>5. Service!Overrule(cli[c].id)
    BY <1>a, <1>b, <2>3, <2>4 DEF Service!Overrule
  <2> QED
    BY <2>2, <2>5 DEF Service!Next
<1> QED
  BY <1>1, <1>2, <1>3, <1>4 DEF vars, DeleteSelected, RemoveWorktree, TouchTarget

LEMMA InitServes == Init => Service!Init
<1> SUFFICES ASSUME Init
             PROVE  Service!Init
  OBVIOUS
<1>1. IInv /\ JobInv
  BY InitInv, JobFacts
<1>2. \A e \in Entries : PlaceOf(rows[e]) = "absent"
  BY RowEdits, Places DEF Init, StoreInit, FreshRow
<1>3. \A r \in Repos : JobOf(r) = {}
  BY <1>1 DEF JobInv, Init, Busy
<1> QED
  BY <1>2, <1>3 DEF Service!Init, Init

\* The program, with its threads, processes, crashes and stale writes, is a merge
\* queue: it implements MergeService.
THEOREM EngineServesQueue == Spec => ServesQueue
<1>1. Init => IInv /\ LandedInv
  BY InitInv, InitLanded
<1>2. (IInv /\ LandedInv) /\ [Next]_vars => (IInv /\ LandedInv)'
  BY NextInv, NextLanded
<1>3. (IInv /\ LandedInv) /\ [Next]_vars => [Service!Next]_(Service!vars)
  <2> SUFFICES ASSUME IInv, LandedInv, [Next]_vars
               PROVE  [Service!Next]_(Service!vars)
    OBVIOUS
  <2>1. CASE UNCHANGED vars
    <3>1. rows' = rows /\ landed' = landed
      BY <2>1 DEF vars
    <3>2. [r \in Repos |-> JobOf(r)]' = [r \in Repos |-> JobOf(r)]
      BY <2>1, SameJobs DEF vars, workerVars, Busy
    <3> QED
      BY <3>1, <3>2 DEF Service!vars
  <2>2. CASE Next
    BY <2>2, WorkerServes, TuiServes, OtherServes DEF Next
  <2> QED
    BY <2>1, <2>2
<1> QED
  BY <1>1, <1>2, <1>3, InitServes, PTL DEF Spec, ServesQueue, Service!Spec
=============================================================================
