----------------------------- MODULE EnginePool -----------------------------
(***************************************************************************)
(* engine/pool.rs and engine/shutdown.rs: one worker thread per registered *)
(* repository, while `mergequeue init`, `repos remove` and `enqueue` change *)
(* the tables from other processes.                                        *)
(*                                                                         *)
(* The main thread is that of tui::run: start, reconcile five times a      *)
(* second, quit, join.  A worker is reduced to what the pool can see of    *)
(* it, and the queue of a repository to one entry; MergeEngine has both in *)
(* full, for a repository table that does not change.                      *)
(*                                                                         *)
(* A process whose first reconcile() fails drops the lock while the threads *)
(* it has started still live, until it ends; another TUI only looks at the *)
(* lock.                                                                    *)
(***************************************************************************)
EXTENDS Naturals, FiniteSets

CONSTANTS
  Repos,      (* RepoIds; `init` draws a fresh one, so each is used once    *)
  Roots,      (* root paths                                                 *)
  RootOf,     (* the path an id is, or would be, registered for             *)
  Clients,    (* CLI processes                                              *)
  NoRepo

ASSUME PoolAssumption ==
  /\ RootOf \in [Repos -> Roots]
  /\ NoRepo \notin Repos

VARIABLES
  registered, (* ids in registered_repos                                    *)
  used,       (* ids ever drawn                                             *)
  row,        (* repo -> its entry in queue_entries                         *)
  cli,        (* client -> the command it is in the middle of               *)
  phase,      (* where the main thread is                                   *)
  locked,     (* tui.pid is flocked                                         *)
  first,      (* reconcile() is the one before the render loop              *)
  desired,    (* reconcile(): the ids list_repos() returned                 *)
  workers,    (* EnginePool.workers: the ids with a handle                  *)
  joining,    (* the id whose thread the main thread is joining             *)
  thread,     (* repo -> state of the thread spawned for it                 *)
  left,       (* the same for a process that has dropped the lock and not   *)
              (* ended yet                                                  *)
  global,     (* EnginePool.global: 0 Running, 1 Soft, 2 Hard               *)
  token       (* repo -> level of the shutdown token in its handle          *)

tableVars == <<registered, used, row, cli>>
mainVars  == <<phase, locked, first, desired, workers, joining>>
vars == <<tableVars, mainVars, thread, left, global, token>>

NoCommand == [op |-> "none", repo |-> NoRepo]
Threads == [Repos -> {"none", "poll", "busy", "exited", "dead"}]
NoThreads == [r \in Repos |-> "none"]
LiveIn(t) == {r \in Repos : t[r] \in {"poll", "busy"}}
Live == LiveIn(thread)

TypeOK ==
  /\ registered \subseteq used /\ used \subseteq Repos
  /\ row \in [Repos -> {"none", "Queued", "InFlight", "Done"}]
  /\ cli \in [Clients -> {NoCommand} \cup [op : {"init", "enqueue"}, repo : Repos]]
  /\ phase \in {"down", "list", "stop", "spawn", "render", "quit", "drain"}
  /\ locked \in BOOLEAN /\ first \in BOOLEAN
  /\ desired \subseteq Repos /\ workers \subseteq Repos
  /\ joining \in Repos \cup {NoRepo}
  /\ thread \in Threads /\ left \in [Repos -> {"none", "poll", "busy"}]
  /\ global \in 0..2
  /\ token \in [Repos -> 0..2]

Init ==
  /\ registered = {} /\ used = {}
  /\ row = [r \in Repos |-> "none"]
  /\ cli = [c \in Clients |-> NoCommand]
  /\ phase = "down" /\ locked = FALSE /\ first = FALSE
  /\ desired = {} /\ workers = {} /\ joining = NoRepo
  /\ thread = NoThreads /\ left = NoThreads
  /\ global = 0
  /\ token = [r \in Repos |-> 0]

-----------------------------------------------------------------------------
(* Shutdown tokens.                                                        *)

\* Mutant: a plain store.
SetSoftStores(level) == 1
\* set_soft: compare_exchange(0, 1).
SetSoft(level) == IF level = 0 THEN 1 ELSE level

\* is_set() of the worker's token, merged from its handle's and the pool's.
IsSet(r) == token[r] > 0 \/ global > 0

-----------------------------------------------------------------------------
(* The tables and the commands that change them.                           *)

\* registered_repos.root_path is UNIQUE.
RootFree(r) == \A q \in registered : RootOf[q] # RootOf[r]

\* `init` looks for its root path, and finds none.
InitChecks(c, r) ==
  /\ cli[c] = NoCommand /\ r \notin used /\ RootFree(r)
  /\ used' = used \cup {r}
  /\ cli' = [cli EXCEPT ![c] = [op |-> "init", repo |-> r]]
  /\ UNCHANGED <<registered, row, mainVars, thread, left, global, token>>

\* insert_repo, or its UNIQUE error.
InitInserts(c) ==
  /\ cli[c].op = "init"
  /\ LET r == cli[c].repo
     IN  registered' = IF RootFree(r) THEN registered \cup {r} ELSE registered
  /\ cli' = [cli EXCEPT ![c] = NoCommand]
  /\ UNCHANGED <<used, row, mainVars, thread, left, global, token>>

\* `repos remove`: DELETE FROM registered_repos, with its cascade.
Remove(r) ==
  /\ r \in registered
  /\ registered' = registered \ {r}
  /\ row' = [row EXCEPT ![r] = "none"]
  /\ UNCHANGED <<used, cli, mainVars, thread, left, global, token>>

\* `enqueue` finds the repository, and inserts in a later statement; the
\* foreign key refuses the row if the repository has gone.
EnqueueReads(c, r) ==
  /\ cli[c] = NoCommand /\ r \in registered
  /\ cli' = [cli EXCEPT ![c] = [op |-> "enqueue", repo |-> r]]
  /\ UNCHANGED <<registered, used, row, mainVars, thread, left, global, token>>

\* Mutant: the row is inserted unchecked.
Accepts(r) == TRUE
\* REFERENCES registered_repos(id).
References(r) == r \in registered

EnqueueInserts(c) ==
  /\ cli[c].op = "enqueue"
  /\ LET r == cli[c].repo
     IN  row' = IF References(r) /\ row[r] \in {"none", "Done"}
                THEN [row EXCEPT ![r] = "Queued"] ELSE row
  /\ cli' = [cli EXCEPT ![c] = NoCommand]
  /\ UNCHANGED <<registered, used, mainVars, thread, left, global, token>>

Commands ==
  \/ \E c \in Clients, r \in Repos : InitChecks(c, r) \/ EnqueueReads(c, r)
  \/ \E c \in Clients : InitInserts(c) \/ EnqueueInserts(c)
  \/ \E r \in Repos : Remove(r)

-----------------------------------------------------------------------------
(* Worker threads.                                                         *)

Becomes(r, state) == thread' = [thread EXCEPT ![r] = state]

\* The top of run(): the token, then claim_next.
Poll(r) ==
  /\ thread[r] = "poll"
  /\ \/ IsSet(r) /\ Becomes(r, "exited") /\ UNCHANGED row
     \/ /\ ~IsSet(r) /\ row[r] = "Queued"
        /\ Becomes(r, "busy")
        /\ row' = [row EXCEPT ![r] = "InFlight"]
  /\ UNCHANGED <<registered, used, cli, mainVars, left, global, token>>

\* The save of a step; update_entry of a deleted row is NotFound, which ends run().
Saves(r) ==
  /\ thread[r] = "busy"
  /\ IF row[r] = "none" THEN Becomes(r, "dead") /\ UNCHANGED row
     ELSE /\ \E s \in {"Queued", "Done"} : row' = [row EXCEPT ![r] = s]
          /\ Becomes(r, "poll")
  /\ UNCHANGED <<registered, used, cli, mainVars, left, global, token>>

\* The top of the loop of process(): release() puts the row back, if it is there.
Releases(r) ==
  /\ thread[r] = "busy" /\ IsSet(r)
  /\ row' = IF row[r] = "InFlight" THEN [row EXCEPT ![r] = "Queued"] ELSE row
  /\ Becomes(r, "exited")
  /\ UNCHANGED <<registered, used, cli, mainVars, left, global, token>>

\* Any error of a store or git call goes out of run().
IoError(r) ==
  /\ r \in Live
  /\ Becomes(r, "dead")
  /\ UNCHANGED <<tableVars, mainVars, left, global, token>>

WorkerStep(r) == Poll(r) \/ Saves(r) \/ Releases(r)

\* Its process failed to start and dropped the pool: it goes on as above, and
\* nobody sets its tokens.
LeftStep(r) ==
  /\ \/ left[r] = "poll" /\ row[r] = "Queued"
        /\ row' = [row EXCEPT ![r] = "InFlight"] /\ left' = [left EXCEPT ![r] = "busy"]
     \/ /\ left[r] = "busy" /\ row[r] # "none"
        /\ \E s \in {"Queued", "Done"} : row' = [row EXCEPT ![r] = s]
        /\ left' = [left EXCEPT ![r] = "poll"]
     \/ r \in LiveIn(left) /\ left' = [left EXCEPT ![r] = "none"] /\ UNCHANGED row
  /\ UNCHANGED <<registered, used, cli, mainVars, thread, global, token>>

\* The process that failed to start ends, and its threads with it.
LeftEnds ==
  /\ left # NoThreads /\ left' = NoThreads
  /\ UNCHANGED <<tableVars, mainVars, thread, global, token>>

-----------------------------------------------------------------------------
(* The main thread.                                                        *)

\* The lock is all a TUI waits for.  It is taken, claims are swept, a pool is made.
Start ==
  /\ ~locked
  /\ phase' = "list" /\ locked' = TRUE /\ first' = TRUE
  /\ global' = 0
  /\ row' = [r \in Repos |-> IF row[r] = "InFlight" THEN "Queued" ELSE row[r]]
  /\ UNCHANGED <<registered, used, cli, desired, workers, joining, thread, left, token>>

\* Mutant: the table is read once, by the first reconcile().
ListedOnce == IF first THEN registered ELSE desired
\* list_repos()
Listed == registered

\* reconcile() begins.
List ==
  /\ phase \in {"list", "render"}
  /\ desired' = Listed
  /\ phase' = "stop"
  /\ UNCHANGED <<tableVars, locked, first, workers, joining, thread, left, global, token>>

\* Mutant: a stale worker is joined without a signal.
StopsSilently(r) == token
\* handle.shutdown.set_soft()
Signalled(r) == [token EXCEPT ![r] = SetSoft(@)]

\* A handle is taken out of the map, signalled and joined.
Joins(r) ==
  /\ joining = NoRepo
  /\ joining' = r /\ workers' = workers \ {r}
  /\ token' = Signalled(r)
  /\ UNCHANGED <<tableVars, phase, locked, first, desired, thread, left, global>>

Stop(r) == phase = "stop" /\ r \in workers \ desired /\ Joins(r)

Joined ==
  /\ joining # NoRepo /\ thread[joining] \in {"exited", "dead"}
  /\ joining' = NoRepo
  /\ Becomes(joining, "none")
  /\ UNCHANGED <<tableVars, phase, locked, first, desired, workers, left, global, token>>

\* Mutant: stale workers are signalled, and joined after the new ones are started.
StaleSignalled == workers \subseteq desired
\* Stale workers are all joined before the first one is started.
StaleGone == joining = NoRepo /\ workers \subseteq desired

EndStop ==
  /\ phase = "stop" /\ StaleGone
  /\ phase' = "spawn"
  /\ UNCHANGED <<tableVars, locked, first, desired, workers, joining, thread, left, global, token>>

Spawn(r) ==
  /\ phase = "spawn" /\ global = 0
  /\ r \in desired \ workers
  /\ workers' = workers \cup {r}
  /\ Becomes(r, "poll")
  /\ token' = [token EXCEPT ![r] = 0]
  /\ UNCHANGED <<tableVars, phase, locked, first, desired, joining, left, global>>

EndSpawn ==
  /\ phase = "spawn" /\ (global = 0 => desired \subseteq workers)
  /\ phase' = "render" /\ first' = FALSE
  /\ UNCHANGED <<tableVars, locked, desired, workers, joining, thread, left, global, token>>

\* `q` leaves the loop; `Q` and Ctrl-C set the global token to Hard first.
Quit ==
  /\ phase = "render"
  /\ \E level \in {global, 2} : global' = level
  /\ phase' = "quit"
  /\ UNCHANGED <<tableVars, locked, first, desired, workers, joining, thread, left, token>>

\* shutdown_and_join
ShutDown ==
  /\ phase = "quit"
  /\ global' = SetSoft(global)
  /\ phase' = "drain"
  /\ UNCHANGED <<tableVars, locked, first, desired, workers, joining, thread, left, token>>

Drain(r) == phase = "drain" /\ r \in workers /\ Joins(r)

\* Nothing is left of the pool, and the lock is dropped.
NoPool ==
  /\ phase' = "down" /\ locked' = FALSE /\ first' = FALSE
  /\ desired' = {} /\ workers' = {} /\ joining' = NoRepo
  /\ thread' = NoThreads
  /\ token' = [r \in Repos |-> 0]
  /\ UNCHANGED <<tableVars, global>>

\* list_repos() or the spawn of a thread fails.  In the first reconcile() the
\* error goes out of tui::run, which drops pool and lock with the threads alive
\* (bound: not while an earlier such process is on its way out); later the pool is
\* joined.
ReconcileFails ==
  /\ phase \in {"list", "render"} \/ (phase = "spawn" /\ ~(desired \subseteq workers))
  /\ IF first
     THEN /\ left = NoThreads
          /\ left' = [r \in Repos |-> IF r \in Live THEN thread[r] ELSE "none"]
          /\ NoPool
     ELSE /\ phase' = "quit"
          /\ UNCHANGED <<tableVars, locked, first, desired, workers, joining, thread, left,
                         global, token>>

Exit ==
  /\ phase = "drain" /\ workers = {} /\ joining = NoRepo
  /\ NoPool /\ UNCHANGED left

\* The process that holds the lock is killed.
Crash == phase # "down" /\ NoPool /\ UNCHANGED left

MainStep ==
  \/ List \/ Joined \/ EndStop \/ EndSpawn \/ ShutDown \/ Exit
  \/ \E r \in Repos : Stop(r) \/ Spawn(r) \/ Drain(r)

Next ==
  \/ Commands
  \/ \E r \in Repos : WorkerStep(r) \/ IoError(r) \/ LeftStep(r)
  \/ LeftEnds
  \/ Start \/ MainStep \/ ReconcileFails \/ Quit \/ Crash

Spec == Init /\ [][Next]_vars

\* Threads are scheduled: a git or CI command ends and the render loop goes round
\* (poll_action has a timeout).  Nothing is assumed of users, errors and crashes.
Fairness == WF_vars(MainStep) /\ \A r \in Repos : WF_vars(WorkerStep(r))
FairSpec == Spec /\ Fairness

-----------------------------------------------------------------------------
(* Properties.                                                             *)

Distinct(S) == \A r, q \in S : RootOf[r] = RootOf[q] => r = q

\* No two threads of one process ever work in one worktree, although a repository
\* can be removed and registered again, under a new id, between two passes of
\* reconcile(), while the old worker is in the middle of a git command: stale
\* workers are joined before new ones start, and root_path is UNIQUE in what
\* list_repos() returns.
OneThreadPerRoot == Distinct(Live) /\ Distinct(LiveIn(left))

\* A row always has its repository, whatever `enqueue` read before the repository
\* was removed and whatever a worker saves after it: its worker cannot be started
\* for it and nothing else would ever end such a row.
RowsHaveRepo ==
  \A r \in Repos : row[r] # "none" => r \in registered

\* While a pool exists its global level is never lowered, and neither is what a
\* worker sees of it: the join after a hard quit does not undo it (set_soft is a
\* compare_exchange, test levels_only_escalate).
TokensEscalate ==
  [][phase # "down" /\ phase' # "down" =>
       /\ global' >= global
       /\ \A r \in Live : thread'[r] # "none" => token'[r] >= token[r]]_vars

\* The inductive invariant behind the safety properties: the table and the snapshot
\* of it hold a root path once, only threads with a handle or being joined are
\* live, when threads are started every handle belongs to the snapshot, and the
\* lock is held for as long as there is a pool.
PoolInv ==
  /\ TypeOK
  /\ Distinct(registered) /\ Distinct(desired)
  /\ Distinct(workers \cup ({joining} \ {NoRepo}))
  /\ Live \subseteq workers \cup {joining}
  /\ Distinct(LiveIn(left))
  /\ phase = "spawn" => StaleGone
  /\ locked = (phase # "down")
  /\ \A c \in Clients : cli[c].op = "init" => cli[c].repo \in used
  /\ RowsHaveRepo

\* The pool converges to the repository table, which changes finitely often here:
\* again and again the handles are exactly those of the registered repositories,
\* none of a removed one and none missing (its thread may have died since), or the
\* process has ended, however it was quit or failed.
TableFollowed == []<>(workers = registered \/ phase = "down")

\* Every join ends, on the render thread as in the shutdown: the worker is
\* signalled first, and sees it wherever it is; a dead thread is joined at once.
JoinsEnd == []<>(joining = NoRepo)
=============================================================================
