# MergeQueue: TLA+ models and proofs

MergeQueue is a local merge queue for git worktrees: `mergequeue enqueue` puts
a branch into a SQLite table, and a TUI process runs one worker thread per
registered repository that rebases the branch, runs the configured CI commands
and fast-forwards the target, or hands a conflict to an agent in a tmux window.
There is no daemon: everything that runs concurrently meets in one database.

This directory holds models of that program, the TLC configurations that check
them, and TLAPS proofs. Paths below are relative to the repository
root. `PROJECT.json` lists the runs, the theorems, the lines behind every
definition and the hazards.

## The system

| Part | State it keeps | Operations | Talks to | What is hard | What makes it correct |
|---|---|---|---|---|---|
| state machine, `src/core/state_machine.rs` | none | `transition`, `advance_status` | called by the worker | panics on unexpected pairs | total on the pairs the worker feeds it; no CI step skipped |
| store, `src/store/sqlite_store.rs` | `queue_entries`, `conflict_sessions`, `registered_repos` | one SQL statement per call | every other part | whole-row updates from stale copies; several processes | rows are well formed at rest |
| worker, `src/engine/worker.rs` | one in-memory entry per thread | `run`, `process`, `finalize`, `handoff` | store, git, CI, tmux | runs minutes between read and write; dies on any error | a row in flight belongs to exactly one thread; Merged means landed |
| pool, `src/engine/pool.rs`, `shutdown.rs` | threads and tokens by repository | `reconcile`, `shutdown_and_join` | TUI, workers | joins, dead threads, repositories coming and going | one thread per repository; quitting ends |
| recovery, `src/engine/recovery.rs` | none | dead-claim sweep, session sweep | store, tmux | runs after any crash | sweeps only what nobody works on |
| lock, `src/store/lock.rs` | flock on `tui.pid` | `acquire`, drop | TUI start | process death | one TUI at a time |
| CLI, `src/cli/commands/` | a copy of one row | `enqueue`, `cancel`, `retry`, `resolve`, `init`, `repos remove` | store, tmux | read-modify-write against live workers | never leaves a malformed row |
| conflict sessions, `src/engine/handoff.rs`, `src/agents/` | session rows, tmux windows | open, paste the prompt, respawn, close | store, tmux, agent | two tables, no transaction; windows addressed by name; every tmux call can fail | a NeedsHelp row has a session, and what a handoff typed went to its own window |
| TUI state, `src/tui/app.rs`, `run.rs` | snapshot, selection | refresh, keys | store, pool | acts on a stale, truncated snapshot | keys act on what is shown |
| git, `src/git/process_git.rs` | worktrees, branches | rebase, merge --ff-only, status | worker | the user edits the same worktrees | what lands has passed CI |
| animation, `src/tui/sprite/penrose.rs` | three generations of a tiling, a phase | advance, promote, draw | TUI state | generations replaced while they are on the screen | promotions do not show; no tile missing |
| drawing of dots and widgets, prompt text, parser, reports | - | - | - | - | not modelled (see the end) |

## Modules

| Module | Models |
|---|---|
| `MergeFsm` | `transition()` and the enumerations of `core/queue.rs`, as pure operators |
| `QueueStore` | the two tables the engine works on, one operator per SQL statement |
| `MergeEngine` | the composition: worker threads, TUI process, CLI commands and user, with their properties |
| `MergeEngineInv` | the inductive invariant `IInv` |
| `MergeService` | what the queue promises: an abstract server per repository |
| `MergeEngineService`, `MergeServiceProofs` | the mapping from the engine to the service; the theorems on rows and ownership, on landing, CI, order and sessions, and that the engine implements the service |
| `ConflictSessions`, `ConflictSessionsProofs` | a conflict on its way to an agent: tmux windows, sessions, the startup sweep, `resolve`, `retry`; the theorems |
| `GitMerge`, `GitMergeProofs` | what the worker does to branches and worktrees, and what the user does to them meanwhile; the theorems on CI and on histories |
| `EnginePool`, `EnginePoolProofs` | the pool of threads against a repository table that changes; the theorems |
| `TuiApp`, `TuiAppProofs` | the snapshot, the selection, the keys and the frames of the render loop; the theorems on frames, the selection and the rows shown |
| `Filters`, `FilterProofs` | the part of a list that is in a set, which a replay and a bucket are; what it returns, for every list |
| `Migrations`, `MigrationsProofs` | processes of several binaries that open one database; the theorems |
| `PenroseAnimator`, `PenroseProofs` | the generations of the tiling behind the animation, and their fades; the theorems |
| `MCMergeEngine`, `MCGitMerge`, `MCEnginePool`, `MCConflictSessions`, `MCTuiApp`, `MCMigrations` | instances for TLC |

`MergeEngine` uses `QueueStore` and `MergeFsm`, and implements `MergeService`. The
other models are views of the same program at other places: `GitMerge` keeps the order of
the worker's steps and replaces the store by a status per entry; `EnginePool` keeps
the threads and replaces their work by one step; `ConflictSessions` keeps one entry,
whose rebase always conflicts, and adds the windows; `TuiApp` sees the table change under
it in any way. `PenroseAnimator` stands alone: the animation reads only the sprite
state, which sets its pace.

### How the state corresponds to the code

`MergeEngine`:

- `rows[e]` is the row of an entry, with the columns some decision depends on.
  `finished` is `finished_at IS NOT NULL`, `claim` is `claimed_by_pid`.
  `"Fresh"` and `"Deleted"` stand for an id without a row. Ids are UUIDs, so
  none is used twice. `stamp[e]` is `enqueued_at`.
- `sessions[s]` is a row of `conflict_sessions`; `"Open"` is `ended_at IS NULL`.
- A worker is a pair `<<process, repository>>`. `pc` says where its thread is:
  `poll` (top of `run`), `precheck`, `loop` (top of the loop of `process`),
  `save` (a step has been executed and `update_entry` is next), `handoff` (the
  session is recorded and the row is next), `dead` (an error went out of `run`),
  `exited`, `none`. `mem` is the `QueueEntry` in its memory, `held` its id.
- `cli[c]` is a CLI command, or the TUI's attach key, between its read and its
  writes, with the edited copy it is going to write.
- `lock`, `proc` and `unswept` follow `tui::run`: lock, dead-claim sweep, list
  of open sessions, one probe per session, pool, quit, join.
- `passed` and `landed` are history variables; no action reads them.

A step is what happens between two accesses to shared state. A store call is one
SQL statement in autocommit mode and is one step; a worker that runs `git rebase`
and then saves the row takes two, and in between anything may happen: a CLI
command writes the row, the row is deleted, the process dies. Errors of store and
git calls are `IoError`, possible at every point of a thread. A kill of the
process is `Crash`, possible at every point after the lock. A pid may be
recycled: the next process may be the same member of `Procs`. The set of
repositories is fixed here, and the first `reconcile()` is assumed not to fail
half way; both are the subject of `EnginePool`. `SweepIsSafe` rests on that second
assumption: without it, claims of live threads can be swept. A `Crash` ends a
process with everything it runs; that a git or CI command may outlive it is not modelled.

`GitMerge`: a branch is a sequence of changes (`tip`), a rebase appends those the
target lacks, `merge --ff-only` works on prefixes. `head[w]` is the branch worktree `w` has checked
out, or `w` itself if its HEAD is detached; `edited` are the worktrees with uncommitted edits of
tracked files and `untracked` those with untracked files; `stopped` says that a rebase has
stopped in a worktree and what its result will be. Two notions of a worktree that is not clean
are kept apart, as in the code: `Dirty` is what `git status --porcelain` lists, untracked files
included, which precheck and `enqueue` ask for; `Refuses` is what keeps `git rebase` from
starting, which untracked files do not, and nothing else is asked before a rebase.
The worker reads names and paths from
the row and resolves them when it runs a command, as `process_git.rs` does: the
rebase rewrites what the source worktree has checked out by then, the fast-forward moves
what the registered worktree has checked out. `enqueue` stores what `git rev-parse --abbrev-ref
HEAD` prints, which is `HEAD` for a detached one (`CurrentBranch`), and `Resolved` is what git makes
of that name in the registered worktree. A CI step may leave edits and untracked files in
its worktree (`Writes`); `wrote` remembers that edits there are CI's own. `seen` (what CI passed
on), `landed` and `meddled` are history. There is one target branch, worktrees do not disappear
(they do in `MergeEngine`), `rebase.autoStash` is off, and the user does not rewrite history.
`Interrupted` lets a command that was running stop half way or finish, before the entry is
claimed again.

`EnginePool`: `registered` is the table `registered_repos` with its `UNIQUE` root
path and its cascade, `row[r]` the state of the one queue entry a repository has
at a time, `workers` the keys of the handle map, `joining` the handle that has been
taken out of it, `token[r]` and `global` the levels of the shutdown tokens,
`thread[r]` the thread itself: it may be `dead` while its handle is still in the
map. `phase` is where the main thread is. A repository id is used once. `locked` is the flock
on `tui.pid`, and it is all that `Start` looks at. A process whose first `reconcile()` fails drops
the lock while threads of it live: they move to `left`, work on without anybody to signal them,
and are gone when that process ends (`LeftEnds`). One such process is followed at a time.

`ConflictSessions`: `row` is the status and the session of the one entry, `windows` what
is open on the tmux server. A window is known by its name, which is made of the pid of
the run and the id of the entry: here, the pid. `window_alive` is true if any window has the
name, but a command addressed to a name that two windows have fails (`Target`), as
`send-keys -t` does. `typed` is what was typed into a window: `Launch` types `opencode` and Enter
into a shell, `Paste` the prompt 600 ms later, and both succeed whatever becomes of the keys;
whether an agent runs in a window is something the program never learns and the model does not
have. `ProbeSession` condemns a session whose window is not there, or
for which tmux exited with an error, which `has_session` and `window_alive` report as "no
window"; `misled` (history) are the sweeps in the second case. `task[a]` is the call a worker or a command is in, `listed` and
`doomed` what the sweep has read and is about to write. `win` and `ok` of a session are
history: the window opened for it, and whether every tmux call made for it exited with success.
Each tmux call and each statement is a step. `row` keeps the session of a retried entry,
as the column does.

`PenroseAnimator`: `coarse`, `fine`, `nextFine` and `tau` are the fields. Corners are exact:
all of them lie in the ring of the tenth roots of unity, in which the golden ratio is a
unit, so nothing is lost by subdividing or scaling and TLC finds the finitely many
tilings of the screen that the zoom passes through. The code computes in `f32`; that its
errors stay small is not shown. Squared lengths are m + nφ, compared in millionths with φ
from below, which makes them a norm. Fades are in thousandths and `tau` in 40ths.

`MergeService`: `place` says where an entry is, `job` what the server of a
repository is at, `landed` what is on the target. `MergeEngineService` maps the status
of a row to a place and the entry held by a busy thread, of whatever process, to the job
of its repository. The service allows users to withdraw or put back entries at any time and
servers to be lost, because the program does; what it promises is one job at a
time per repository, recovery only when nobody is at work, and a place `merged` given only
by the server at work on the entry and after it has landed.

`TuiApp`: `entries`, `selected` and `expanded` are fields of `AppState`; `frame` is
what the last draw put on the screen: the marked entry, the rows shown in the
buckets, the animation. Ids are numbered in the order in which the list is sorted;
an entry enqueued in the same second may come before those already listed.
The clock is assumed not to go back. Other processes may give a row any
status, as `update_entry` writes whole rows from stale copies.

`Migrations`: `made` is what the schema holds, `recorded` the rows of
`schema_version`, `version[p]` the migration a process is at. A migration's
transaction is one step, the read before it another; running a migration that
somebody else has made is an error (`duplicate column`) and the process is refused.
`ReadsFail` says whether the query of `current_version` may fail, which the code counts
as version 0.

## What is checked

| Run | Shows | Properties | Instance |
|---|---|---|---|
| `lifecycle` | one entry through everything that can happen to it | `TypeOK`, `RowsConsistent`, `MergedHasLanded`, `LandsOnlyGreen`, `FsmTotal`, `NeedsHelpHasSession`, `EngineKeepsMerged` | all eight CI configurations, two sessions, a client with all commands |
| `owners` | order and ownership among competing and recycled processes, and that all of it is a merge service | `InFlightOwned`, `SweepIsSafe`, `FifoClaims`, `ServesQueue` | two entries with stamps in the same and in different seconds, two processes, a client |
| `progress` | nothing gets stuck | `QueueDrains`, `QuitCompletes` | two entries, two repositories, retries, a dirty target, a vanishing worktree |
| `git_merge` | one entry, and CI, user and agent at work in the same worktrees | `TypeOK`, `LandsOnce`, `LandsWhatCiPassed`, `NoWorkLost`, `TargetsOnlyGrow` | an entry from any worktree, two worktrees, two changes, CI that leaves files behind, a user who commits, edits and adds files, checks out any branch anywhere (the target in a source worktree too) and detaches HEAD, also while the entry waits |
| `pool` | threads, handles, tokens and the repository table, also with the threads of a process that failed to start | `OneThreadPerRoot`, `RowsHaveRepo`, `TokensEscalate`, `TableFollowed`, `JoinsEnd` | two ids for one path, one for another, a client |
| `sessions` | a conflict on its way to an agent, whatever tmux and the commands do | `TypeOK`, `PromptDelivered`, `ResolvedIsDone`, `HandoffEnds`, `SweepSpares` | two runs, two commands at a time, two windows, three sessions |
| `animation` | the endless zoom has no seams | `ShortLists`, `Glued`, `NoneMissing`, `Seamless` | frames of a 40th, 11 40ths and more than a cycle |
| `tui` | keys act on what is shown, and what is shown is right | `TypeOK`, `SelectionInRange`, `MarkedIsShown`, `HelpSignalled`, `ActsOnFrame` | three entries, two of them listed, one row per bucket |
| `migrations` | concurrent and interrupted migrations | `SchemaWhole`, `ReadyIsMigrated` | binaries of different ages, two migrations |
| `lost_cancel` | a divergence, see below | `CancelSticks` | |
| `git_wrong_branch` | a divergence | `LandsOnTarget` | |
| `migration_race` | a divergence | `RefusedOnlyIfNewer` | |

Every passing run explores its complete state space; none has a depth limit. Deadlock is
checked in all of them but those of `TuiApp`, whose loop really ends after a quit, and of
`ConflictSessions`, whose supply of pids and sessions ends: elsewhere a TUI can always be started, stopped or
killed, and a database opened again.

### Bounds

- `MergeEngine`: at most two entries, two repositories, two processes, one client,
  two conflict sessions. What several commands do to each other at a conflict is the
  subject of `ConflictSessions`; for the rows it is proved for any number. A third entry adds nothing to the relation of two (order of
  claims, ownership), and the code relates two repositories to each other only through the
  process that runs both. `SessionToSpare` bounds the supply of session ids: a rebase
  conflicts only if an id is left for every session about to be opened.
- `GitMerge`: `Changes` bounds the commits; two suffice for a target that moves and a
  source of its own. There are two branches, and a worktree can check out that of the
  other once the other has detached its HEAD; one CI step; one entry, which may be merged, put
  back by a kill and merged again. Several entries with the same changes, more steps and branches are
  covered by the theorems only, as is a user who edits files in the registered
  worktree (`rootFiles`). `UserMay` says what the user does beyond working in a worktree nothing
  waits for.
- `EnginePool`: ids drawn once bound the number of registrations. Two ids for
  one path give a removal and a new registration under a busy worker; the third
  gives two threads to join, and a first `reconcile()` that fails between two spawns.
  `RowsHaveRepo`, `OneThreadPerRoot` and `TokensEscalate`
  are also proved, for any number.
- `ConflictSessions`: two pids give a window of an earlier run for the sweep and for
  `resolve` to find, three sessions a conflict, a respawn and another of either, two
  windows a second one of the same name. Commands run to their end here; in
  `MergeEngine` they may stop anywhere.
- `PenroseAnimator`: the paces are a frame that ends exactly at a promotion, one that
  does not divide the cycle, and one that is later than the half cycle a frame may
  zoom by. `CullR2` is the constant of the code.
- `TuiApp`: `MaxVisible` stands for 200 and `BucketRows` for 4; with three entries
  both limits are exceeded. `Statuses` leaves out `Done`, which only has a bucket of its
  own: as `Working`, but without an animation.
- `Migrations`: `Latest` is 2, as in `store/migrations`; with one binary of the
  past and two of the present, readings of every version meet.

Each property comes with a mutant, an operator of the modules marked `Mutant:`
that replaces a definition the way a plausible bug would; TLC then reports the
property violated. `SweepSparesOwnPid` is worth a look: it does what the comment
on `live_pids` in `engine/recovery.rs` recommends, and strands the row of a
crashed process whose pid is recycled.

### Fairness

`MergeEngine!FairSpec` assumes weak fairness of each worker thread's step and of the
main thread's startup and join; `EnginePool!FairSpec` of each worker thread and of the main
thread, whose render loop goes round because `poll_action` has a timeout. The
threads are OS threads that are never blocked on each other: the connection mutex is held
for one statement, CI and git commands are assumed to end, and `ProbeSession`
and `Exit` are straight-line code. Nothing is assumed of the user, of CLI commands, of
errors or of crashes: no fairness on `Enqueue`, `AcquireLock`, `Quit`,
`IoError`, `Crash`, `ClientStep` or the environment. `QueueDrains`
therefore has a premise: from some time on the TUI stays up, the thread of the
repository is not dead, the target is clean and no command is half way. The premise is what
the code needs: `reconcile()` does not replace a thread that died of an error, so without
it the queue of that repository stops until the next start.
`TableFollowed` promises a handle for the same reason, not a live thread. It is about a table that
changes finitely often, as it does where ids are used once: with endless registrations the pool may
always be one behind.

### What the code does that its documents do not say

Found violated by a run:

- **A cancel does not stop an entry in flight** (`lost_cancel`).
  `docs/07-cli.md:19` promises it. The worker never reads its row again and its next
  `update_entry` (`src/engine/worker.rs:168`) overwrites the cancel; the entry may go on
  to be merged. `EngineKeepsMerged` and `RowsConsistent` show what remains true:
  the row is well formed whoever wins.
- **The fast-forward goes to whatever the registered worktree has checked out**
  (`git_wrong_branch`), against `README.md:26`. `target_branch` is what the source is
  rebased onto; `git merge --ff-only` then runs in `root_path`, where the user may
  have switched branches. `NoWorkLost` shows that the work is at least on the branch
  that was moved.
- **Two processes that create the database at once** (`migration_race`): the version is read
  outside the transaction that changes it, so the later one can run a migration again,
  fail, and refuse to open, which `docs/05-store-and-schema.md:18` reserves for newer
  databases. `SchemaWhole` and `ReadyIsMigrated` show that no damage is done.

Noted while modelling; the models contain the behaviour but no run is spent on it:

- A TUI that fails to start leaves threads behind. If the first `reconcile()`
  fails after it has spawned a thread (`src/tui/run.rs:139`), `tui::run` returns without
  joining it and drops the lock, against `src/tui/run.rs:17` and against what
  `src/engine/pool.rs:23` says of claims. A second TUI that takes the lock before the first process
  has ended sweeps the claim and works on the same entry in the same worktree. The window is
  short; only the end of the process closes it. `OneThreadPerRoot` is about the threads of one
  process for that reason.
- An entry enqueued from a detached HEAD is recorded as Merged and merged to nowhere, against
  `README.md:20`. `enqueue` stores `HEAD` as the source branch
  (`src/cli/commands/enqueue.rs:15`, `src/git/process_git.rs:57`), and `git merge --ff-only HEAD` in the
  registered worktree does nothing and succeeds. `NoWorkLost` and `LandsWhatCiPassed` are about
  entries that have a branch.
- A tmux query that fails closes a session whose window is there, against
  `src/engine/recovery.rs:36`. `window_alive` turns a non-zero exit into "no window"
  (`src/agents/tmux.rs:94`); the default at `recovery.rs:40` is used only if tmux cannot be
  started. `SweepSpares` is what remains true where tmux has answered.
- A handoff that reports success need not have started an agent, against
  `src/agents/opencode.rs:17`: the command is typed into a shell, the prompt after a fixed time
  (`opencode.rs:66`), and nobody looks whether an agent took either, or still runs.
  `PromptDelivered` is what remains true: the keys went to the session's own window.
- An entry that needs help is signalled only if it is one of the oldest 200, against
  `docs/08-tui-and-sprite.md:57`: the sprite state is computed from the truncated list
  (`src/tui/app.rs:92`). `HelpSignalled` is about the rows the list keeps.
- `docs/05-store-and-schema.md:100` calls `claim_next` the only place where a row goes
  from Queued to Rebasing. After a cancel and a retry of an entry in flight, the save of
  its worker does it too.
- `src/cli/commands/retry.rs:32` says that the outcome of a closed session is left
  alone; the check and the write are two statements, and a starting TUI can record
  `Abandoned` between them. Likewise a sweep or a respawn that read a session earlier
  overwrites `Resolved`. `ResolvedIsDone` shows what remains true.
- `docs/09-agents.md:8` has one window per conflict session. Nobody closes the window of
  a retried entry; if it conflicts again in the same run, two windows have the same
  name, and the prompt, the attach key and `resolve`'s hint fail on it.
- The head comment of `src/engine/handoff.rs` says that a failed handoff records an empty
  tmux session and window. It records the names they would have had.
- A `retry` that is killed between closing the session and re-queueing leaves a NeedsHelp row
  whose session is `Resolved`; the next `resolve` or `retry` recovers from it.
- `has-session -t` matches prefixes of session names, so that `mergequeue-12` is found while
  only `mergequeue-123` is there.
- `src/tui/sprite/penrose.rs:90` says that the coarse layer holds full until 0.6 of a cycle. Its
  lines are darker from the moment the next-finer layer fades in over them: a dot of
  the fading layer hides the coarse one (`penrose.rs:452`).
- Nothing looks at the source worktree between the last CI step and the fast-forward, and
  nothing at all after `enqueue`. A commit made on the source branch in that time lands untested:
  `LandsWhatCiPassed` holds for entries whose worktree the user leaves alone while they wait, and
  only for them. Files that are not committed, such as untracked ones a user adds
  while the entry is Failed and retries, or what CI itself leaves, are seen by CI and do not land:
  the property speaks of what is checked out, and of edits of tracked files, which
  make the rebase fail.
- `docs/06-engine.md:106` says that `reconcile()` spawns a worker for every
  repository not running. It does so for every one without a handle.
- `docs/06-engine.md:134` describes what workers do on a hard shutdown. They test
  `is_set()` only and finish as on a soft one.
- `src/tui/app.rs:97` speaks of preserving the selection. The index is
  preserved: a row that appears or disappears before it moves the mark to another entry.

## What is proved

Checked by TLAPS, for every value of the constants that satisfies the named
assumptions.

| Theorem | States | Assumptions |
|---|---|---|
| `TypeCorrect` | `Spec => []TypeOK` of `MergeEngine` | `StoreAssumption`, `EngineAssumption` |
| `Inductive` | `Spec => []IInv` | |
| `RowsStayConsistent`, `InFlightIsOwned`, `SweepStaysSafe` | `RowsConsistent`, `InFlightOwned`, `SweepIsSafe` | |
| `FsmIsTotal`, `OnlyGreenLands`, `MergedIsLanded`, `HelpHasSession` | `FsmTotal`, `LandsOnlyGreen`, `MergedHasLanded`, `NeedsHelpHasSession` | |
| `EngineLeavesMerged`, `ClaimsAreFifo` | the action properties `EngineKeepsMerged`, `FifoClaims` | |
| `EngineServesQueue` | `Spec => ServesQueue`: the engine implements `MergeService` | |
| `PoolInductive` | `Spec => []PoolInv` of `EnginePool` | `PoolAssumption` |
| `PoolTypeCorrect`, `OneThreadAlways`, `RowsAlwaysHaveRepo` | its parts `TypeOK`, `OneThreadPerRoot`, `RowsHaveRepo` | |
| `LevelsEscalate` | `Spec => TokensEscalate` | |
| `ConflictInvariant` | `Spec => []CInv` of `ConflictSessions` | `ConflictAssumption` |
| `WorkersEndHandoffs`, `PromptsDelivered`, `ResolvedStaysDone` | `HandoffEnds`, `PromptDelivered`, `ResolvedIsDone` | |
| `SweepsSpare` | `Spec => SweepSpares`: of sweeps whose probe tmux answered | |
| `SessionsAreBounded` | `Spec => []TypeOK` | |
| `GitInductive` | `Spec => []GitInv` of `GitMerge` | `GitAssumption` |
| `LandsOnlyTested` | `LandsWhatCiPassed`: of entries from a branch whose worktree the user left alone while they waited | |
| `BranchInductive` | `Spec => []BranchInv` | |
| `TypesStay`, `ChangesLandOnce`, `WorkIsKept` | `TypeOK`, `LandsOnce`, `NoWorkLost` | |
| `TargetIsNeverRewritten` | `Spec => TargetsOnlyGrow` | one target branch (`OneTarget`) |
| `FrameAgrees` | `Spec => []FrameInv` of `TuiApp` | none |
| `HelpIsSignalled`, `KeysActOnFrame` | `HelpSignalled`, `Spec => ActsOnFrame` | |
| `ScreenInductive` | `Spec => []ScreenInv` | `TuiAssumption` |
| `ListIsBounded`, `SelectionStaysInRange`, `MarkedStaysShown` | `TypeOK`, `SelectionInRange`, `MarkedIsShown` | |
| `MigrationsInductive` | `Spec => []MigrationInv` of `Migrations` | `MigrationAssumption` |
| `SchemaStaysWhole`, `ReadyStaysMigrated` | `SchemaWhole`, `ReadyIsMigrated` | |
| `ShapeInductive` | `Spec => []Shape` of `PenroseAnimator` | `PenroseAssumption` |
| `TilesAreTyped`, `NoLineIsMissing` | its `TypeOK`; `NoneMissing`, for every culling radius | |
| `PromotionsDoNotShow` | `Spec => Seamless` | `CullR2` at least 3307500 (`WideEnough`) |
| `TilesAreGlued` | `Spec => []Glued` | `WideEnough` |

The assumptions say that null values are not ids, that `RepoOf` and `RootOf` are functions
on ids, that CI configurations are sets of CI steps and that versions are natural
numbers, that pids are not command names, that worktrees start on branches of their own,
that `HEAD` is no branch, that entries are numbered in the order of their stamps, the list and the buckets hold at least one
row, and that paces and the culling radius are natural numbers.

**`MergeServiceProofs`, rows and ownership.** None of the properties is inductive alone. That a row in flight is
owned needs that a saving thread writes its own claim (`MemInv`), that an idle thread holds
nothing (`HeldInv`), that only the lock holder has threads (`LockInv`), that a
command writes no row in flight (`ClientInv`), and that a row in flight has a claim
for the sweep to find (`RowsConsistent`). `IInv` is their conjunction. The proof
first shows what a step can do to threads and processes (`WorkerFrame`,
`OtherFrame`), then to the in-memory copies (`NextMem`, `NextClient`), then that every
write of a row is well formed and, if the row is in flight, made by the thread that holds
it (`WorkerRows`, `OtherRows`); `NextOwned` combines them.

**`MergeServiceProofs`, landing and order.** Three more invariants rest on `IInv`. `PassInv`: what a thread in the
loop has in memory is a pair of status and outcome that `transition` expects, and a status past a
CI step means that step is in `passed`; that gives `FsmTotal` and
`LandsOnlyGreen`. `LandedInv`: the outcome `FastForwardOk`, in a thread's memory or in a
row that a command may write back, occurs only for an entry in `landed`, and so does `Merged`.
`SessionInv`: sessions are never deleted and never change their entry, so a copy of a row
that names one of its own entry does so for ever (`Owns`). The action properties
follow from `IInv` and the guards.

The step simulation, in the last part of the module, has one lemma for the threads of a worker
(`WorkerServes`), one for the main thread (`TuiServes`) and one for the rest (`OtherServes`).
`JobInv` is what makes `job` a set of at most one entry: only the lock holder has busy
threads, one for each repository, and what one holds is of its repository. A worker's save over a
row that a command has changed is `Carry`; a save that finds the row deleted, an error and a
kill are `Drop` or `Fail`; the sweep is `Recover`, whose guard holds because nothing is busy
before the pool is started.

**`EnginePoolProofs`.** Two live threads of one process never share a root path because live threads are
handles in the map or the one being joined, and those have distinct paths. A spawn keeps
that only because every stale handle has been joined before (`phase = "spawn" => StaleGone`)
and the snapshot, read from a table with a `UNIQUE` column, holds a path once. The
snapshot may be out of date in every other respect. A process that fails to start hands its threads
to `left` as they are, and starts none after that; nothing is claimed of threads of two
processes, where the statement is false.

**`MigrationsProofs`.** The versions recorded are an initial segment and the schema is
what they say; a process that is still working is at most at the migration after the
newest recorded, so what it runs is either refused or the next one.

**`ConflictSessionsProofs`.** `TypeOK` bounds the sessions by `MaxSessions`; `Typed` is the part
that is inductive without the bound: what refers to a session refers to one that has been recorded.
It is inductive with five more invariants. `TaskInv` and `LifeInv`: a worker runs in a
running process, and one process lives at a time, so the entry is in flight only under
a worker that is not done (`HandoffEnds`). `WindowInv`: the window that history knows of a session
or of a call is open under its name, and has got as far as the call has while
all tmux commands worked; a command whose target matches one window reaches that one, and
no call takes back what was typed (`WindowsGrow`). That gives `PromptDelivered`.
`PendingInv`: a session recorded and not yet in the row is known to nobody else, so
what a stale respawn or a second conflict puts into the row has not been resolved by
another command (`ResolvedIsDone`). `DoomedInv`: a session condemned by a sweep that tmux
answered had no window when it was
probed, and none is opened for a session that exists (`SweepSpares`). Each invariant has one lemma
with a step for each action; what an action does to calls and to the table of sessions is stated
once (`CallMoves`, `Opens`, `Closes`, `CloseWindowsMoves`). The bound follows from `RoomInv`: the
sessions recorded and the calls that may still record one are together no more than
`MaxSessions`.

**`GitMergeProofs`.** `GitInv` has what a fast-forward relies on. `CiInv` says that the steps
passed so far have all seen the source branch as it is now, and that only CI has edited tracked
files in the worktree since the rebase, which found none (`Untouched`), unless the user meddled. It is
kept because nobody else writes that branch: it is checked out in the worktree of the entry
(`SourceInv`) and nowhere else (`HeadInv`, which also says that a detached HEAD is that of its own
worktree and so no branch), and a user who works there while the entry waits, or switches
branches, is recorded in `meddled` (`TreeGit`); `CurInv` says which entry that is. That proof needs
nothing about the changes on branches.

`BranchInv` is about the changes. A step leaves a branch alone or moves it by a
rebase, a commit, a fast-forward, or the end of a rebase that had stopped, whose result was
computed when it stopped; a detached HEAD moves in the same ways, takes the history of what is
detached, and is forgotten (`Moves`). `OnceInv` says that no history has a change
twice and that no stopped rebase is about to bring one in; `StopInv`, that its result has
everything that is on the branch it will replace, which holds because nobody moves a branch
under a stopped rebase (`HeadInv`, and git's refusal to commit, merge or switch in that
worktree); `RowInv`, that a row's branch, if it names one,
has the work it was enqueued with. A commit keeps
`OnceInv` because what it adds has not been made before. `TargetsOnlyGrow` needs one more
invariant, `TargetInv`: no rebase stops on the target, as a rebase of the target onto itself has
nothing to do. With two targets the statement is false for the program as for the model: if the
worktree of an entry for one of them has the other one checked out, the rebase rewrites it.
Hence the hypothesis `OneTarget`, which the run's instance satisfies.

**`TuiAppProofs`.** `FrameInv`: if nothing has asked for a new frame, the one on the screen
shows the marked entry, its status and the animation that the state has; the loop does not
wait for a key before it has drawn. `ScreenInv` adds what the frame is made of: the snapshot
has at most `MaxVisible` rows (`SnapshotFacts`), each bucket shows at most `BucketRows` of them,
the marked one included if it is in the bucket (`VisibleFacts`), and the marked entry is in the
bucket of its status (`MarkedFacts`); a key moves the selection within the snapshot
(`SelectInRange`), and a refresh clamps it to the new one.

**`FilterProofs`.** `Kept` is defined by recursion over the positions of a list. What
it returns is proved by induction all the same: `NatInduct` states induction for a set of numbers
instead of a predicate, and follows from the library's theorem that a nonempty set of numbers has
a least one. `KeptProperties`: the result has the elements that are kept and no others, in a list
without repetitions if the given one has none; `KeptNothing`, nothing from nothing. The facts on
prefixes and on the sets of elements that both models use are stated there too.

**`PenroseProofs`.** `Shape`: the tiles of each generation are halves of rhombs of one size, the
third corner a tenth or three tenths of a turn of the leg away from the second; the squared legs are 5 - 3φ,
13 - 8φ and 34 - 21φ in the three generations. Splitting and scaling keep that by
identities between a turn, the golden ratio and the four coordinates (`ThinRing`, `ThickRing`,
`SubdivideShape`, `ScaleShape`). `NoLineIsMissing` is what a leg of that size gives: if both
ends are outside the circle of the test, the leg comes no nearer to the centre than its height
over it, which is at least the radius of the ends less a quarter of the leg (`Height`); at each
of the 40 phases the margin of 1.05 exceeds that (`LegMisses`). For `PromotionsDoNotShow`, `Derived`
says of each of the two finer generations that it is the one before it, split and culled. Squared
lengths are positive (`NormPositive`, by completing squares), so they obey the triangle
inequality in the form |u + v|² ≤ 2|u|² + 2|v|² and weighted variants of it (`Triangle`), and φ multiplies them as it should up to the
precision of the model (`NormOfPhi`). So a tile that comes into view after a promotion lay, before it,
well within the radius of culling, and so did the tile that it is part of (`NothingCulled`);
and splitting and scaling commute (`HalvesScale`). Hence what is shown is what would have been shown
without culling, for every radius from 1.82 screens on; the code has 2.2.

`TilesAreGlued` has an invariant of its own, `Gapless`. A tile opens one way or the other
(`Opens`), and each of its three edges has a tile on its far side that matches it (`OnBC`, `OnAC`,
`OnAB`) or is on a rim (`Joined`). The halves of a tile match each other (`Siblings`) and the halves
of matching tiles do (`AcrossAB`, `AcrossAC`, `AcrossBC`), so splitting opens no gap
(`SubdivideJoined`), nor does scaling (`ScaleJoined`); culling opens gaps outside its radius only
(`CullJoined`). The rims are the ten chords around the first wheel, which keep at a squared distance
of 0.904 from the centre however often they are split, and what lies outside
2350000, 1455000 or 927000 in the coarse, fine and finest generation: splitting an edge leads
inwards by a part of its length at most (`FarCloses`, from `Weighted`). That zooming drives the rims
outwards again is true of a point whose conjugate, φ replaced by 1 - φ, is short:
|φv|² is φ²|v|² exactly, but the norm of the model, with φ from below, falls short of it in
proportion to the conjugate. Zooming shrinks conjugates by φ² and splitting adds a bounded length to
them, so they stay short (`Window`, `FineWindow`, `PhiWindow`).

Only model-checked: `QueueDrains`, `QuitCompletes`, `TableFollowed` and `JoinsEnd` (liveness under
fairness is beyond the prover), and `ShortLists` of `PenroseAnimator`, which depends on how many tiles
fit into the very radius `CULL_R`.
The tilings are finitely many and the run goes through all of them and
through every phase; only the paces of frames are a sample. `TypeOK` of
`EnginePool`, of `Migrations` and of `PenroseAnimator`, and `IInv`, `PoolInv`, `MigrationInv` and
`Shape`, are proved and not listed in a run.

## Not modelled

What the drawing code computes anew in every frame and nobody reads: the dots a line covers,
feathering and despeckling (`src/tui/sprite/penrose.rs:483-627`), glyphs
(`glyph.rs`), layout and colours of the widgets (`src/tui/ui.rs`). The help overlay, the status
line, demo mode and rows clipped by a small terminal. The text of prompts and the events
broadcast: outputs the program does not read back. Argument parsing, `status`,
`logs`, `doctor`, paths: reports and file locations. In worktrees: `rebase --skip`,
amended commits and other rewriting of history by the user. `rebase.autoStash`. Git and CI commands that
outlive a TUI that is killed and still run when the next one works on the entry. Several target branches: the
fast-forward never looks at the target (see `git_wrong_branch`), so that entries with
different targets differ only in what they are rebased onto.
