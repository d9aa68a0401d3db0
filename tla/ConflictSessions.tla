-------------------------- MODULE ConflictSessions --------------------------
(***************************************************************************)
(* A conflicting entry on its way to an agent: the worker opens a tmux     *)
(* window, starts the agent in it, pastes the prompt and records a         *)
(* conflict session (engine/handoff.rs, agents/opencode.rs); the startup   *)
(* sweep of a later run closes sessions whose window is gone               *)
(* (engine/recovery.rs); `resolve` and the attach key reopen one           *)
(* (agents/resolve.rs) and `retry` ends it (cli/commands/retry.rs).        *)
(* MergeEngine has the database half of this and lets tmux answer as it    *)
(* likes; here the windows are state, with what has been typed into each.  *)
(* What becomes of it there the program does not know, and it is not       *)
(* modelled: `opencode` may be missing, may not take the prompt yet, may   *)
(* exit.                                                                   *)
(*                                                                         *)
(* One entry is followed.  A window is addressed by name, and its name is  *)
(* made of the pid of the TUI and of the entry id, so here it is a pid.    *)
(* Commands run to their end here; MergeEngine interrupts them (Abort).    *)
(***************************************************************************)
EXTENDS Naturals, Sequences, FiniteSets

CONSTANTS
  Procs,                    (* the pids of successive TUI runs              *)
  Clients,                  (* CLI commands and TUI attach calls            *)
  MaxWindows,               (* bound: windows open at a time                *)
  MaxSessions,              (* bound: sessions ever recorded                *)
  NoProc

ASSUME ConflictAssumption ==
  /\ NoProc \notin Procs \cup Clients
  /\ Procs \cap Clients = {}
  /\ MaxWindows \in Nat /\ MaxSessions \in Nat

VARIABLES
  row,       (* the queue entry: its status and conflict_session_id         *)
  sessions,  (* conflict_sessions, by id; win and ok are history: the       *)
             (* window opened for it, and whether every tmux call worked    *)
  windows,   (* the windows open on the tmux server, and what the engine or *)
             (* a command has typed into each                               *)
  proc,      (* per pid: how far the TUI process has got                    *)
  listed,    (* per pid: sessions its startup sweep still has to probe      *)
  doomed,    (* per pid: the session it has just found without a window     *)
  misled,    (* history: the pids that found it so because tmux failed      *)
  task       (* per worker thread and per client: the call it is in         *)

sweepVars == <<proc, listed, doomed, misled>>
vars == <<row, sessions, windows, sweepVars, task>>

Actors == Procs \cup Clients
NoSession == 0
NoWindow  == 0
Windows   == 1..MaxWindows

Closed == [name |-> NoProc, typed |-> "none"]

\* `session` is the one of the row as it was read, and later the one to write;
\* name, win and ok are filled in on the way.
Idle == [pc |-> "idle", name |-> NoProc, win |-> NoWindow, ok |-> TRUE, session |-> NoSession]

\* AgentCrashed exists in core/conflict.rs and is never recorded.
TypeOK ==
  /\ row \in [status : {"Queued", "InFlight", "NeedsHelp"}, session : 0..MaxSessions]
  /\ sessions \in Seq([name : Procs, win : 0..MaxWindows, ok : BOOLEAN,
                       outcome : {"Open", "Resolved", "Abandoned"}])
  /\ Len(sessions) <= MaxSessions
  /\ windows \in [Windows -> {Closed} \cup [name : Procs, typed : {"nothing", "command", "prompt"}]]
  /\ proc \in [Procs -> {"new", "swept", "probing", "running", "dead"}]
  /\ listed \in [Procs -> SUBSET (1..MaxSessions)]
  /\ doomed \in [Procs -> 0..MaxSessions] /\ misled \subseteq Procs
  /\ task \in [Actors -> [pc : {"idle", "probe", "window", "launch", "paste", "record",
                                "save", "close", "open", "write",
                                "retryCheck", "retryClose", "retryWrite"},
                          name : Procs \cup {NoProc}, win : 0..MaxWindows, ok : BOOLEAN,
                          session : 0..MaxSessions]]

Init ==
  /\ row = [status |-> "Queued", session |-> NoSession]
  /\ sessions = <<>>
  /\ windows = [i \in Windows |-> Closed]
  /\ proc = [p \in Procs |-> "new"]
  /\ listed = [p \in Procs |-> {}] /\ doomed = [p \in Procs |-> NoSession]
  /\ misled = {}
  /\ task = [a \in Actors |-> Idle]

-----------------------------------------------------------------------------
(* tmux.                                                                   *)

Open     == {i \in Windows : windows[i] # Closed}
Named(n) == {i \in Open : windows[i].name = n}

\* What list-windows answers, if it does.
WindowAlive(n) == Named(n) # {}

\* A `-t session:window` target has to match one window: none is an error, and
\* so are two of the same name.
Target(n, i) == Named(n) = {i}

\* Bound: a call that opens a window and a session starts while both are left
\* for it, the calls under way counted.
RoomForOne ==
  /\ Cardinality(Open) + Cardinality({a \in Actors : task[a].pc \in {"probe", "window"}})
       < MaxWindows
  /\ Len(sessions) + Cardinality({a \in Actors : task[a].pc \in
                       {"probe", "window", "launch", "paste", "record", "close", "open"}})
       < MaxSessions

Goto(a, to) == task' = [task EXCEPT ![a].pc = to]
Finish(a)   == task' = [task EXCEPT ![a] = Idle]

\* Mutant: the worker leaves the handoff with `?`, like `resolve` does.
TmuxFailsForBoth(a) ==
  /\ Finish(a)
  /\ UNCHANGED windows

\* A tmux command fails: the handoff records the session regardless, with the
\* names the window would have had; `resolve` gives up.
TmuxFails(a) ==
  /\ IF a \in Procs THEN task' = [task EXCEPT ![a].pc = "record", ![a].ok = FALSE]
                    ELSE Finish(a)
  /\ UNCHANGED windows

\* new-window does not look whether the name is taken.
NewWindow(a) ==
  /\ task[a].pc = "window"
  /\ \/ \E i \in Windows \ Open :
          /\ \A j \in Windows \ Open : i <= j
          /\ windows' = [windows EXCEPT ![i] = [name |-> task[a].name, typed |-> "nothing"]]
          /\ task' = [task EXCEPT ![a].pc = "launch", ![a].win = i]
     \/ TmuxFails(a)
  /\ UNCHANGED <<row, sessions, sweepVars>>

\* Keys typed over whatever was typed before.
Types(i, keys) == windows' = [windows EXCEPT ![i].typed = keys]

\* send-keys "opencode" Enter, which succeeds whatever the shell makes of it.
Launch(a) ==
  /\ task[a].pc = "launch"
  /\ \/ \E i \in Open :
          /\ Target(task[a].name, i)
          /\ IF windows[i].typed = "nothing" THEN Types(i, "command") ELSE UNCHANGED windows
          /\ Goto(a, "paste")
     \/ TmuxFails(a)
  /\ UNCHANGED <<row, sessions, sweepVars>>

Recorder(a) == IF a \in Procs THEN "record" ELSE "close"

\* Mutant: the call returns with the agent launched and no prompt sent.
PasteNothing(a) ==
  /\ task[a].pc = "paste"
  /\ Goto(a, Recorder(a))
  /\ UNCHANGED <<row, sessions, windows, sweepVars>>

\* After the settle time, send-keys with the prompt.  An agent may be there to
\* take it, or the shell, or an agent that is not ready; the caller cannot tell.
Paste(a) ==
  /\ task[a].pc = "paste"
  /\ \/ \E i \in Open :
          /\ Target(task[a].name, i)
          /\ Types(i, "prompt")
          /\ Goto(a, Recorder(a))
     \/ TmuxFails(a)
  /\ UNCHANGED <<row, sessions, sweepVars>>

-----------------------------------------------------------------------------
(* conflict_sessions.                                                      *)

OpenConflictSession(a, name) ==
  sessions' = Append(sessions, [name |-> name, win |-> task[a].win,
                                ok |-> task[a].ok, outcome |-> "Open"])

CloseConflictSession(s, outcome) == sessions' = [sessions EXCEPT ![s].outcome = outcome]

-----------------------------------------------------------------------------
(* The TUI process.                                                        *)

\* A run takes the lock when no other lives, and sweeps the dead claim.
Start(p) ==
  /\ proc[p] = "new" /\ \A q \in Procs : proc[q] \in {"new", "dead"}
  /\ proc' = [proc EXCEPT ![p] = "swept"]
  /\ row' = IF row.status = "InFlight" THEN [row EXCEPT !.status = "Queued"] ELSE row
  /\ UNCHANGED <<sessions, windows, listed, doomed, misled, task>>

ListOpenSessions(p) ==
  /\ proc[p] = "swept"
  /\ proc' = [proc EXCEPT ![p] = "probing"]
  /\ listed' = [listed EXCEPT ![p] = {s \in 1..Len(sessions) : sessions[s].outcome = "Open"}]
  /\ UNCHANGED <<row, sessions, windows, doomed, misled, task>>

\* Mutant: the name is made of the pid of the TUI that sweeps.
ProbeSessionOwnPid(p) ==
  /\ proc[p] = "probing" /\ doomed[p] = NoSession
  /\ \E s \in listed[p] :
       /\ listed' = [listed EXCEPT ![p] = @ \ {s}]
       /\ \/ UNCHANGED <<doomed, misled>>
          \/ ~WindowAlive(p) /\ doomed' = [doomed EXCEPT ![p] = s] /\ misled' = misled \ {p}
  /\ UNCHANGED <<row, sessions, windows, proc, task>>

\* window_alive(..).unwrap_or(true): the session is spared if its window is there,
\* and if tmux cannot be run; that tmux runs and fails (no server to be reached, a
\* window gone between two of its commands) is the answer no.
ProbeSession(p) ==
  /\ proc[p] = "probing" /\ doomed[p] = NoSession
  /\ \E s \in listed[p] :
       /\ listed' = [listed EXCEPT ![p] = @ \ {s}]
       /\ \/ UNCHANGED <<doomed, misled>>
          \/ /\ doomed' = [doomed EXCEPT ![p] = s]
             /\ misled' = IF WindowAlive(sessions[s].name) THEN misled \cup {p}
                                                          ELSE misled \ {p}
  /\ UNCHANGED <<row, sessions, windows, proc, task>>

\* Mutant: the outcome that names an agent's failure.
SweepCloseCrashed(p) ==
  /\ doomed[p] # NoSession
  /\ CloseConflictSession(doomed[p], "AgentCrashed")
  /\ doomed' = [doomed EXCEPT ![p] = NoSession] /\ misled' = misled \ {p}
  /\ UNCHANGED <<row, windows, proc, listed, task>>

\* The write that follows, whatever has happened to the session meanwhile.
SweepClose(p) ==
  /\ doomed[p] # NoSession
  /\ CloseConflictSession(doomed[p], "Abandoned")
  /\ doomed' = [doomed EXCEPT ![p] = NoSession] /\ misled' = misled \ {p}
  /\ UNCHANGED <<row, windows, proc, listed, task>>

SpawnWorkers(p) ==
  /\ proc[p] = "probing" /\ listed[p] = {} /\ doomed[p] = NoSession
  /\ proc' = [proc EXCEPT ![p] = "running"]
  /\ UNCHANGED <<row, sessions, windows, listed, doomed, misled, task>>

\* The worker claims the entry and its rebase conflicts; what else can become
\* of a claim is in MergeEngine.
Conflict(p) ==
  /\ proc[p] = "running" /\ task[p].pc = "idle" /\ row.status = "Queued"
  /\ RoomForOne
  /\ row' = [row EXCEPT !.status = "InFlight"]
  /\ task' = [task EXCEPT ![p] = [Idle EXCEPT !.pc = "window", !.name = p, !.session = row.session]]
  /\ UNCHANGED <<sessions, windows, sweepVars>>

\* Mutant: an entry that had a session before keeps it.
RecordSessionOnce(p) ==
  /\ task[p].pc = "record" /\ p \in Procs
  /\ IF task[p].session = NoSession
     THEN /\ OpenConflictSession(p, p)
          /\ task' = [task EXCEPT ![p].pc = "save", ![p].session = Len(sessions')]
     ELSE UNCHANGED sessions /\ Goto(p, "save")
  /\ UNCHANGED <<row, windows, sweepVars>>

RecordSession(p) ==
  /\ task[p].pc = "record"
  /\ OpenConflictSession(p, p)
  /\ task' = [task EXCEPT ![p].pc = "save", ![p].session = Len(sessions')]
  /\ UNCHANGED <<row, windows, sweepVars>>

HandoffSave(p) ==
  /\ p \in Procs /\ task[p].pc = "save"
  /\ row' = [status |-> "NeedsHelp", session |-> task[p].session]
  /\ Finish(p)
  /\ UNCHANGED <<sessions, windows, sweepVars>>

ProcessDies(p) ==
  /\ proc[p] \notin {"new", "dead"}
  /\ proc' = [proc EXCEPT ![p] = "dead"]
  /\ listed' = [listed EXCEPT ![p] = {}] /\ doomed' = [doomed EXCEPT ![p] = NoSession]
  /\ misled' = misled \ {p}
  /\ Finish(p)
  /\ UNCHANGED <<row, sessions, windows>>

-----------------------------------------------------------------------------
(* `resolve` and the attach key.                                           *)

Reads(c, pc) ==
  /\ task[c].pc = "idle" /\ row.status = "NeedsHelp"
  /\ task' = [task EXCEPT ![c] = [Idle EXCEPT !.pc = pc, !.session = row.session]]
  /\ UNCHANGED <<row, sessions, windows, sweepVars>>

Resolve(c) == RoomForOne /\ Reads(c, "probe")

\* window_alive(..).unwrap_or(false): hand out the handle or respawn, in the
\* tmux session of the run that opened the first window.
ProbeWindow(c) ==
  /\ task[c].pc = "probe"
  /\ LET name == sessions[task[c].session].name
     IN  \/ WindowAlive(name) /\ Finish(c)
         \/ task' = [task EXCEPT ![c].pc = "window", ![c].name = name]  \* dead, or tmux failed
  /\ UNCHANGED <<row, sessions, windows, sweepVars>>

RespawnClose(c) ==
  /\ task[c].pc = "close"
  /\ CloseConflictSession(task[c].session, "Abandoned")
  /\ Goto(c, "open")
  /\ UNCHANGED <<row, windows, sweepVars>>

RespawnOpen(c) ==
  /\ task[c].pc = "open"
  /\ OpenConflictSession(c, task[c].name)
  /\ task' = [task EXCEPT ![c].pc = "write", ![c].session = Len(sessions')]
  /\ UNCHANGED <<row, windows, sweepVars>>

\* The row as it was read, with the new session in it.
RespawnWrite(c) ==
  /\ task[c].pc = "write"
  /\ row' = [status |-> "NeedsHelp", session |-> task[c].session]
  /\ Finish(c)
  /\ UNCHANGED <<sessions, windows, sweepVars>>

-----------------------------------------------------------------------------
(* `retry`.  Nobody closes the window.                                     *)

Retry(c) == Reads(c, "retryCheck")

RetryCheck(c) ==
  /\ task[c].pc = "retryCheck"
  /\ Goto(c, IF sessions[task[c].session].outcome = "Open" THEN "retryClose" ELSE "retryWrite")
  /\ UNCHANGED <<row, sessions, windows, sweepVars>>

RetryClose(c) ==
  /\ task[c].pc = "retryClose"
  /\ CloseConflictSession(task[c].session, "Resolved")
  /\ Goto(c, "retryWrite")
  /\ UNCHANGED <<row, windows, sweepVars>>

RetryWrite(c) ==
  /\ task[c].pc = "retryWrite"
  /\ row' = [status |-> "Queued", session |-> task[c].session]
  /\ Finish(c)
  /\ UNCHANGED <<sessions, windows, sweepVars>>

-----------------------------------------------------------------------------
\* The user, the agent or the end of the tmux server closes windows; the history
\* variables stop referring to them.
CloseWindows ==
  /\ \E gone \in SUBSET Open \ {{}} :
       /\ windows' = [i \in Windows |-> IF i \in gone THEN Closed ELSE windows[i]]
       /\ sessions' = [s \in 1..Len(sessions) |->
                         IF sessions[s].win \in gone THEN [sessions[s] EXCEPT !.win = NoWindow]
                                                     ELSE sessions[s]]
       /\ task' = [a \in Actors |-> IF task[a].win \in gone THEN [task[a] EXCEPT !.win = NoWindow]
                                                            ELSE task[a]]
  /\ UNCHANGED <<row, sweepVars>>

WorkerStep(p) ==
  NewWindow(p) \/ Launch(p) \/ Paste(p) \/ RecordSession(p) \/ HandoffSave(p)

TuiStep(p) ==
  Start(p) \/ ListOpenSessions(p) \/ ProbeSession(p) \/ SweepClose(p) \/ SpawnWorkers(p)

ClientStep(c) ==
  \/ Resolve(c) \/ ProbeWindow(c) \/ NewWindow(c) \/ Launch(c) \/ Paste(c)
  \/ RespawnClose(c) \/ RespawnOpen(c) \/ RespawnWrite(c)
  \/ Retry(c) \/ RetryCheck(c) \/ RetryClose(c) \/ RetryWrite(c)

Next ==
  \/ \E p \in Procs : Conflict(p) \/ WorkerStep(p) \/ TuiStep(p) \/ ProcessDies(p)
  \/ \E c \in Clients : ClientStep(c)
  \/ CloseWindows

Spec == Init /\ [][Next]_vars

-----------------------------------------------------------------------------
\* The engine never gets stuck in a handoff (head comment of engine/handoff.rs):
\* whatever tmux answers and whatever commands write meanwhile, a worker that is
\* done with the entry has not left it in flight, where nothing but a restart
\* would find it.
HandoffEnds ==
  \A p \in Procs : proc[p] = "running" /\ task[p].pc = "idle" => row.status # "InFlight"

\* The window the row leads to, if every tmux call made for its session worked and
\* the window opened for it is still there and alone under the recorded name.
LeadsTo(i) ==
  /\ row.status = "NeedsHelp"
  /\ LET s == sessions[row.session]
     IN  s.ok /\ s.win = i /\ Named(s.name) \subseteq {i}

\* The keys of a handoff or a respawn arrive where they belong, although they are
\* addressed by name, in three calls, while windows of the same name come and go and
\* other actors type: if nothing failed, it is the session's own window, under the
\* recorded name, that got the command and then the prompt.
PromptDelivered ==
  \A i \in Windows : LeadsTo(i) =>
    /\ windows[i].name = sessions[row.session].name
    /\ windows[i].typed = "prompt"

\* A NeedsHelp row never names a session that a human declared resolved, but for
\* the moment before the same `retry` re-queues it: a stale respawn or a second
\* conflict always brings a session of its own.  (A `retry` killed in that moment
\* leaves such a row behind; the next `resolve` or `retry` recovers from it.)
ResolvedIsDone ==
  row.status = "NeedsHelp" /\ sessions[row.session].outcome = "Resolved" =>
    \E c \in Clients : task[c].pc = "retryWrite" /\ task[c].session = row.session

\* The startup sweep takes no session from a user who is working in it, if tmux
\* answered its probe: the window opened for the session it closes is not there,
\* although the list and the probe are stale when it writes, and commands reopen,
\* replace and resolve sessions in between.
SweepSpares ==
  [][\A p \in Procs \ misled :
       doomed[p] # NoSession /\ sessions' # sessions /\ doomed'[p] = NoSession =>
         sessions[doomed[p]].win = NoWindow]_vars
=============================================================================
