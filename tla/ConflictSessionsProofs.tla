----------------------- MODULE ConflictSessionsProofs -----------------------
(***************************************************************************)
(* The properties of ConflictSessions for every number of TUI runs,        *)
(* commands, windows and sessions.                                         *)
(***************************************************************************)
EXTENDS ConflictSessions, FiniteSetTheorems, TLAPS

USE DEF sweepVars

Session == [name : Procs, win : {NoWindow} \cup Windows, ok : BOOLEAN,
            outcome : {"Open", "Resolved", "Abandoned"}]
Ids == 1..Len(sessions)

WorkerPcs == {"idle", "window", "launch", "paste", "record", "save"}
ClientPcs == {"idle", "probe", "window", "launch", "paste", "close", "open", "write",
              "retryCheck", "retryClose", "retryWrite"}
Call == [pc : WorkerPcs \cup ClientPcs, name : Procs \cup {NoProc},
         win : {NoWindow} \cup Windows, ok : BOOLEAN, session : {NoSession} \cup Ids]

-----------------------------------------------------------------------------
(* The inductive invariant.                                                *)

\* TypeOK without its bounds; a session that is referred to has been recorded.
Typed ==
  /\ row \in [status : {"Queued", "InFlight", "NeedsHelp"}, session : {NoSession} \cup Ids]
  /\ row.status = "NeedsHelp" => row.session # NoSession
  /\ sessions \in Seq(Session)
  /\ windows \in [Windows -> {Closed} \cup [name : Procs, typed : {"nothing", "command", "prompt"}]]
  /\ proc \in [Procs -> {"new", "swept", "probing", "running", "dead"}]
  /\ listed \in [Procs -> SUBSET Ids]
  /\ doomed \in [Procs -> {NoSession} \cup Ids]
  /\ task \in [Actors -> Call]

\* A worker runs in a running process and opens windows under its pid; a command
\* works on the session it has read.
WorkerInv(p) ==
  /\ task[p].pc \in WorkerPcs
  /\ task[p].pc # "idle" => proc[p] = "running" /\ task[p].name = p
  /\ task[p].pc = "save" => task[p].session # NoSession
ClientInv(c) ==
  /\ task[c].pc \in ClientPcs
  /\ task[c].pc # "idle" => task[c].session # NoSession
  /\ task[c].pc \in {"window", "launch", "paste", "close", "open", "write"}
       => task[c].name \in Procs
TaskInv == (\A p \in Procs : WorkerInv(p)) /\ (\A c \in Clients : ClientInv(c))

\* One process lives at a time, and the entry is in flight only while its worker
\* is at it or after it died.
LifeInv ==
  /\ \A p, q \in Procs : proc[p] \notin {"new", "dead"} /\ proc[q] \notin {"new", "dead"} => p = q
  /\ \A p \in Procs :
       proc[p] \in {"swept", "probing", "running"} /\ task[p].pc = "idle" => row.status # "InFlight"

\* The window that history knows of a session or of a call is open under its name,
\* and while all tmux commands have worked it has got as far as the call has.
SessionSees(s) == sessions[s].win # NoWindow =>
  /\ windows[sessions[s].win].name = sessions[s].name
  /\ sessions[s].ok => windows[sessions[s].win].typed = "prompt"
CallSees(a) ==
  /\ task[a].pc \in {"idle", "probe", "window"} => task[a].win = NoWindow
  /\ task[a].win # NoWindow =>
       /\ task[a].name \in Procs /\ windows[task[a].win].name = task[a].name
       /\ task[a].ok /\ task[a].pc = "paste"
            => windows[task[a].win].typed \in {"command", "prompt"}
       /\ task[a].ok /\ task[a].pc \in {"record", "close", "open"}
            => windows[task[a].win].typed = "prompt"
WindowInv == (\A s \in Ids : SessionSees(s)) /\ (\A a \in Actors : CallSees(a))

\* A session that is recorded and not yet in the row is known to nobody else.
Pending(a) == task[a].pc \in {"save", "write"}
PendingAlone(a) ==
  Pending(a) =>
    /\ sessions[task[a].session].outcome # "Resolved"
    /\ task[a].session # row.session
    /\ \A b \in Actors \ {a} : task[b].pc # "idle" => task[b].session # task[a].session
PendingInv == \A a \in Actors : PendingAlone(a)

\* The session a sweep has condemned had no window when it was probed, unless tmux
\* did not tell, and windows are not opened for a session that exists.
DoomedInv ==
  \A p \in Procs \ misled : doomed[p] # NoSession => sessions[doomed[p]].win = NoWindow

HistoryInv == misled \subseteq Procs

CInv ==
  /\ Typed /\ TaskInv /\ LifeInv /\ WindowInv /\ PendingInv /\ DoomedInv /\ ResolvedIsDone
  /\ HistoryInv

\* Nothing changes.
LEMMA SameCInv ==
  ASSUME CInv, UNCHANGED <<row, sessions, windows, proc, listed, doomed, misled, task>>
  PROVE  /\ Typed' /\ TaskInv' /\ LifeInv' /\ WindowInv' /\ PendingInv' /\ DoomedInv'
         /\ ResolvedIsDone'
<1>. Typed /\ TaskInv /\ LifeInv /\ WindowInv /\ PendingInv /\ DoomedInv /\ ResolvedIsDone
  BY DEF CInv
<1>1. Typed' /\ TaskInv'
  BY DEF Typed, TaskInv, WorkerInv, ClientInv, Call, Ids
<1>2. LifeInv' /\ DoomedInv' /\ ResolvedIsDone'
  BY DEF LifeInv, DoomedInv, ResolvedIsDone
<1>3. WindowInv' /\ PendingInv'
  BY DEF WindowInv, SessionSees, CallSees, PendingInv, PendingAlone, Pending, Ids
<1>. QED
  BY <1>1, <1>2, <1>3

-----------------------------------------------------------------------------
(* What the three kinds of writes do to the table of sessions.             *)

LEMMA Appended ==
  ASSUME NEW q \in Seq(Session), NEW x \in Session
  PROVE  /\ Append(q, x) \in Seq(Session)
         /\ Len(Append(q, x)) = Len(q) + 1
         /\ \A i \in 1..Len(q) : Append(q, x)[i] = q[i]
         /\ Append(q, x)[Len(q) + 1] = x
OBVIOUS

\* The rows after windows have gone.
Forgotten(q, gone) ==
  [s \in 1..Len(q) |-> IF q[s].win \in gone THEN [q[s] EXCEPT !.win = NoWindow] ELSE q[s]]

LEMMA Forgets ==
  ASSUME NEW q \in Seq(Session), NEW gone
  PROVE  /\ Forgotten(q, gone) \in Seq(Session)
         /\ Len(Forgotten(q, gone)) = Len(q)
         /\ \A i \in 1..Len(q) :
              /\ Forgotten(q, gone)[i].name = q[i].name
              /\ Forgotten(q, gone)[i].ok = q[i].ok
              /\ Forgotten(q, gone)[i].outcome = q[i].outcome
              /\ Forgotten(q, gone)[i].win = IF q[i].win \in gone THEN NoWindow ELSE q[i].win
<1>1. \A i \in 1..Len(q) : q[i] \in Session
  OBVIOUS
<1>2. \A i \in 1..Len(q) :
        (IF q[i].win \in gone THEN [q[i] EXCEPT !.win = NoWindow] ELSE q[i]) \in Session
  BY <1>1 DEF Session
<1>. QED
  BY <1>1, <1>2 DEF Forgotten

-----------------------------------------------------------------------------
\* A session that is opened and one that is closed.
SessionOpened(a, name) ==
  /\ sessions' \in Seq(Session) /\ Len(sessions') = Len(sessions) + 1
  /\ Ids \subseteq Ids' /\ Len(sessions') \in Ids'
  /\ \A i \in Ids : sessions'[i] = sessions[i]
  /\ sessions'[Len(sessions')] = [name |-> name, win |-> task[a].win,
                                  ok |-> task[a].ok, outcome |-> "Open"]
SessionClosed(s, o) ==
  /\ sessions' \in Seq(Session) /\ Len(sessions') = Len(sessions) /\ Ids' = Ids
  /\ \A i \in Ids :
       /\ sessions'[i].name = sessions[i].name /\ sessions'[i].win = sessions[i].win
       /\ sessions'[i].ok = sessions[i].ok
       /\ sessions'[i].outcome = IF i = s THEN o ELSE sessions[i].outcome

LEMMA Opens ==
  ASSUME CInv, NEW a \in Actors, NEW name \in Procs, OpenConflictSession(a, name)
  PROVE  SessionOpened(a, name)
<1> DEFINE x == [name |-> name, win |-> task[a].win, ok |-> task[a].ok, outcome |-> "Open"]
<1>1. x \in Session
  BY DEF CInv, Typed, Session, Call
<1>2. sessions \in Seq(Session) /\ sessions' = Append(sessions, x)
  BY DEF CInv, Typed, OpenConflictSession
<1> HIDE DEF x
<1>3. /\ sessions' \in Seq(Session) /\ Len(sessions') = Len(sessions) + 1
      /\ \A i \in 1..Len(sessions) : sessions'[i] = sessions[i]
      /\ sessions'[Len(sessions) + 1] = x
  BY <1>1, <1>2, Appended
<1>4. Len(sessions) \in Nat
  BY <1>2
<1>. QED
  BY <1>3, <1>4 DEF SessionOpened, Ids, x

LEMMA Closes ==
  ASSUME CInv, NEW s \in Ids, NEW o \in {"Resolved", "Abandoned"}, CloseConflictSession(s, o)
  PROVE  SessionClosed(s, o)
<1> DEFINE x == [sessions[s] EXCEPT !.outcome = o]
<1>1. /\ sessions \in [1..Len(sessions) -> Session] /\ Len(sessions) \in Nat
      /\ sessions' = [sessions EXCEPT ![s].outcome = o]
  BY DEF CInv, Typed, CloseConflictSession
<1>2. sessions[s] \in Session /\ x \in Session
  BY <1>1 DEF Session, Ids
<1>3. sessions' = [sessions EXCEPT ![s] = x]
  BY <1>1
<1> HIDE DEF x
<1>4. sessions' \in [1..Len(sessions) -> Session]
  BY <1>1, <1>2, <1>3
<1>5. sessions' \in Seq(Session) /\ Len(sessions') = Len(sessions)
  BY <1>1, <1>4
<1>6. \A i \in Ids : sessions'[i] = IF i = s THEN x ELSE sessions[i]
  BY <1>1, <1>3 DEF Ids
<1>7. \A i \in Ids : sessions[i] \in Session
  BY <1>1 DEF Ids
<1>. QED
  BY <1>2, <1>5, <1>6, <1>7 DEF SessionClosed, Ids, Session, x

\* What may become of a call.
LEMMA Calls ==
  ASSUME Typed, Ids \subseteq Ids', NEW a \in Actors
  PROVE  LET Pcs == WorkerPcs \cup ClientPcs
         IN  /\ task[a] \in Call' /\ Idle \in Call'
             /\ \A pc \in Pcs : [task[a] EXCEPT !.pc = pc] \in Call'
             /\ \A pc \in Pcs, win \in Windows : [task[a] EXCEPT !.pc = pc, !.win = win] \in Call'
             /\ \A pc \in Pcs : [task[a] EXCEPT !.pc = pc, !.ok = FALSE] \in Call'
             /\ \A pc \in Pcs, name \in Procs : [task[a] EXCEPT !.pc = pc, !.name = name] \in Call'
             /\ \A pc \in Pcs, s \in Ids' : [task[a] EXCEPT !.pc = pc, !.session = s] \in Call'
             /\ [task[a] EXCEPT !.win = NoWindow] \in Call'
<1>1. task[a] \in Call
  BY DEF Typed
<1>2. task[a] \in Call' /\ Idle \in Call'
  BY <1>1 DEF Call, Idle, WorkerPcs
<1>. QED
  BY <1>2 DEF Call

LEMMA OneCall ==
  ASSUME Typed, Ids \subseteq Ids', NEW a \in Actors, NEW r \in Call',
         task' = [task EXCEPT ![a] = r]
  PROVE  task' \in [Actors -> Call']
<1>1. Call \subseteq Call'
  BY DEF Call
<1>2. task \in [Actors -> Call']
  BY <1>1 DEF Typed
<1>. QED
  BY <1>2

\* The tmux calls disturb windows and the caller's task only.
LEMMA CallsTyped ==
  ASSUME CInv, NEW a \in Actors, NewWindow(a) \/ Launch(a) \/ Paste(a)
  PROVE  Typed'
<1>1. UNCHANGED <<row, sessions, proc, listed, doomed, Ids>>
  BY DEF NewWindow, Launch, Paste, sweepVars, Ids
<1>2. /\ windows' \in [Windows -> {Closed} \cup
                         [name : Procs, typed : {"nothing", "command", "prompt"}]]
  <2>1. CASE NewWindow(a)
    <3>1. task[a].name \in Procs
      BY <2>1 DEF NewWindow, CInv, TaskInv, WorkerInv, ClientInv, Actors
    <3>. QED
      BY <2>1, <3>1 DEF NewWindow, TmuxFails, CInv, Typed
  <2>2. CASE Launch(a)
    BY <2>2 DEF Launch, Types, TmuxFails, CInv, Typed, Open
  <2>3. CASE Paste(a)
    BY <2>3 DEF Paste, Types, TmuxFails, CInv, Typed, Open
  <2>. QED
    BY <2>1, <2>2, <2>3
<1>3. task' \in [Actors -> Call']
  <2>1. \E r \in Call' : task' = [task EXCEPT ![a] = r]
    <3>1. ASSUME NEW pc \in WorkerPcs \cup ClientPcs, Goto(a, pc)
          PROVE  \E r \in Call' : task' = [task EXCEPT ![a] = r]
      BY <1>1, <3>1, Calls DEF Goto, CInv
    <3>2. ASSUME NEW win \in Windows, task' = [task EXCEPT ![a].pc = "launch", ![a].win = win]
          PROVE  \E r \in Call' : task' = [task EXCEPT ![a] = r]
      <4> DEFINE r == [task[a] EXCEPT !.pc = "launch", !.win = win]
      <4>. r \in Call' /\ task' = [task EXCEPT ![a] = r]
        BY <1>1, <3>2, Calls DEF CInv, WorkerPcs
      <4>. QED
        OBVIOUS
    <3>3. ASSUME NEW pc \in WorkerPcs \cup ClientPcs,
                 task' = [task EXCEPT ![a].pc = pc, ![a].ok = FALSE]
          PROVE  \E r \in Call' : task' = [task EXCEPT ![a] = r]
      <4> DEFINE r == [task[a] EXCEPT !.pc = pc, !.ok = FALSE]
      <4>. r \in Call' /\ task' = [task EXCEPT ![a] = r]
        BY <1>1, <3>3, Calls DEF CInv
      <4>. QED
        OBVIOUS
    <3>4. ASSUME TmuxFails(a) PROVE \E r \in Call' : task' = [task EXCEPT ![a] = r]
      <4>1. CASE Finish(a)
        BY <1>1, <4>1, Calls DEF Finish, CInv
      <4>. QED
        BY <3>3, <3>4, <4>1 DEF TmuxFails, WorkerPcs
    <3>. QED
      BY <3>1, <3>2, <3>3, <3>4 DEF NewWindow, Launch, Paste, Recorder, WorkerPcs, ClientPcs
  <2>. QED
    BY <1>1, <2>1, OneCall DEF CInv
<1>. QED
  BY <1>1, <1>2, <1>3 DEF CInv, Typed

LEMMA TypedNext ==
  ASSUME CInv, Next
  PROVE  Typed'
<1> USE ConflictAssumption DEF CInv, Typed, TaskInv, WorkerInv, ClientInv, Actors
<1>. \A a \in Actors : task[a].session \in {NoSession} \cup Ids /\ task[a].pc \in WorkerPcs \cup ClientPcs
  BY DEF Call
<1>1. ASSUME NEW a \in Actors, NewWindow(a) \/ Launch(a) \/ Paste(a) PROVE Typed'
  BY <1>1, CallsTyped
<1>2. ASSUME NEW p \in Procs, Conflict(p) PROVE Typed'
  BY <1>2 DEF Conflict, Call, Idle, sweepVars, WorkerPcs, Ids
<1>3. ASSUME NEW p \in Procs, RecordSession(p) PROVE Typed'
  <2>1. OpenConflictSession(p, p) /\ task' = [task EXCEPT ![p].pc = "save", ![p].session = Len(sessions')]
    BY <1>3 DEF RecordSession
  <2> DEFINE r == [task[p] EXCEPT !.pc = "save", !.session = Len(sessions')]
  <2>2. Ids \subseteq Ids' /\ Len(sessions') \in Ids' /\ sessions' \in Seq(Session)
    BY <2>1, Opens DEF SessionOpened
  <2>3. r \in Call' /\ task' = [task EXCEPT ![p] = r]
    BY <2>1, <2>2, Calls DEF WorkerPcs
  <2>4. task' \in [Actors -> Call']
    BY <2>2, <2>3, OneCall
  <2>. QED
    BY <1>3, <2>2, <2>4 DEF RecordSession, sweepVars
<1>4. ASSUME NEW p \in Procs, HandoffSave(p) PROVE Typed'
  BY <1>4 DEF HandoffSave, Call, Idle, Finish, sweepVars, WorkerPcs, Ids
<1>5. ASSUME NEW p \in Procs, Start(p) PROVE Typed'
  BY <1>5 DEF Start, Call, Ids
<1>6. ASSUME NEW p \in Procs, ListOpenSessions(p) PROVE Typed'
  BY <1>6 DEF ListOpenSessions, Call, Ids
<1>7. ASSUME NEW p \in Procs, ProbeSession(p) PROVE Typed'
  BY <1>7 DEF ProbeSession, Call, Ids
<1>8. ASSUME NEW p \in Procs, SweepClose(p) PROVE Typed'
  <2>1. doomed[p] \in Ids /\ CloseConflictSession(doomed[p], "Abandoned")
    BY <1>8 DEF SweepClose
  <2>. QED
    BY <1>8, <2>1, Closes DEF SessionClosed, SweepClose, Call
<1>9. ASSUME NEW p \in Procs, SpawnWorkers(p) PROVE Typed'
  BY <1>9 DEF SpawnWorkers, Call, Ids
<1>10. ASSUME NEW p \in Procs, ProcessDies(p) PROVE Typed'
  BY <1>10 DEF ProcessDies, Call, Idle, Finish, WorkerPcs, Ids
<1>11. ASSUME NEW c \in Clients, Resolve(c) PROVE Typed'
  BY <1>11 DEF Resolve, Call, Idle, Reads, sweepVars, ClientPcs, Ids
<1>12. ASSUME NEW c \in Clients, ProbeWindow(c) PROVE Typed'
  <2>1. sessions[task[c].session] \in Session
    <3>. task[c].session \in 1..Len(sessions)
      BY <1>12 DEF ProbeWindow, Ids
    <3>. QED
      OBVIOUS
  <2> DEFINE name == sessions[task[c].session].name
  <2>2. Ids' = Ids /\ Idle \in Call' /\ [task[c] EXCEPT !.pc = "window", !.name = name] \in Call'
    BY <1>12, <2>1, Calls DEF ProbeWindow, Ids, Session, ClientPcs
  <2>3. \E r \in Call' : task' = [task EXCEPT ![c] = r]
    <3>1. CASE Finish(c)
      BY <2>2, <3>1 DEF Finish
    <3> DEFINE r == [task[c] EXCEPT !.pc = "window", !.name = name]
    <3>2. CASE task' = [task EXCEPT ![c].pc = "window", ![c].name = name]
      <4>. r \in Call' /\ task' = [task EXCEPT ![c] = r]
        BY <2>2, <3>2
      <4>. QED
        OBVIOUS
    <3>. QED
      BY <1>12, <3>1, <3>2 DEF ProbeWindow
  <2>4. task' \in [Actors -> Call']
    BY <2>2, <2>3, OneCall
  <2>. QED
    BY <1>12, <2>2, <2>4 DEF ProbeWindow, sweepVars
<1>13. ASSUME NEW c \in Clients, RespawnClose(c) PROVE Typed'
  <2>1. task[c].session \in Ids /\ CloseConflictSession(task[c].session, "Abandoned")
    BY <1>13 DEF RespawnClose
  <2>2. Ids' = Ids /\ sessions' \in Seq(Session)
    BY <2>1, Closes DEF SessionClosed
  <2>3. [task[c] EXCEPT !.pc = "open"] \in Call'
    BY <2>2, Calls DEF ClientPcs
  <2>4. task' \in [Actors -> Call']
    BY <1>13, <2>2, <2>3, OneCall DEF RespawnClose, Goto
  <2>. QED
    BY <1>13, <2>2, <2>4 DEF RespawnClose, sweepVars
<1>14. ASSUME NEW c \in Clients, RespawnOpen(c) PROVE Typed'
  <2>1. task[c].name \in Procs /\ OpenConflictSession(c, task[c].name)
    BY <1>14 DEF RespawnOpen
  <2>2. Ids \subseteq Ids' /\ Len(sessions') \in Ids' /\ sessions' \in Seq(Session)
    BY <2>1, Opens DEF SessionOpened
  <2> DEFINE r == [task[c] EXCEPT !.pc = "write", !.session = Len(sessions')]
  <2>3. r \in Call' /\ task' = [task EXCEPT ![c] = r]
    <3>1. task' = [task EXCEPT ![c] = r]
      BY <1>14 DEF RespawnOpen
    <3>2. "write" \in WorkerPcs \cup ClientPcs
      BY DEF ClientPcs
    <3>. QED
      BY <2>2, <3>1, <3>2, Calls
  <2>4. task' \in [Actors -> Call']
    BY <2>2, <2>3, OneCall
  <2>. QED
    BY <1>14, <2>2, <2>4 DEF RespawnOpen, sweepVars
<1>15. ASSUME NEW c \in Clients, RespawnWrite(c) PROVE Typed'
  BY <1>15 DEF RespawnWrite, Call, Idle, Finish, sweepVars, ClientPcs, Ids
<1>16. ASSUME NEW c \in Clients, Retry(c) PROVE Typed'
  BY <1>16 DEF Retry, Call, Idle, Reads, sweepVars, ClientPcs, Ids
<1>17. ASSUME NEW c \in Clients, RetryCheck(c) PROVE Typed'
  <2>1. Ids' = Ids /\ \A pc \in ClientPcs : [task[c] EXCEPT !.pc = pc] \in Call'
    BY <1>17, Calls DEF RetryCheck, Ids
  <2>2. \E pc \in ClientPcs : task' = [task EXCEPT ![c] = [task[c] EXCEPT !.pc = pc]]
    BY <1>17 DEF RetryCheck, Goto, ClientPcs
  <2>3. task' \in [Actors -> Call']
    <3>. PICK pc \in ClientPcs : task' = [task EXCEPT ![c] = [task[c] EXCEPT !.pc = pc]]
      BY <2>2
    <3>. QED
      BY <2>1, OneCall
  <2>. QED
    BY <1>17, <2>1, <2>3 DEF RetryCheck, sweepVars
<1>18. ASSUME NEW c \in Clients, RetryClose(c) PROVE Typed'
  <2>1. task[c].session \in Ids /\ CloseConflictSession(task[c].session, "Resolved")
    BY <1>18 DEF RetryClose
  <2>2. Ids' = Ids /\ sessions' \in Seq(Session)
    BY <2>1, Closes DEF SessionClosed
  <2>3. [task[c] EXCEPT !.pc = "retryWrite"] \in Call'
    BY <2>2, Calls DEF ClientPcs
  <2>4. task' \in [Actors -> Call']
    BY <1>18, <2>2, <2>3, OneCall DEF RetryClose, Goto
  <2>. QED
    BY <1>18, <2>2, <2>4 DEF RetryClose, sweepVars
<1>19. ASSUME NEW c \in Clients, RetryWrite(c) PROVE Typed'
  BY <1>19 DEF RetryWrite, Call, Idle, Finish, sweepVars, WorkerPcs, Ids
<1>20. CASE CloseWindows
  <2>1. PICK gone \in SUBSET Open :
          /\ windows' = [i \in Windows |-> IF i \in gone THEN Closed ELSE windows[i]]
          /\ sessions' = Forgotten(sessions, gone)
          /\ task' = [a \in Actors |-> IF task[a].win \in gone THEN [task[a] EXCEPT !.win = NoWindow]
                                                             ELSE task[a]]
    BY <1>20 DEF CloseWindows, Forgotten
  <2>2. sessions' \in Seq(Session) /\ Ids' = Ids
    BY <2>1, Forgets DEF Ids
  <2>3. \A a \in Actors : task[a] \in Call' /\ [task[a] EXCEPT !.win = NoWindow] \in Call'
    BY <2>2, Calls
  <2>4. task' \in [Actors -> Call']
    BY <2>1, <2>2, <2>3
  <2>. QED
    BY <1>20, <2>1, <2>2, <2>4 DEF CloseWindows, sweepVars
<1>. QED
  BY <1>1, <1>2, <1>3, <1>4, <1>5, <1>6, <1>7, <1>8, <1>9, <1>10, <1>11, <1>12, <1>13, <1>14,
     <1>15, <1>16, <1>17, <1>18, <1>19, <1>20 DEF Next, WorkerStep, TuiStep, ClientStep

\* A call goes on and keeps what it knows of its window.
Moved(a, from, to) ==
  /\ a \in Actors /\ \A b \in Actors \ {a} : task'[b] = task[b]
  /\ task[a].pc = from /\ task'[a].pc = to
  /\ task'[a].name = task[a].name /\ task'[a].win = task[a].win /\ task'[a].ok = task[a].ok
RestKept == UNCHANGED <<row, proc, listed, doomed, misled>>

CallMoved(a) ==
  /\ RestKept /\ UNCHANGED sessions
  /\ a \in Actors /\ \A b \in Actors \ {a} : task'[b] = task[b]
  /\ task[a].pc \in {"window", "launch", "paste"}
  /\ \/ a \in Clients /\ task'[a] = Idle
     \/ /\ task'[a].session = task[a].session /\ task'[a].name = task[a].name
        /\ task'[a].pc \in {"launch", "paste"} \cup (IF a \in Procs THEN {"record"} ELSE {"close"})
Probed(c) ==
  /\ RestKept /\ UNCHANGED <<sessions, windows>>
  /\ c \in Actors /\ \A b \in Actors \ {c} : task'[b] = task[b]
  /\ task[c].pc = "probe"
  /\ \/ task'[c] = Idle
     \/ /\ task'[c].pc = "window" /\ task'[c].name \in Procs
        /\ task'[c].win = task[c].win /\ task'[c].session = task[c].session

\* A tmux call takes its caller one step on; a command may give up.
LEMMA CallMoves ==
  ASSUME CInv, NEW a \in Actors, NewWindow(a) \/ Launch(a) \/ Paste(a)
  PROVE  CallMoved(a)
<1>. task \in [Actors -> Call] /\ task[a] \in Call
  BY DEF CInv, Typed
<1>1. UNCHANGED <<row, sessions, proc, listed, doomed, misled>> /\ task[a].pc \in {"window", "launch", "paste"}
  BY DEF NewWindow, Launch, Paste, sweepVars
<1>2. ASSUME NEW pc, Goto(a, pc)
      PROVE  /\ \A b \in Actors \ {a} : task'[b] = task[b]
             /\ task'[a].session = task[a].session /\ task'[a].name = task[a].name /\ task'[a].pc = pc
  BY <1>2 DEF Goto
<1>3. ASSUME NEW pc, task' = [task EXCEPT ![a].pc = pc, ![a].ok = FALSE]
      PROVE  /\ \A b \in Actors \ {a} : task'[b] = task[b]
             /\ task'[a].session = task[a].session /\ task'[a].name = task[a].name /\ task'[a].pc = pc
  BY <1>3
<1>4. ASSUME NEW win, task' = [task EXCEPT ![a].pc = "launch", ![a].win = win]
      PROVE  /\ \A b \in Actors \ {a} : task'[b] = task[b]
             /\ task'[a].session = task[a].session /\ task'[a].name = task[a].name
             /\ task'[a].pc = "launch"
  BY <1>4
<1>5. ASSUME Finish(a) PROVE (\A b \in Actors \ {a} : task'[b] = task[b]) /\ task'[a] = Idle
  BY <1>5 DEF Finish
<1>6. ASSUME TmuxFails(a) PROVE CallMoved(a)
  BY <1>1, <1>3, <1>5, <1>6 DEF CallMoved, RestKept, TmuxFails, Actors
<1>7. CASE NewWindow(a)
  BY <1>1, <1>4, <1>6, <1>7 DEF CallMoved, RestKept, NewWindow
<1>8. CASE Launch(a)
  BY <1>1, <1>2, <1>6, <1>8 DEF CallMoved, RestKept, Launch
<1>9. CASE Paste(a)
  BY <1>1, <1>2, <1>3, <1>6, <1>9 DEF CallMoved, RestKept, Paste, Recorder
<1>. QED
  BY <1>7, <1>8, <1>9

LEMMA ProbeMoves ==
  ASSUME CInv, NEW c \in Clients, ProbeWindow(c)
  PROVE  Probed(c)
<1>. c \in Actors /\ task \in [Actors -> Call] /\ task[c] \in Call
  BY DEF CInv, Typed, Actors
<1> DEFINE name == sessions[task[c].session].name
<1>1. name \in Procs
  <2>1. task[c].session \in 1..Len(sessions)
    BY DEF ProbeWindow, CInv, TaskInv, ClientInv, Call, Ids
  <2>2. sessions[task[c].session] \in Session
    BY <2>1 DEF CInv, Typed
  <2>. QED
    BY <2>2 DEF Session
<1>2. CASE Finish(c)
  BY <1>2 DEF Probed, RestKept, Finish, ProbeWindow, sweepVars
<1>3. CASE task' = [task EXCEPT ![c].pc = "window", ![c].name = name]
  BY <1>1, <1>3 DEF Probed, RestKept, ProbeWindow, sweepVars
<1>. QED
  BY <1>2, <1>3 DEF ProbeWindow

LEMMA RetryCheckMoves ==
  ASSUME CInv, NEW c \in Clients, RetryCheck(c)
  PROVE  /\ RestKept /\ UNCHANGED <<sessions, windows>> /\ task'[c].session = task[c].session
         /\ \E pc \in {"retryClose", "retryWrite"} : Moved(c, "retryCheck", pc)
<1>. c \in Actors /\ task \in [Actors -> Call] /\ task[c] \in Call
  BY DEF CInv, Typed, Actors
<1>1. PICK pc \in {"retryClose", "retryWrite"} : task' = [task EXCEPT ![c].pc = pc]
  BY DEF RetryCheck, Goto
<1>2. task'[c].session = task[c].session /\ Moved(c, "retryCheck", pc)
  BY <1>1 DEF Moved, RetryCheck
<1>. QED
  BY <1>2 DEF RetryCheck, RestKept, sweepVars

\* A session is recorded and known to the actor that has done so.
LEMMA RecordMoves ==
  ASSUME CInv, NEW p \in Procs, RecordSession(p)
  PROVE  /\ RestKept /\ UNCHANGED windows /\ Moved(p, "record", "save")
         /\ task[p].name = p /\ SessionOpened(p, p) /\ task'[p].session = Len(sessions')
<1>. p \in Actors /\ task \in [Actors -> Call] /\ task[p] \in Call
  BY DEF CInv, Typed, Actors
<1>1. task[p].pc = "record" /\ task[p].name = p
  BY DEF RecordSession, CInv, TaskInv, WorkerInv
<1>2. task' = [task EXCEPT ![p].pc = "save", ![p].session = Len(sessions')]
  BY DEF RecordSession
<1>3. SessionOpened(p, p)
  BY Opens DEF RecordSession
<1>4. RestKept /\ UNCHANGED windows
  BY DEF RecordSession, RestKept, sweepVars
<1>. QED
  BY <1>1, <1>2, <1>3, <1>4 DEF Moved

LEMMA RespawnMoves ==
  ASSUME CInv, NEW c \in Clients, RespawnOpen(c)
  PROVE  /\ RestKept /\ UNCHANGED windows /\ Moved(c, "open", "write") /\ task[c].name \in Procs
         /\ SessionOpened(c, task[c].name) /\ task'[c].session = Len(sessions')
<1>. c \in Actors /\ task \in [Actors -> Call] /\ task[c] \in Call
  BY DEF CInv, Typed, Actors
<1>1. task[c].pc = "open" /\ task[c].name \in Procs
  BY DEF RespawnOpen, CInv, TaskInv, ClientInv
<1>2. task' = [task EXCEPT ![c].pc = "write", ![c].session = Len(sessions')]
  BY DEF RespawnOpen
<1>3. SessionOpened(c, task[c].name)
  BY <1>1, Opens DEF RespawnOpen
<1>4. RestKept /\ UNCHANGED windows
  BY DEF RespawnOpen, RestKept, sweepVars
<1>. QED
  BY <1>1, <1>2, <1>3, <1>4 DEF Moved

\* A session is closed; only the commands go on by it.
LEMMA SweepMoves ==
  ASSUME CInv, NEW p \in Procs, SweepClose(p)
  PROVE  SessionClosed(doomed[p], "Abandoned")
<1>1. doomed[p] \in Ids /\ CloseConflictSession(doomed[p], "Abandoned")
  BY DEF SweepClose, CInv, Typed
<1>. QED
  BY <1>1, Closes

LEMMA CloseMoves ==
  ASSUME CInv, NEW c \in Clients, RespawnClose(c) \/ RetryClose(c)
  PROVE  /\ RestKept /\ UNCHANGED windows /\ task'[c].session = task[c].session
         /\ \/ /\ Moved(c, "close", "open") /\ SessionClosed(task[c].session, "Abandoned")
            \/ /\ Moved(c, "retryClose", "retryWrite") /\ SessionClosed(task[c].session, "Resolved")
<1>. c \in Actors /\ task \in [Actors -> Call] /\ task[c] \in Call
  BY DEF CInv, Typed, Actors
<1>1. task[c].session \in Ids
  BY DEF CInv, TaskInv, ClientInv, Call, RespawnClose, RetryClose
<1>2. CASE RespawnClose(c)
  BY <1>1, <1>2, Closes DEF RespawnClose, Goto, Moved, RestKept, sweepVars
<1>3. CASE RetryClose(c)
  BY <1>1, <1>3, Closes DEF RetryClose, Goto, Moved, RestKept, sweepVars
<1>. QED
  BY <1>2, <1>3

\* Windows go and take what refers to them along.
WindowsGone(gone) ==
  /\ RestKept /\ sessions' \in Seq(Session) /\ Ids' = Ids
  /\ windows' = [i \in Windows |-> IF i \in gone THEN Closed ELSE windows[i]]
  /\ \A i \in Ids :
       /\ sessions'[i].name = sessions[i].name /\ sessions'[i].ok = sessions[i].ok
       /\ sessions'[i].outcome = sessions[i].outcome
       /\ sessions'[i].win = IF sessions[i].win \in gone THEN NoWindow ELSE sessions[i].win
  /\ \A a \in Actors :
       /\ task'[a].pc = task[a].pc /\ task'[a].name = task[a].name
       /\ task'[a].session = task[a].session /\ task'[a].ok = task[a].ok
       /\ task'[a].win = IF task[a].win \in gone THEN NoWindow ELSE task[a].win

LEMMA CloseWindowsMoves ==
  ASSUME CInv, CloseWindows
  PROVE  \E gone \in SUBSET Open : WindowsGone(gone)
<1>1. PICK gone \in SUBSET Open :
        /\ windows' = [i \in Windows |-> IF i \in gone THEN Closed ELSE windows[i]]
        /\ sessions' = Forgotten(sessions, gone)
        /\ task' = [a \in Actors |-> IF task[a].win \in gone THEN [task[a] EXCEPT !.win = NoWindow]
                                                           ELSE task[a]]
  BY DEF CloseWindows, Forgotten
<1>2. sessions \in Seq(Session) /\ \A a \in Actors : task[a] \in Call
  BY DEF CInv, Typed
<1>3. /\ sessions' \in Seq(Session) /\ Ids' = Ids
      /\ \A i \in Ids :
           /\ sessions'[i].name = sessions[i].name /\ sessions'[i].ok = sessions[i].ok
           /\ sessions'[i].outcome = sessions[i].outcome
           /\ sessions'[i].win = IF sessions[i].win \in gone THEN NoWindow ELSE sessions[i].win
  BY <1>1, <1>2, Forgets DEF Ids
<1>4. \A a \in Actors :
        /\ task'[a].pc = task[a].pc /\ task'[a].name = task[a].name
        /\ task'[a].session = task[a].session /\ task'[a].ok = task[a].ok
        /\ task'[a].win = IF task[a].win \in gone THEN NoWindow ELSE task[a].win
  BY <1>1, <1>2
<1>5. RestKept
  BY DEF CloseWindows, RestKept, sweepVars
<1>. QED
  BY <1>1, <1>3, <1>4, <1>5 DEF WindowsGone

LEMMA TaskKept ==
  ASSUME CInv, NEW a \in Actors, \A b \in Actors \ {a} : task'[b] = task[b], UNCHANGED proc,
         a \in Procs => WorkerInv(a)', a \in Clients => ClientInv(a)'
  PROVE  TaskInv'
<1>1. ASSUME NEW p \in Procs PROVE WorkerInv(p)'
  <2>1. CASE p # a
    BY <2>1 DEF CInv, TaskInv, WorkerInv, Actors
  <2>. QED
    BY <2>1
<1>2. ASSUME NEW c \in Clients PROVE ClientInv(c)'
  <2>1. CASE c # a
    BY <2>1 DEF CInv, TaskInv, ClientInv, Actors
  <2>. QED
    BY <2>1
<1>. QED
  BY <1>1, <1>2 DEF TaskInv

\* Workers and commands stay at what they are entitled to.
LEMMA TaskNext ==
  ASSUME CInv, Next, Typed'
  PROVE  TaskInv'
<1> USE DEF TaskInv
<1>. Typed /\ TaskInv /\ LifeInv /\ WindowInv /\ PendingInv /\ DoomedInv /\ ResolvedIsDone
  BY DEF CInv
<1>. Procs \cup Clients = Actors /\ Procs \cap Clients = {}
  BY ConflictAssumption DEF Actors
<1>. task \in [Actors -> Call] /\ task' \in [Actors -> Call'] /\ (\A a \in Actors : task[a] \in Call)
  BY DEF Typed
<1>1. ASSUME NEW a \in Actors, NewWindow(a) \/ Launch(a) \/ Paste(a) PROVE TaskInv'
  <2>1. CallMoved(a)
    BY <1>1, CallMoves
  <2>2. a \in Procs => WorkerInv(a)'
    BY <2>1 DEF CallMoved, RestKept, WorkerInv, WorkerPcs
  <2>3. a \in Clients => ClientInv(a)'
    BY <2>1 DEF CallMoved, ClientInv, ClientPcs, Idle
  <2>. QED
    BY <2>1, <2>2, <2>3, TaskKept DEF CallMoved, RestKept
<1>2. ASSUME NEW p \in Procs, Conflict(p) PROVE TaskInv'
  BY <1>2 DEF Conflict, sweepVars, WorkerInv, ClientInv, WorkerPcs
<1>3. ASSUME NEW p \in Procs, RecordSession(p) PROVE TaskInv'
  <2>1. RestKept /\ Moved(p, "record", "save")
    BY <1>3, RecordMoves
  <2>2. task'[p].session # NoSession
    <3>1. SessionOpened(p, p) /\ task'[p].session = Len(sessions')
      BY <1>3, RecordMoves
    <3>2. Len(sessions) \in Nat
      OBVIOUS
    <3>. QED
      BY <3>1, <3>2 DEF SessionOpened, NoSession
  <2>3. WorkerInv(p)'
    BY <2>1, <2>2 DEF Moved, RestKept, WorkerInv, WorkerPcs
  <2>. QED
    BY <2>1, <2>3, TaskKept DEF Moved, RestKept
<1>4. ASSUME NEW p \in Procs, HandoffSave(p) PROVE TaskInv'
  BY <1>4 DEF HandoffSave, Finish, sweepVars, Idle, WorkerInv, ClientInv, WorkerPcs
<1>5. ASSUME NEW p \in Procs, Start(p) PROVE TaskInv'
  BY <1>5 DEF Start, WorkerInv, ClientInv
<1>6. ASSUME NEW p \in Procs, ListOpenSessions(p) PROVE TaskInv'
  BY <1>6 DEF ListOpenSessions, WorkerInv, ClientInv
<1>7. ASSUME NEW p \in Procs, ProbeSession(p) PROVE TaskInv'
  BY <1>7 DEF ProbeSession, WorkerInv, ClientInv
<1>8. ASSUME NEW p \in Procs, SweepClose(p) PROVE TaskInv'
  BY <1>8 DEF SweepClose, WorkerInv, ClientInv
<1>9. ASSUME NEW p \in Procs, SpawnWorkers(p) PROVE TaskInv'
  BY <1>9 DEF SpawnWorkers, WorkerInv, ClientInv
<1>10. ASSUME NEW p \in Procs, ProcessDies(p) PROVE TaskInv'
  BY <1>10 DEF ProcessDies, Finish, Idle, WorkerInv, ClientInv, WorkerPcs
<1>11. ASSUME NEW c \in Clients, Resolve(c) PROVE TaskInv'
  BY <1>11 DEF Resolve, Reads, sweepVars, WorkerInv, ClientInv, ClientPcs, Typed
<1>12. ASSUME NEW c \in Clients, ProbeWindow(c) PROVE TaskInv'
  <2>1. Probed(c)
    BY <1>12, ProbeMoves
  <2>2. ClientInv(c)'
    BY <2>1 DEF Probed, ClientInv, ClientPcs, Idle
  <2>. QED
    BY <2>1, <2>2, TaskKept DEF Probed, RestKept
<1>13. ASSUME NEW c \in Clients, RespawnClose(c) PROVE TaskInv'
  <2>1. RestKept /\ Moved(c, "close", "open") /\ task'[c].session = task[c].session
    BY <1>13, CloseMoves DEF RespawnClose, Moved
  <2>2. ClientInv(c)'
    BY <2>1 DEF Moved, ClientInv, ClientPcs
  <2>. QED
    BY <2>1, <2>2, TaskKept DEF Moved, RestKept
<1>14. ASSUME NEW c \in Clients, RespawnOpen(c) PROVE TaskInv'
  <2>1. RestKept /\ Moved(c, "open", "write")
    BY <1>14, RespawnMoves
  <2>2. task'[c].session # NoSession
    <3>1. SessionOpened(c, task[c].name) /\ task'[c].session = Len(sessions')
      BY <1>14, RespawnMoves
    <3>2. Len(sessions) \in Nat
      OBVIOUS
    <3>. QED
      BY <3>1, <3>2 DEF SessionOpened, NoSession
  <2>3. ClientInv(c)'
    BY <2>1, <2>2 DEF Moved, ClientInv, ClientPcs
  <2>. QED
    BY <2>1, <2>3, TaskKept DEF Moved, RestKept
<1>15. ASSUME NEW c \in Clients, RespawnWrite(c) PROVE TaskInv'
  BY <1>15 DEF RespawnWrite, Finish, sweepVars, Idle, WorkerInv, ClientInv, ClientPcs
<1>16. ASSUME NEW c \in Clients, Retry(c) PROVE TaskInv'
  BY <1>16 DEF Retry, Reads, sweepVars, WorkerInv, ClientInv, ClientPcs, Typed
<1>17. ASSUME NEW c \in Clients, RetryCheck(c) PROVE TaskInv'
  <2>1. PICK pc \in {"retryClose", "retryWrite"} : Moved(c, "retryCheck", pc)
    BY <1>17, RetryCheckMoves
  <2>2. RestKept /\ task'[c].session = task[c].session
    BY <1>17, RetryCheckMoves
  <2>3. ClientInv(c)'
    BY <2>1, <2>2 DEF Moved, ClientInv, ClientPcs
  <2>. QED
    BY <2>1, <2>2, <2>3, TaskKept DEF Moved, RestKept
<1>18. ASSUME NEW c \in Clients, RetryClose(c) PROVE TaskInv'
  <2>1. RestKept /\ Moved(c, "retryClose", "retryWrite") /\ task'[c].session = task[c].session
    BY <1>18, CloseMoves DEF RetryClose, Moved
  <2>2. ClientInv(c)'
    BY <2>1 DEF Moved, ClientInv, ClientPcs
  <2>. QED
    BY <2>1, <2>2, TaskKept DEF Moved, RestKept
<1>19. ASSUME NEW c \in Clients, RetryWrite(c) PROVE TaskInv'
  BY <1>19 DEF RetryWrite, Finish, sweepVars, Idle, WorkerInv, ClientInv, ClientPcs
<1>20. CASE CloseWindows
  <2>1. PICK gone \in SUBSET Open : WindowsGone(gone)
    BY <1>20, CloseWindowsMoves
  <2>. QED
    BY <2>1 DEF WindowsGone, RestKept, WorkerInv, ClientInv
<1>. QED
  BY <1>1, <1>2, <1>3, <1>4, <1>5, <1>6, <1>7, <1>8, <1>9, <1>10, <1>11, <1>12, <1>13, <1>14,
     <1>15, <1>16, <1>17, <1>18, <1>19, <1>20 DEF Next, WorkerStep, TuiStep, ClientStep

\* The entry is in flight only under a worker or after its death.
LEMMA LifeNext ==
  ASSUME CInv, Next, Typed'
  PROVE  LifeInv'
<1> USE DEF LifeInv
<1>. Typed /\ TaskInv /\ LifeInv /\ WindowInv /\ PendingInv /\ DoomedInv /\ ResolvedIsDone
  BY DEF CInv
<1>. Procs \cup Clients = Actors /\ Procs \cap Clients = {}
  BY ConflictAssumption DEF Actors
<1>. task \in [Actors -> Call] /\ task' \in [Actors -> Call'] /\ (\A a \in Actors : task[a] \in Call)
  BY DEF Typed
<1>1. ASSUME NEW a \in Actors, NewWindow(a) \/ Launch(a) \/ Paste(a) PROVE LifeInv'
  <2>1. CallMoved(a)
    BY <1>1, CallMoves
  <2>. QED
    BY <2>1 DEF CallMoved, RestKept
<1>2. ASSUME NEW p \in Procs, Conflict(p) PROVE LifeInv'
  BY <1>2 DEF Conflict, sweepVars
<1>3. ASSUME NEW p \in Procs, RecordSession(p) PROVE LifeInv'
  <2>1. RestKept /\ Moved(p, "record", "save")
    BY <1>3, RecordMoves
  <2>. QED
    BY <2>1 DEF Moved, RestKept
<1>4. ASSUME NEW p \in Procs, HandoffSave(p) PROVE LifeInv'
  BY <1>4 DEF HandoffSave, sweepVars
<1>5. ASSUME NEW p \in Procs, Start(p) PROVE LifeInv'
  BY <1>5 DEF Start
<1>6. ASSUME NEW p \in Procs, ListOpenSessions(p) PROVE LifeInv'
  BY <1>6 DEF ListOpenSessions
<1>7. ASSUME NEW p \in Procs, ProbeSession(p) PROVE LifeInv'
  BY <1>7 DEF ProbeSession
<1>8. ASSUME NEW p \in Procs, SweepClose(p) PROVE LifeInv'
  BY <1>8 DEF SweepClose
<1>9. ASSUME NEW p \in Procs, SpawnWorkers(p) PROVE LifeInv'
  BY <1>9 DEF SpawnWorkers
<1>10. ASSUME NEW p \in Procs, ProcessDies(p) PROVE LifeInv'
  BY <1>10 DEF ProcessDies, Typed
<1>11. ASSUME NEW c \in Clients, Resolve(c) PROVE LifeInv'
  BY <1>11 DEF Resolve, Reads, sweepVars
<1>12. ASSUME NEW c \in Clients, ProbeWindow(c) PROVE LifeInv'
  <2>1. Probed(c)
    BY <1>12, ProbeMoves
  <2>. QED
    BY <2>1 DEF Probed, RestKept
<1>13. ASSUME NEW c \in Clients, RespawnClose(c) PROVE LifeInv'
  <2>1. RestKept /\ \E from, to \in ClientPcs : Moved(c, from, to)
    BY <1>13, CloseMoves DEF ClientPcs
  <2>. QED
    BY <2>1 DEF Moved, RestKept
<1>14. ASSUME NEW c \in Clients, RespawnOpen(c) PROVE LifeInv'
  <2>1. RestKept /\ Moved(c, "open", "write")
    BY <1>14, RespawnMoves
  <2>. QED
    BY <2>1 DEF Moved, RestKept
<1>15. ASSUME NEW c \in Clients, RespawnWrite(c) PROVE LifeInv'
  BY <1>15 DEF RespawnWrite, sweepVars
<1>16. ASSUME NEW c \in Clients, Retry(c) PROVE LifeInv'
  BY <1>16 DEF Retry, Reads, sweepVars
<1>17. ASSUME NEW c \in Clients, RetryCheck(c) PROVE LifeInv'
  <2>1. RestKept /\ \E pc \in {"retryClose", "retryWrite"} : Moved(c, "retryCheck", pc)
    BY <1>17, RetryCheckMoves
  <2>. QED
    BY <2>1 DEF Moved, RestKept
<1>18. ASSUME NEW c \in Clients, RetryClose(c) PROVE LifeInv'
  <2>1. RestKept /\ \E from, to \in ClientPcs : Moved(c, from, to)
    BY <1>18, CloseMoves DEF ClientPcs
  <2>. QED
    BY <2>1 DEF Moved, RestKept
<1>19. ASSUME NEW c \in Clients, RetryWrite(c) PROVE LifeInv'
  BY <1>19 DEF RetryWrite, sweepVars
<1>20. CASE CloseWindows
  <2>1. PICK gone \in SUBSET Open : WindowsGone(gone)
    BY <1>20, CloseWindowsMoves
  <2>. QED
    BY <2>1 DEF WindowsGone, RestKept
<1>. QED
  BY <1>1, <1>2, <1>3, <1>4, <1>5, <1>6, <1>7, <1>8, <1>9, <1>10, <1>11, <1>12, <1>13, <1>14,
     <1>15, <1>16, <1>17, <1>18, <1>19, <1>20 DEF Next, WorkerStep, TuiStep, ClientStep

\* A pending session has been recorded.
LEMMA PendingIds ==
  ASSUME CInv
  PROVE  \A a \in Actors : Pending(a) => task[a].session \in Ids
<1> SUFFICES ASSUME NEW a \in Actors, Pending(a) PROVE task[a].session \in Ids
  OBVIOUS
<1>1. task[a].session \in {NoSession} \cup Ids
  BY DEF CInv, Typed, Call
<1>2. CASE a \in Procs
  <2>1. WorkerInv(a)
    BY <1>2 DEF CInv, TaskInv
  <2>. QED
    BY <1>1, <2>1 DEF WorkerInv, Pending, WorkerPcs
<1>3. CASE a \in Clients
  <2>1. ClientInv(a)
    BY <1>3 DEF CInv, TaskInv
  <2>. QED
    BY <1>1, <2>1 DEF ClientInv, Pending
<1>. QED
  BY <1>2, <1>3 DEF Actors

\* Steps that leave the row alone and open no session keep the pending ones apart.
LEMMA PendingKept ==
  ASSUME CInv, UNCHANGED row,
         \A b \in Actors :
           /\ Pending(b)' => Pending(b)
           /\ task'[b].pc # "idle" => task[b].pc # "idle" /\ task'[b].session = task[b].session,
         \A b \in Actors : Pending(b) => sessions'[task[b].session].outcome # "Resolved"
  PROVE  PendingInv'
<1> SUFFICES ASSUME NEW a \in Actors, Pending(a)' PROVE PendingAlone(a)'
  BY DEF PendingInv, PendingAlone
<1>1. Pending(a) /\ PendingAlone(a) /\ task'[a].session = task[a].session
  BY DEF CInv, PendingInv, Pending
<1>. QED
  BY <1>1 DEF PendingAlone

\* A session that has just been opened is new to everyone else.
LEMMA PendingNew ==
  ASSUME CInv, NEW a \in Actors, UNCHANGED row, \A b \in Actors \ {a} : task'[b] = task[b],
         \A i \in Ids : sessions'[i] = sessions[i],
         task'[a].session = Len(sessions) + 1,
         sessions'[task'[a].session].outcome = "Open"
  PROVE  PendingInv'
<1> SUFFICES ASSUME NEW b \in Actors, Pending(b)' PROVE PendingAlone(b)'
  BY DEF PendingInv, PendingAlone
<1>1. /\ Len(sessions) \in Nat
      /\ row.session \in {NoSession} \cup Ids
      /\ \A d \in Actors : task[d].session \in {NoSession} \cup Ids
  BY DEF CInv, Typed, Call
<1>2. row.session # Len(sessions) + 1 /\ \A d \in Actors : task[d].session # Len(sessions) + 1
  BY <1>1 DEF NoSession, Ids
<1>3. CASE b = a
  BY <1>2, <1>3 DEF PendingAlone
<1>4. CASE b # a
  <2>1. Pending(b) /\ PendingAlone(b) /\ task'[b] = task[b]
    BY <1>4 DEF CInv, PendingInv, Pending
  <2>2. task[b].session \in Ids
    BY <2>1, PendingIds
  <2>3. \A d \in Actors \ {b} : task'[d].pc # "idle" => task'[d].session # task'[b].session
    BY <1>2, <2>1 DEF PendingAlone
  <2>. QED
    BY <2>1, <2>2, <2>3 DEF PendingAlone
<1>. QED
  BY <1>3, <1>4

\* Steps that leave the row alone and declare nothing resolved.
LEMMA ResolvedKept ==
  ASSUME CInv, UNCHANGED row,
         \A c \in Clients : task[c].pc = "retryWrite" =>
           task'[c].pc = "retryWrite" /\ task'[c].session = task[c].session,
         \A i \in Ids : sessions'[i].outcome = "Resolved" => sessions[i].outcome = "Resolved"
  PROVE  ResolvedIsDone'
<1> SUFFICES ASSUME row.status = "NeedsHelp", sessions'[row.session].outcome = "Resolved"
             PROVE  \E c \in Clients : task'[c].pc = "retryWrite" /\ task'[c].session = row.session
  BY DEF ResolvedIsDone
<1>1. row.session \in Ids
  BY DEF CInv, Typed
<1>2. PICK c \in Clients : task[c].pc = "retryWrite" /\ task[c].session = row.session
  BY <1>1 DEF CInv, ResolvedIsDone
<1>. QED
  BY <1>2

\* A window that is referred to is there.
LEMMA Present ==
  ASSUME CInv
  PROVE  /\ \A s \in Ids : /\ sessions[s] \in Session
                           /\ sessions[s].win # NoWindow => windows[sessions[s].win] # Closed
         /\ \A a \in Actors : /\ task[a] \in Call
                              /\ task[a].win # NoWindow => windows[task[a].win] # Closed
<1>1. \A n \in Procs : n # NoProc
  BY ConflictAssumption
<1>2. /\ \A s \in Ids : sessions[s] \in Session
      /\ \A a \in Actors : task[a] \in Call
  BY DEF CInv, Typed, Ids
<1>. QED
  BY <1>1, <1>2 DEF CInv, WindowInv, SessionSees, CallSees, Session, Closed

\* Windows that are open stay what they were, and nothing typed is taken back.
WindowsGrow ==
  \A i \in Windows : windows[i] # Closed =>
    /\ windows'[i].name = windows[i].name
    /\ windows[i].typed = "prompt" => windows'[i].typed = "prompt"
    /\ windows[i].typed = "command" => windows'[i].typed \in {"command", "prompt"}

LEMMA SeesKept ==
  ASSUME CInv, WindowsGrow
  PROVE  /\ \A s \in Ids :
              /\ sessions'[s].win = sessions[s].win /\ sessions'[s].name = sessions[s].name
              /\ sessions'[s].ok = sessions[s].ok
              => SessionSees(s)'
         /\ \A a \in Actors : task'[a] = task[a] => CallSees(a)'
<1>1. ASSUME NEW s \in Ids, sessions'[s].win = sessions[s].win,
             sessions'[s].name = sessions[s].name, sessions'[s].ok = sessions[s].ok
      PROVE  SessionSees(s)'
  <2>1. sessions[s].win # NoWindow => sessions[s].win \in Windows /\ windows[sessions[s].win] # Closed
    BY Present DEF Session
  <2>. QED
    BY <1>1, <2>1 DEF SessionSees, CInv, WindowInv, WindowsGrow
<1>2. ASSUME NEW a \in Actors, task'[a] = task[a] PROVE CallSees(a)'
  <2>1. task[a].win # NoWindow => task[a].win \in Windows /\ windows[task[a].win] # Closed
    BY Present DEF Call
  <2>2. CallSees(a)
    BY DEF CInv, WindowInv
  <2>. QED
    BY <1>2, <2>1, <2>2 DEF CallSees, WindowsGrow
<1>. QED
  BY <1>1, <1>2

\* A step that leaves all windows, calls and references to windows alone.
LEMMA AllSeen ==
  ASSUME CInv, UNCHANGED <<windows, task, sessions>>
  PROVE  WindowInv'
BY DEF CInv, WindowInv, SessionSees, CallSees, Ids

\* What is sent to a window reaches the one that history knows of.
LEMMA TmuxSees ==
  ASSUME CInv, NEW a \in Actors, NewWindow(a) \/ Launch(a) \/ Paste(a)
  PROVE  WindowsGrow /\ CallSees(a)'
<1>1. task[a] \in Call /\ task \in [Actors -> Call] /\ CallSees(a)
  BY DEF CInv, Typed, WindowInv
<1>2. windows \in [Windows -> {Closed} \cup [name : Procs, typed : {"nothing", "command", "prompt"}]]
  BY DEF CInv, Typed
<1>3. task[a].name \in Procs
  BY DEF CInv, TaskInv, WorkerInv, ClientInv, Actors, NewWindow, Launch, Paste
<1>4. CASE TmuxFails(a)
  <2>1. WindowsGrow
    BY <1>4 DEF TmuxFails, WindowsGrow
  <2>2. CASE Finish(a)
    <3>1. task'[a] = Idle
      BY <1>1, <2>2 DEF Finish
    <3>. QED
      BY <2>1, <3>1 DEF CallSees, Idle
  <2>3. CASE task' = [task EXCEPT ![a].pc = "record", ![a].ok = FALSE]
    <3>1. /\ task'[a].pc = "record" /\ task'[a].ok = FALSE
          /\ task'[a].name = task[a].name /\ task'[a].win = task[a].win
      BY <1>1, <2>3
    <3>2. UNCHANGED windows
      BY <1>4 DEF TmuxFails
    <3>. QED
      BY <1>1, <2>1, <3>1, <3>2 DEF CallSees
  <2>. QED
    BY <1>4, <2>1, <2>2, <2>3 DEF TmuxFails
<1>5. ASSUME NEW i \in Windows \ Open,
             windows' = [windows EXCEPT ![i] = [name |-> task[a].name, typed |-> "nothing"]],
             task' = [task EXCEPT ![a].pc = "launch", ![a].win = i]
      PROVE  WindowsGrow /\ CallSees(a)'
  <2>1. WindowsGrow
    BY <1>2, <1>5 DEF WindowsGrow, Open
  <2>2. task'[a].pc = "launch" /\ task'[a].win = i /\ task'[a].name = task[a].name
    BY <1>1, <1>5
  <2>3. windows'[i].name = task[a].name
    BY <1>2, <1>5
  <2>. QED
    BY <1>3, <2>1, <2>2, <2>3 DEF CallSees
<1>6. ASSUME NEW i \in Open, Target(task[a].name, i), task[a].win # NoWindow
      PROVE  task[a].win = i
  <2>1. task[a].win \in Windows /\ windows[task[a].win] # Closed
    BY <1>6, Present DEF Call
  <2>2. windows[task[a].win].name = task[a].name
    BY <1>1, <1>6 DEF CallSees
  <2>3. task[a].win \in Named(task[a].name)
    BY <2>1, <2>2 DEF Named, Open
  <2>. QED
    BY <1>6, <2>3 DEF Target
<1>7. ASSUME NEW i \in Open
      PROVE  i \in Windows /\ windows[i].typed \in {"nothing", "command", "prompt"}
  BY <1>2, <1>7 DEF Open
<1>8. ASSUME task[a].pc = "launch", NEW i \in Open, Target(task[a].name, i),
             IF windows[i].typed = "nothing" THEN Types(i, "command") ELSE UNCHANGED windows,
             Goto(a, "paste")
      PROVE  WindowsGrow /\ CallSees(a)'
  <2>1. /\ \A j \in Windows : windows'[j].name = windows[j].name
        /\ \A j \in Windows \ {i} : windows'[j] = windows[j]
        /\ windows'[i].typed = IF windows[i].typed = "nothing" THEN "command" ELSE windows[i].typed
    <3>1. CASE windows[i].typed = "nothing"
      <4>1. windows' = [windows EXCEPT ![i].typed = "command"]
        BY <1>8, <3>1 DEF Types
      <4>. QED
        BY <1>2, <1>7, <3>1, <4>1
    <3>2. CASE windows[i].typed # "nothing"
      BY <1>2, <1>7, <1>8, <3>2
    <3>. QED
      BY <3>1, <3>2
  <2>2. task'[a].pc = "paste" /\ task'[a].win = task[a].win /\ task'[a].name = task[a].name
    BY <1>1, <1>8 DEF Goto
  <2>3. task[a].win # NoWindow => task[a].win \in Windows /\ task[a].win = i
    BY <1>1, <1>6, <1>8 DEF Call
  <2>4. WindowsGrow
    BY <2>1 DEF WindowsGrow
  <2>. QED
    BY <1>1, <1>7, <2>1, <2>2, <2>3, <2>4 DEF CallSees
<1>9. ASSUME task[a].pc = "paste", NEW i \in Open, Target(task[a].name, i),
             Types(i, "prompt"),
             Goto(a, Recorder(a))
      PROVE  WindowsGrow /\ CallSees(a)'
  <2>1. /\ \A j \in Windows : windows'[j].name = windows[j].name
        /\ \A j \in Windows \ {i} : windows'[j] = windows[j]
        /\ windows'[i].typed = "prompt"
    BY <1>2, <1>7, <1>9 DEF Types
  <2>2. /\ task'[a].pc \in {"record", "close"} /\ task'[a].win = task[a].win
        /\ task'[a].name = task[a].name /\ task'[a].ok = task[a].ok
    BY <1>1, <1>9 DEF Goto, Recorder
  <2>3. task[a].win # NoWindow => task[a].win \in Windows /\ task[a].win = i
    BY <1>1, <1>6, <1>9 DEF Call
  <2>4. WindowsGrow
    BY <2>1 DEF WindowsGrow
  <2>. QED
    BY <1>1, <1>7, <1>9, <2>1, <2>2, <2>3, <2>4 DEF CallSees
<1>11. CASE NewWindow(a)
  BY <1>4, <1>5, <1>11 DEF NewWindow
<1>12. CASE Launch(a)
  BY <1>4, <1>8, <1>12 DEF Launch
<1>13. CASE Paste(a)
  BY <1>4, <1>9, <1>13 DEF Paste
<1>. QED
  BY <1>11, <1>12, <1>13

\* The windows seen after a step of one actor.
LEMMA WindowKept ==
  ASSUME CInv, WindowsGrow, NEW a \in Actors, CallSees(a)',
         \A b \in Actors \ {a} : task'[b] = task[b],
         \A s \in Ids' : SessionSees(s)' \/ (s \in Ids /\ sessions'[s].win = sessions[s].win
                           /\ sessions'[s].name = sessions[s].name /\ sessions'[s].ok = sessions[s].ok)
  PROVE  WindowInv'
<1>1. ASSUME NEW s \in Ids' PROVE SessionSees(s)'
  BY SeesKept
<1>2. ASSUME NEW b \in Actors PROVE CallSees(b)'
  BY SeesKept
<1>. QED
  BY <1>1, <1>2 DEF WindowInv

\* Nothing comes between a session and what was typed into its window.
LEMMA WindowNext ==
  ASSUME CInv, Next, Typed'
  PROVE  WindowInv'
<1> USE DEF WindowInv
<1>. Typed /\ TaskInv /\ LifeInv /\ WindowInv /\ PendingInv /\ DoomedInv /\ ResolvedIsDone
  BY DEF CInv
<1>. Procs \cup Clients = Actors /\ Procs \cap Clients = {}
  BY ConflictAssumption DEF Actors
<1>. task \in [Actors -> Call] /\ task' \in [Actors -> Call'] /\ (\A a \in Actors : task[a] \in Call)
  BY DEF Typed
<1>1. ASSUME NEW a \in Actors, NewWindow(a) \/ Launch(a) \/ Paste(a) PROVE WindowInv'
  <2>1. CallMoved(a)
    BY <1>1, CallMoves
  <2>. QED
    BY <1>1, <2>1, TmuxSees, WindowKept DEF CallMoved, Ids
<1>2. ASSUME NEW p \in Procs, Conflict(p) PROVE WindowInv'
  <2>1. /\ p \in Actors /\ UNCHANGED <<sessions, windows>>
        /\ \A b \in Actors \ {p} : task'[b] = task[b]
        /\ task'[p].win = NoWindow
    BY <1>2 DEF Conflict, Idle
  <2>2. WindowsGrow /\ CallSees(p)'
    BY <2>1 DEF WindowsGrow, CallSees
  <2>. QED
    BY <2>1, <2>2, WindowKept DEF Ids
<1>3. ASSUME NEW p \in Procs, RecordSession(p) PROVE WindowInv'
  <2>1. /\ Moved(p, "record", "save") /\ task[p].name = p /\ SessionOpened(p, p)
        /\ UNCHANGED windows /\ WindowsGrow
    BY <1>3, RecordMoves DEF WindowsGrow
  <2>2. CallSees(p) /\ CallSees(p)'
    BY <2>1 DEF Moved, CallSees
  <2>3. ASSUME NEW s, s = Len(sessions') PROVE SessionSees(s)'
    <3>1. /\ sessions'[s].win = task[p].win /\ sessions'[s].ok = task[p].ok
          /\ sessions'[s].name = task[p].name
      BY <2>1, <2>3 DEF SessionOpened
    <3>. QED
      BY <2>1, <2>2, <3>1 DEF Moved, CallSees, SessionSees
  <2>4. Ids' = Ids \cup {Len(sessions')}
    BY <2>1 DEF SessionOpened, Ids
  <2>5. ASSUME NEW s \in Ids'
        PROVE  \/ SessionSees(s)'
               \/ /\ s \in Ids /\ sessions'[s].win = sessions[s].win
                  /\ sessions'[s].name = sessions[s].name /\ sessions'[s].ok = sessions[s].ok
    BY <2>1, <2>3, <2>4 DEF SessionOpened
  <2>. QED
    BY <2>1, <2>2, <2>5, WindowKept DEF Moved
<1>4. ASSUME NEW p \in Procs, HandoffSave(p) PROVE WindowInv'
  <2>1. /\ p \in Actors /\ UNCHANGED <<sessions, windows>>
        /\ \A b \in Actors \ {p} : task'[b] = task[b]
        /\ task'[p].win = NoWindow
    BY <1>4 DEF HandoffSave, Finish, Idle
  <2>2. WindowsGrow /\ CallSees(p)'
    BY <2>1 DEF WindowsGrow, CallSees
  <2>. QED
    BY <2>1, <2>2, WindowKept DEF Ids
<1>5. ASSUME NEW p \in Procs, Start(p) PROVE WindowInv'
  BY <1>5, AllSeen DEF Start
<1>6. ASSUME NEW p \in Procs, ListOpenSessions(p) PROVE WindowInv'
  BY <1>6, AllSeen DEF ListOpenSessions
<1>7. ASSUME NEW p \in Procs, ProbeSession(p) PROVE WindowInv'
  BY <1>7, AllSeen DEF ProbeSession
<1>8. ASSUME NEW p \in Procs, SweepClose(p) PROVE WindowInv'
  <2>1. SessionClosed(doomed[p], "Abandoned")
    BY <1>8, SweepMoves
  <2>2. UNCHANGED <<windows, task>> /\ WindowsGrow
    BY <1>8 DEF SweepClose, WindowsGrow
  <2>. QED
    BY <2>1, <2>2, SeesKept DEF SessionClosed
<1>9. ASSUME NEW p \in Procs, SpawnWorkers(p) PROVE WindowInv'
  BY <1>9, AllSeen DEF SpawnWorkers
<1>10. ASSUME NEW p \in Procs, ProcessDies(p) PROVE WindowInv'
  <2>1. /\ p \in Actors /\ UNCHANGED <<sessions, windows>>
        /\ \A b \in Actors \ {p} : task'[b] = task[b]
        /\ task'[p].win = NoWindow
    BY <1>10 DEF ProcessDies, Finish, Idle
  <2>2. WindowsGrow /\ CallSees(p)'
    BY <2>1 DEF WindowsGrow, CallSees
  <2>. QED
    BY <2>1, <2>2, WindowKept DEF Ids
<1>11. ASSUME NEW c \in Clients, Resolve(c) PROVE WindowInv'
  <2>1. /\ c \in Actors /\ UNCHANGED <<sessions, windows>>
        /\ \A b \in Actors \ {c} : task'[b] = task[b]
        /\ task'[c].win = NoWindow
    BY <1>11 DEF Resolve, Reads, Idle
  <2>2. WindowsGrow /\ CallSees(c)'
    BY <2>1 DEF WindowsGrow, CallSees
  <2>. QED
    BY <2>1, <2>2, WindowKept DEF Ids
<1>12. ASSUME NEW c \in Clients, ProbeWindow(c) PROVE WindowInv'
  <2>1. Probed(c)
    BY <1>12, ProbeMoves
  <2>2. WindowsGrow /\ Ids' = Ids
    BY <2>1 DEF Probed, WindowsGrow, Ids
  <2>3. CallSees(c)'
    BY <2>1 DEF Probed, Idle, CallSees
  <2>. QED
    BY <2>1, <2>2, <2>3, WindowKept DEF Probed
<1>13. ASSUME NEW c \in Clients, RespawnClose(c) PROVE WindowInv'
  <2>1. /\ Moved(c, "close", "open") /\ SessionClosed(task[c].session, "Abandoned")
        /\ UNCHANGED windows /\ WindowsGrow
    BY <1>13, CloseMoves DEF RespawnClose, Moved, WindowsGrow
  <2>2. CallSees(c)'
    BY <2>1 DEF Moved, CallSees
  <2>. QED
    BY <2>1, <2>2, WindowKept DEF Moved, SessionClosed
<1>14. ASSUME NEW c \in Clients, RespawnOpen(c) PROVE WindowInv'
  <2>1. /\ Moved(c, "open", "write") /\ task[c].name = task[c].name /\ SessionOpened(c, task[c].name)
        /\ UNCHANGED windows /\ WindowsGrow
    BY <1>14, RespawnMoves DEF WindowsGrow
  <2>2. CallSees(c) /\ CallSees(c)'
    BY <2>1 DEF Moved, CallSees
  <2>3. ASSUME NEW s, s = Len(sessions') PROVE SessionSees(s)'
    <3>1. /\ sessions'[s].win = task[c].win /\ sessions'[s].ok = task[c].ok
          /\ sessions'[s].name = task[c].name
      BY <2>1, <2>3 DEF SessionOpened
    <3>. QED
      BY <2>1, <2>2, <3>1 DEF Moved, CallSees, SessionSees
  <2>4. Ids' = Ids \cup {Len(sessions')}
    BY <2>1 DEF SessionOpened, Ids
  <2>5. ASSUME NEW s \in Ids'
        PROVE  \/ SessionSees(s)'
               \/ /\ s \in Ids /\ sessions'[s].win = sessions[s].win
                  /\ sessions'[s].name = sessions[s].name /\ sessions'[s].ok = sessions[s].ok
    BY <2>1, <2>3, <2>4 DEF SessionOpened
  <2>. QED
    BY <2>1, <2>2, <2>5, WindowKept DEF Moved
<1>15. ASSUME NEW c \in Clients, RespawnWrite(c) PROVE WindowInv'
  <2>1. /\ c \in Actors /\ UNCHANGED <<sessions, windows>>
        /\ \A b \in Actors \ {c} : task'[b] = task[b]
        /\ task'[c].win = NoWindow
    BY <1>15 DEF RespawnWrite, Finish, Idle
  <2>2. WindowsGrow /\ CallSees(c)'
    BY <2>1 DEF WindowsGrow, CallSees
  <2>. QED
    BY <2>1, <2>2, WindowKept DEF Ids
<1>16. ASSUME NEW c \in Clients, Retry(c) PROVE WindowInv'
  <2>1. /\ c \in Actors /\ UNCHANGED <<sessions, windows>>
        /\ \A b \in Actors \ {c} : task'[b] = task[b]
        /\ task'[c].win = NoWindow
    BY <1>16 DEF Retry, Reads, Idle
  <2>2. WindowsGrow /\ CallSees(c)'
    BY <2>1 DEF WindowsGrow, CallSees
  <2>. QED
    BY <2>1, <2>2, WindowKept DEF Ids
<1>17. ASSUME NEW c \in Clients, RetryCheck(c) PROVE WindowInv'
  <2>1. PICK pc \in {"retryClose", "retryWrite"} : Moved(c, "retryCheck", pc)
    BY <1>17, RetryCheckMoves
  <2>2. UNCHANGED <<sessions, windows>> /\ WindowsGrow /\ Ids' = Ids
    BY <1>17, RetryCheckMoves DEF WindowsGrow, Ids
  <2>3. CallSees(c)'
    BY <2>1, <2>2 DEF Moved, CallSees
  <2>. QED
    BY <2>1, <2>2, <2>3, WindowKept DEF Moved
<1>18. ASSUME NEW c \in Clients, RetryClose(c) PROVE WindowInv'
  <2>1. /\ Moved(c, "retryClose", "retryWrite") /\ SessionClosed(task[c].session, "Resolved")
        /\ UNCHANGED windows /\ WindowsGrow
    BY <1>18, CloseMoves DEF RetryClose, Moved, WindowsGrow
  <2>2. CallSees(c)'
    BY <2>1 DEF Moved, CallSees
  <2>. QED
    BY <2>1, <2>2, WindowKept DEF Moved, SessionClosed
<1>19. ASSUME NEW c \in Clients, RetryWrite(c) PROVE WindowInv'
  <2>1. /\ c \in Actors /\ UNCHANGED <<sessions, windows>>
        /\ \A b \in Actors \ {c} : task'[b] = task[b]
        /\ task'[c].win = NoWindow
    BY <1>19 DEF RetryWrite, Finish, Idle
  <2>2. WindowsGrow /\ CallSees(c)'
    BY <2>1 DEF WindowsGrow, CallSees
  <2>. QED
    BY <2>1, <2>2, WindowKept DEF Ids
<1>20. CASE CloseWindows
  <2>1. PICK gone \in SUBSET Open : WindowsGone(gone)
    BY <1>20, CloseWindowsMoves
  <2>2. ASSUME NEW s \in Ids' PROVE SessionSees(s)'
    <3>1. s \in Ids /\ SessionSees(s) /\ (sessions[s].win # NoWindow => sessions[s].win \in Windows)
      BY <2>1, <2>2, Present DEF WindowsGone, Session
    <3>. QED
      BY <2>1, <3>1 DEF WindowsGone, SessionSees
  <2>3. ASSUME NEW a \in Actors PROVE CallSees(a)'
    <3>1. CallSees(a) /\ (task[a].win # NoWindow => task[a].win \in Windows)
      BY Present DEF Call
    <3>. QED
      BY <2>1, <3>1 DEF WindowsGone, CallSees
  <2>. QED
    BY <2>2, <2>3
<1>. QED
  BY <1>1, <1>2, <1>3, <1>4, <1>5, <1>6, <1>7, <1>8, <1>9, <1>10, <1>11, <1>12, <1>13, <1>14,
     <1>15, <1>16, <1>17, <1>18, <1>19, <1>20 DEF Next, WorkerStep, TuiStep, ClientStep

\* A condemned session stays without a window.
LEMMA DoomedNext ==
  ASSUME CInv, Next, Typed'
  PROVE  DoomedInv'
<1> USE DEF DoomedInv
<1>. Typed /\ TaskInv /\ LifeInv /\ WindowInv /\ PendingInv /\ DoomedInv /\ ResolvedIsDone
  BY DEF CInv
<1>. Procs \cup Clients = Actors /\ Procs \cap Clients = {}
  BY ConflictAssumption DEF Actors
<1>. task \in [Actors -> Call] /\ task' \in [Actors -> Call'] /\ (\A a \in Actors : task[a] \in Call)
  BY DEF Typed
<1>1. ASSUME NEW a \in Actors, NewWindow(a) \/ Launch(a) \/ Paste(a) PROVE DoomedInv'
  <2>1. CallMoved(a)
    BY <1>1, CallMoves
  <2>. QED
    BY <2>1 DEF CallMoved, RestKept
<1>2. ASSUME NEW p \in Procs, Conflict(p) PROVE DoomedInv'
  BY <1>2 DEF Conflict, sweepVars
<1>3. ASSUME NEW p \in Procs, RecordSession(p) PROVE DoomedInv'
  <2>1. RestKept /\ SessionOpened(p, p)
    BY <1>3, RecordMoves
  <2>. QED
    BY <2>1 DEF RestKept, SessionOpened, Typed
<1>4. ASSUME NEW p \in Procs, HandoffSave(p) PROVE DoomedInv'
  BY <1>4 DEF HandoffSave, sweepVars
<1>5. ASSUME NEW p \in Procs, Start(p) PROVE DoomedInv'
  BY <1>5 DEF Start
<1>6. ASSUME NEW p \in Procs, ListOpenSessions(p) PROVE DoomedInv'
  BY <1>6 DEF ListOpenSessions
<1>7. ASSUME NEW p \in Procs, ProbeSession(p) PROVE DoomedInv'
  <2>1. PICK s \in listed[p] :
          \/ UNCHANGED <<doomed, misled>>
          \/ /\ doomed' = [doomed EXCEPT ![p] = s]
             /\ misled' = IF WindowAlive(sessions[s].name) THEN misled \cup {p}
                                                          ELSE misled \ {p}
    BY <1>7 DEF ProbeSession
  <2>2. s \in Ids /\ sessions[s] \in Session
    BY Present DEF Typed
  <2>3. ASSUME ~WindowAlive(sessions[s].name) PROVE sessions[s].win = NoWindow
    <3> SUFFICES ASSUME sessions[s].win # NoWindow PROVE FALSE
      OBVIOUS
    <3>1. sessions[s].win \in Named(sessions[s].name)
      BY <2>2, Present DEF WindowInv, SessionSees, Named, Open, Session
    <3>. QED
      BY <2>3, <3>1 DEF WindowAlive
  <2>4. UNCHANGED sessions
    BY <1>7 DEF ProbeSession
  <2>5. CASE UNCHANGED <<doomed, misled>>
    BY <2>4, <2>5
  <2>6. CASE /\ doomed' = [doomed EXCEPT ![p] = s]
             /\ misled' = IF WindowAlive(sessions[s].name) THEN misled \cup {p} ELSE misled \ {p}
    <3> SUFFICES ASSUME NEW q \in Procs \ misled', doomed'[q] # NoSession
                 PROVE  sessions[doomed'[q]].win = NoWindow
      BY <2>4
    <3>1. CASE q # p
      <4>1. q \notin misled /\ doomed'[q] = doomed[q]
        BY <2>6, <3>1 DEF Typed
      <4>. QED
        BY <4>1
    <3>2. CASE q = p
      <4>1. doomed'[q] = s /\ ~WindowAlive(sessions[s].name)
        BY <2>6, <3>2 DEF Typed
      <4>. QED
        BY <2>3, <4>1
    <3>. QED
      BY <3>1, <3>2
  <2>. QED
    BY <2>1, <2>5, <2>6
<1>8. ASSUME NEW p \in Procs, SweepClose(p) PROVE DoomedInv'
  <2>1. SessionClosed(doomed[p], "Abandoned")
    BY <1>8, SweepMoves
  <2>. QED
    BY <1>8, <2>1 DEF SweepClose, SessionClosed, Typed
<1>9. ASSUME NEW p \in Procs, SpawnWorkers(p) PROVE DoomedInv'
  BY <1>9 DEF SpawnWorkers
<1>10. ASSUME NEW p \in Procs, ProcessDies(p) PROVE DoomedInv'
  BY <1>10 DEF ProcessDies, Typed
<1>11. ASSUME NEW c \in Clients, Resolve(c) PROVE DoomedInv'
  BY <1>11 DEF Resolve, Reads, sweepVars
<1>12. ASSUME NEW c \in Clients, ProbeWindow(c) PROVE DoomedInv'
  BY <1>12 DEF ProbeWindow, sweepVars
<1>13. ASSUME NEW c \in Clients, RespawnClose(c) PROVE DoomedInv'
  <2>1. RestKept /\ \E o \in {"Resolved", "Abandoned"} : SessionClosed(task[c].session, o)
    BY <1>13, CloseMoves
  <2>. QED
    BY <2>1 DEF RestKept, SessionClosed, Typed
<1>14. ASSUME NEW c \in Clients, RespawnOpen(c) PROVE DoomedInv'
  <2>1. RestKept /\ SessionOpened(c, task[c].name)
    BY <1>14, RespawnMoves
  <2>. QED
    BY <2>1 DEF RestKept, SessionOpened, Typed
<1>15. ASSUME NEW c \in Clients, RespawnWrite(c) PROVE DoomedInv'
  BY <1>15 DEF RespawnWrite, sweepVars
<1>16. ASSUME NEW c \in Clients, Retry(c) PROVE DoomedInv'
  BY <1>16 DEF Retry, Reads, sweepVars
<1>17. ASSUME NEW c \in Clients, RetryCheck(c) PROVE DoomedInv'
  BY <1>17 DEF RetryCheck, sweepVars
<1>18. ASSUME NEW c \in Clients, RetryClose(c) PROVE DoomedInv'
  <2>1. RestKept /\ \E o \in {"Resolved", "Abandoned"} : SessionClosed(task[c].session, o)
    BY <1>18, CloseMoves
  <2>. QED
    BY <2>1 DEF RestKept, SessionClosed, Typed
<1>19. ASSUME NEW c \in Clients, RetryWrite(c) PROVE DoomedInv'
  BY <1>19 DEF RetryWrite, sweepVars
<1>20. CASE CloseWindows
  <2>1. PICK gone \in SUBSET Open : WindowsGone(gone)
    BY <1>20, CloseWindowsMoves
  <2>. QED
    BY <2>1 DEF WindowsGone, RestKept, Typed
<1>. QED
  BY <1>1, <1>2, <1>3, <1>4, <1>5, <1>6, <1>7, <1>8, <1>9, <1>10, <1>11, <1>12, <1>13, <1>14,
     <1>15, <1>16, <1>17, <1>18, <1>19, <1>20 DEF Next, WorkerStep, TuiStep, ClientStep

\* A resolved session leaves the row with the command that resolved it.
LEMMA ResolvedNext ==
  ASSUME CInv, Next, Typed'
  PROVE  ResolvedIsDone'
<1> USE DEF ResolvedIsDone
<1>. Typed /\ TaskInv /\ LifeInv /\ WindowInv /\ PendingInv /\ DoomedInv /\ ResolvedIsDone
  BY DEF CInv
<1>. Procs \cup Clients = Actors /\ Procs \cap Clients = {}
  BY ConflictAssumption DEF Actors
<1>. task \in [Actors -> Call] /\ task' \in [Actors -> Call'] /\ (\A a \in Actors : task[a] \in Call)
  BY DEF Typed
<1>1. ASSUME NEW a \in Actors, NewWindow(a) \/ Launch(a) \/ Paste(a) PROVE ResolvedIsDone'
  <2>1. CallMoved(a)
    BY <1>1, CallMoves
  <2>. QED
    BY <2>1, ResolvedKept DEF CallMoved, RestKept
<1>2. ASSUME NEW p \in Procs, Conflict(p) PROVE ResolvedIsDone'
  BY <1>2 DEF Conflict
<1>3. ASSUME NEW p \in Procs, RecordSession(p) PROVE ResolvedIsDone'
  <2>1. RestKept /\ Moved(p, "record", "save") /\ SessionOpened(p, p)
    BY <1>3, RecordMoves
  <2>. QED
    BY <2>1, ResolvedKept DEF Moved, RestKept, SessionOpened
<1>4. ASSUME NEW p \in Procs, HandoffSave(p) PROVE ResolvedIsDone'
  BY <1>4 DEF HandoffSave, PendingInv, PendingAlone, Pending
<1>5. ASSUME NEW p \in Procs, Start(p) PROVE ResolvedIsDone'
  BY <1>5 DEF Start
<1>6. ASSUME NEW p \in Procs, ListOpenSessions(p) PROVE ResolvedIsDone'
  BY <1>6 DEF ListOpenSessions
<1>7. ASSUME NEW p \in Procs, ProbeSession(p) PROVE ResolvedIsDone'
  BY <1>7 DEF ProbeSession
<1>8. ASSUME NEW p \in Procs, SweepClose(p) PROVE ResolvedIsDone'
  <2>1. SessionClosed(doomed[p], "Abandoned")
    BY <1>8, SweepMoves
  <2>. QED
    BY <1>8, <2>1, ResolvedKept DEF SweepClose, SessionClosed
<1>9. ASSUME NEW p \in Procs, SpawnWorkers(p) PROVE ResolvedIsDone'
  BY <1>9 DEF SpawnWorkers
<1>10. ASSUME NEW p \in Procs, ProcessDies(p) PROVE ResolvedIsDone'
  BY <1>10 DEF ProcessDies, Finish
<1>11. ASSUME NEW c \in Clients, Resolve(c) PROVE ResolvedIsDone'
  BY <1>11 DEF Resolve, Reads
<1>12. ASSUME NEW c \in Clients, ProbeWindow(c) PROVE ResolvedIsDone'
  <2>1. Probed(c)
    BY <1>12, ProbeMoves
  <2>. QED
    BY <2>1, ResolvedKept DEF Probed, RestKept
<1>13. ASSUME NEW c \in Clients, RespawnClose(c) PROVE ResolvedIsDone'
  <2>1. RestKept /\ Moved(c, "close", "open") /\ SessionClosed(task[c].session, "Abandoned")
    BY <1>13, CloseMoves DEF RespawnClose, Moved
  <2>. QED
    BY <2>1, ResolvedKept DEF Moved, RestKept, SessionClosed
<1>14. ASSUME NEW c \in Clients, RespawnOpen(c) PROVE ResolvedIsDone'
  <2>1. RestKept /\ Moved(c, "open", "write") /\ SessionOpened(c, task[c].name)
    BY <1>14, RespawnMoves
  <2>. QED
    BY <2>1, ResolvedKept DEF Moved, RestKept, SessionOpened
<1>15. ASSUME NEW c \in Clients, RespawnWrite(c) PROVE ResolvedIsDone'
  BY <1>15 DEF RespawnWrite, PendingInv, PendingAlone, Pending
<1>16. ASSUME NEW c \in Clients, Retry(c) PROVE ResolvedIsDone'
  BY <1>16 DEF Retry, Reads
<1>17. ASSUME NEW c \in Clients, RetryCheck(c) PROVE ResolvedIsDone'
  <2>1. RestKept /\ UNCHANGED sessions /\ \E pc \in {"retryClose", "retryWrite"} : Moved(c, "retryCheck", pc)
    BY <1>17, RetryCheckMoves
  <2>. QED
    BY <2>1, ResolvedKept DEF Moved, RestKept
<1>18. ASSUME NEW c \in Clients, RetryClose(c) PROVE ResolvedIsDone'
  <2>1. RestKept /\ Moved(c, "retryClose", "retryWrite") /\ SessionClosed(task[c].session, "Resolved")
    BY <1>18, CloseMoves DEF RetryClose, Moved
  <2>2. task'[c].session = task[c].session
    BY <1>18, CloseMoves
  <2>. QED
    BY <2>1, <2>2 DEF Moved, RestKept, SessionClosed, Typed
<1>19. ASSUME NEW c \in Clients, RetryWrite(c) PROVE ResolvedIsDone'
  BY <1>19 DEF RetryWrite
<1>20. CASE CloseWindows
  <2>1. PICK gone \in SUBSET Open : WindowsGone(gone)
    BY <1>20, CloseWindowsMoves
  <2>. QED
    BY <2>1, ResolvedKept DEF WindowsGone, RestKept
<1>. QED
  BY <1>1, <1>2, <1>3, <1>4, <1>5, <1>6, <1>7, <1>8, <1>9, <1>10, <1>11, <1>12, <1>13, <1>14,
     <1>15, <1>16, <1>17, <1>18, <1>19, <1>20 DEF Next, WorkerStep, TuiStep, ClientStep

\* A pending session stays its actor's own.
LEMMA PendingNext ==
  ASSUME CInv, Next, Typed'
  PROVE  PendingInv'
<1> USE DEF PendingInv
<1>. Typed /\ TaskInv /\ LifeInv /\ WindowInv /\ PendingInv /\ DoomedInv /\ ResolvedIsDone
  BY DEF CInv
<1>. Procs \cup Clients = Actors /\ Procs \cap Clients = {}
  BY ConflictAssumption DEF Actors
<1>. task \in [Actors -> Call] /\ task' \in [Actors -> Call'] /\ (\A a \in Actors : task[a] \in Call)
  BY DEF Typed
<1>1. ASSUME NEW a \in Actors, NewWindow(a) \/ Launch(a) \/ Paste(a) PROVE PendingInv'
  <2>1. CallMoved(a)
    BY <1>1, CallMoves
  <2>2. \A b \in Actors :
          /\ Pending(b)' => Pending(b)
          /\ task'[b].pc # "idle" => task[b].pc # "idle" /\ task'[b].session = task[b].session
    BY <2>1 DEF CallMoved, Pending, Idle
  <2>. QED
    BY <2>1, <2>2, PendingKept DEF CallMoved, RestKept, PendingAlone
<1>2. ASSUME NEW p \in Procs, Conflict(p) PROVE PendingInv'
  BY <1>2 DEF Conflict, PendingAlone, Pending
<1>3. ASSUME NEW p \in Procs, RecordSession(p) PROVE PendingInv'
  <2>1. /\ RestKept /\ Moved(p, "record", "save") /\ SessionOpened(p, p)
        /\ task'[p].session = Len(sessions')
    BY <1>3, RecordMoves
  <2>. QED
    BY <2>1, PendingNew DEF Moved, RestKept, SessionOpened
<1>4. ASSUME NEW p \in Procs, HandoffSave(p) PROVE PendingInv'
  BY <1>4 DEF HandoffSave, Finish, Idle, PendingAlone, Pending
<1>5. ASSUME NEW p \in Procs, Start(p) PROVE PendingInv'
  BY <1>5 DEF Start, PendingAlone, Pending
<1>6. ASSUME NEW p \in Procs, ListOpenSessions(p) PROVE PendingInv'
  BY <1>6 DEF ListOpenSessions, PendingAlone, Pending
<1>7. ASSUME NEW p \in Procs, ProbeSession(p) PROVE PendingInv'
  BY <1>7 DEF ProbeSession, PendingAlone, Pending
<1>8. ASSUME NEW p \in Procs, SweepClose(p) PROVE PendingInv'
  <2>1. SessionClosed(doomed[p], "Abandoned")
    BY <1>8, SweepMoves
  <2>2. \A b \in Actors : Pending(b) => sessions'[task[b].session].outcome # "Resolved"
    BY <2>1, PendingIds DEF SessionClosed, PendingAlone
  <2>. QED
    BY <1>8, <2>2, PendingKept DEF SweepClose, Pending
<1>9. ASSUME NEW p \in Procs, SpawnWorkers(p) PROVE PendingInv'
  BY <1>9 DEF SpawnWorkers, PendingAlone, Pending
<1>10. ASSUME NEW p \in Procs, ProcessDies(p) PROVE PendingInv'
  BY <1>10 DEF ProcessDies, Finish, Idle, PendingAlone, Pending
<1>11. ASSUME NEW c \in Clients, Resolve(c) PROVE PendingInv'
  BY <1>11 DEF Resolve, Reads, PendingAlone, Pending
<1>12. ASSUME NEW c \in Clients, ProbeWindow(c) PROVE PendingInv'
  <2>1. Probed(c)
    BY <1>12, ProbeMoves
  <2>2. \A b \in Actors :
          /\ Pending(b)' => Pending(b)
          /\ task'[b].pc # "idle" => task[b].pc # "idle" /\ task'[b].session = task[b].session
    BY <2>1 DEF Probed, Pending, Idle
  <2>. QED
    BY <2>1, <2>2, PendingKept DEF Probed, RestKept, PendingAlone
<1>13. ASSUME NEW c \in Clients, RespawnClose(c) PROVE PendingInv'
  <2>1. /\ RestKept /\ Moved(c, "close", "open") /\ SessionClosed(task[c].session, "Abandoned")
        /\ task'[c].session = task[c].session
    BY <1>13, CloseMoves DEF RespawnClose, Moved
  <2>2. \A b \in Actors :
          /\ Pending(b)' => Pending(b)
          /\ task'[b].pc # "idle" => task[b].pc # "idle" /\ task'[b].session = task[b].session
    BY <2>1 DEF Moved, Pending
  <2>3. ASSUME NEW b \in Actors, Pending(b) PROVE sessions'[task[b].session].outcome # "Resolved"
    <3>1. b # c /\ task[b].session \in Ids /\ PendingAlone(b)
      BY <2>1, <2>3, PendingIds DEF Moved, Pending
    <3>. QED
      BY <2>1, <2>3, <3>1 DEF SessionClosed, PendingAlone
  <2>. QED
    BY <2>1, <2>2, <2>3, PendingKept DEF RestKept
<1>14. ASSUME NEW c \in Clients, RespawnOpen(c) PROVE PendingInv'
  <2>1. /\ RestKept /\ Moved(c, "open", "write") /\ SessionOpened(c, task[c].name)
        /\ task'[c].session = Len(sessions')
    BY <1>14, RespawnMoves
  <2>. QED
    BY <2>1, PendingNew DEF Moved, RestKept, SessionOpened
<1>15. ASSUME NEW c \in Clients, RespawnWrite(c) PROVE PendingInv'
  BY <1>15 DEF RespawnWrite, Finish, Idle, PendingAlone, Pending
<1>16. ASSUME NEW c \in Clients, Retry(c) PROVE PendingInv'
  BY <1>16 DEF Retry, Reads, PendingAlone, Pending
<1>17. ASSUME NEW c \in Clients, RetryCheck(c) PROVE PendingInv'
  <2>1. PICK pc \in {"retryClose", "retryWrite"} : Moved(c, "retryCheck", pc)
    BY <1>17, RetryCheckMoves
  <2>2. RestKept /\ UNCHANGED sessions /\ task'[c].session = task[c].session
    BY <1>17, RetryCheckMoves
  <2>3. \A b \in Actors :
          /\ Pending(b)' => Pending(b)
          /\ task'[b].pc # "idle" => task[b].pc # "idle" /\ task'[b].session = task[b].session
    BY <2>1, <2>2 DEF Moved, Pending
  <2>. QED
    BY <2>2, <2>3, PendingKept DEF RestKept, PendingAlone
<1>18. ASSUME NEW c \in Clients, RetryClose(c) PROVE PendingInv'
  <2>1. /\ RestKept /\ Moved(c, "retryClose", "retryWrite") /\ SessionClosed(task[c].session, "Resolved")
        /\ task'[c].session = task[c].session
    BY <1>18, CloseMoves DEF RetryClose, Moved
  <2>2. \A b \in Actors :
          /\ Pending(b)' => Pending(b)
          /\ task'[b].pc # "idle" => task[b].pc # "idle" /\ task'[b].session = task[b].session
    BY <2>1 DEF Moved, Pending
  <2>3. ASSUME NEW b \in Actors, Pending(b) PROVE sessions'[task[b].session].outcome # "Resolved"
    <3>1. b # c /\ task[b].session \in Ids /\ PendingAlone(b)
      BY <2>1, <2>3, PendingIds DEF Moved, Pending
    <3>. QED
      BY <2>1, <2>3, <3>1 DEF Moved, SessionClosed, PendingAlone
  <2>. QED
    BY <2>1, <2>2, <2>3, PendingKept DEF RestKept
<1>19. ASSUME NEW c \in Clients, RetryWrite(c) PROVE PendingInv'
  BY <1>19 DEF RetryWrite, Finish, Idle, PendingAlone, Pending
<1>20. CASE CloseWindows
  <2>1. PICK gone \in SUBSET Open : WindowsGone(gone)
    BY <1>20, CloseWindowsMoves
  <2>2. \A b \in Actors :
          /\ Pending(b)' => Pending(b)
          /\ task'[b].pc # "idle" => task[b].pc # "idle" /\ task'[b].session = task[b].session
    BY <2>1 DEF WindowsGone, Pending
  <2>3. \A b \in Actors : Pending(b) => sessions'[task[b].session].outcome # "Resolved"
    BY <2>1, PendingIds DEF WindowsGone, PendingAlone
  <2>. QED
    BY <2>1, <2>2, <2>3, PendingKept DEF WindowsGone, RestKept
<1>. QED
  BY <1>1, <1>2, <1>3, <1>4, <1>5, <1>6, <1>7, <1>8, <1>9, <1>10, <1>11, <1>12, <1>13, <1>14,
     <1>15, <1>16, <1>17, <1>18, <1>19, <1>20 DEF Next, WorkerStep, TuiStep, ClientStep

-----------------------------------------------------------------------------
(* The invariant and the theorems.                                         *)

\* Sweeps are misled.
LEMMA HistoryNext ==
  ASSUME CInv, Next
  PROVE  HistoryInv'
<1> USE DEF CInv, HistoryInv
<1>1. ASSUME NEW a \in Actors, NewWindow(a) \/ Launch(a) \/ Paste(a) PROVE HistoryInv'
  BY <1>1 DEF NewWindow, Launch, Paste, TmuxFails, Open
<1>2. ASSUME NEW p \in Procs,
             \/ Conflict(p) \/ RecordSession(p) \/ HandoffSave(p) \/ TuiStep(p)
             \/ ProcessDies(p)
      PROVE HistoryInv'
  BY <1>2 DEF Conflict, RecordSession, HandoffSave, TuiStep, Start, ListOpenSessions, ProbeSession,
              SweepClose, SpawnWorkers, ProcessDies
<1>3. ASSUME NEW c \in Clients, UNCHANGED misled PROVE HistoryInv'
  BY <1>3
<1>4. CASE CloseWindows
  BY <1>4 DEF CloseWindows
<1>. QED
  BY <1>1, <1>2, <1>3, <1>4
     DEF Next, WorkerStep, ClientStep, Actors, Resolve, Reads, ProbeWindow, RespawnClose,
         RespawnOpen, RespawnWrite, Retry, RetryCheck, RetryClose, RetryWrite

LEMMA InitCInv ==
  ASSUME Init
  PROVE  CInv
<1> USE ConflictAssumption DEF Init, Idle, Actors, NoSession, NoWindow
<1>1. Ids = {}
  BY DEF Ids
<1>2. Typed
  BY DEF Typed, Call, WorkerPcs
<1>3. TaskInv /\ LifeInv
  BY DEF TaskInv, WorkerInv, ClientInv, WorkerPcs, ClientPcs, LifeInv
<1>4. WindowInv
  BY <1>1 DEF WindowInv, CallSees
<1>5. PendingInv /\ DoomedInv /\ ResolvedIsDone
  BY DEF PendingInv, PendingAlone, Pending, DoomedInv, ResolvedIsDone
<1>. QED
  BY <1>2, <1>3, <1>4, <1>5 DEF CInv, HistoryInv

\* The invariant holds of every execution, for any number of TUI runs, commands,
\* windows and sessions.
THEOREM ConflictInvariant == Spec => []CInv
<1>1. CInv /\ Next => CInv'
  BY TypedNext, TaskNext, LifeNext, WindowNext, PendingNext, DoomedNext, ResolvedNext, HistoryNext
     DEF CInv
<1>2. CInv /\ UNCHANGED vars => CInv'
  BY SameCInv DEF CInv, HistoryInv, vars
<1>. QED
  BY InitCInv, <1>1, <1>2, PTL DEF Spec

\* A worker that is done with the entry never leaves it in flight, whatever tmux
\* answers and whatever commands write meanwhile (engine/handoff.rs).
THEOREM WorkersEndHandoffs == Spec => []HandoffEnds
<1>1. CInv => HandoffEnds
  BY DEF CInv, LifeInv, HandoffEnds
<1>. QED
  BY <1>1, ConflictInvariant, PTL

\* If every tmux call for the session of a NeedsHelp row worked and its window is
\* there and alone under its name, the prompt was typed into that window.
THEOREM PromptsDelivered == Spec => []PromptDelivered
<1>1. ASSUME CInv PROVE PromptDelivered
  <2>1. row.status = "NeedsHelp" => row.session \in Ids /\ SessionSees(row.session)
    BY <1>1 DEF CInv, Typed, WindowInv
  <2>2. \A i \in Windows : i # NoWindow
    BY DEF Windows, NoWindow
  <2>. QED
    BY <2>1, <2>2 DEF PromptDelivered, LeadsTo, SessionSees
<1>. QED
  BY <1>1, ConflictInvariant, PTL

\* A NeedsHelp row never names a resolved session but under the `retry` that is
\* about to re-queue it.
THEOREM ResolvedStaysDone == Spec => []ResolvedIsDone
<1>1. CInv => ResolvedIsDone
  BY DEF CInv
<1>. QED
  BY <1>1, ConflictInvariant, PTL

\* The startup sweep closes no session whose window is there, if tmux answered.
THEOREM SweepsSpare == Spec => SweepSpares
<1>1. CInv => \A p \in Procs \ misled : doomed[p] # NoSession /\ sessions' # sessions /\ doomed'[p] = NoSession
                => sessions[doomed[p]].win = NoWindow
  BY DEF CInv, DoomedInv
<1>. QED
  BY <1>1, ConflictInvariant, PTL DEF SweepSpares

-----------------------------------------------------------------------------
(* The supply of sessions.                                                 *)

\* Whoever may still record a session has one left: RoomForOne counts those under
\* way, and a call that records one stops counting.
SessionPcs == {"probe", "window", "launch", "paste", "record", "close", "open"}
Callers == {a \in Actors : task[a].pc \in SessionPcs}
RoomInv == IsFiniteSet(Callers) /\ Len(sessions) + Cardinality(Callers) <= MaxSessions

LEMMA RoomNumbers ==
  ASSUME CInv, RoomInv
  PROVE  /\ Len(sessions) \in Nat /\ Cardinality(Callers) \in Nat /\ MaxSessions \in Nat
         /\ Len(sessions) <= MaxSessions
<1>1. sessions \in Seq(Session)
  BY DEF CInv, Typed
<1>2. Len(sessions) \in Nat
  BY <1>1
<1>3. Cardinality(Callers) \in Nat
  BY FS_CardinalityType DEF RoomInv
<1>. QED
  BY <1>2, <1>3, ConflictAssumption DEF RoomInv

\* A step that records nothing and after which nobody else may.
LEMMA NoMore ==
  ASSUME CInv, RoomInv, Len(sessions') = Len(sessions),
         \A a \in Actors : task'[a].pc \in SessionPcs => task[a].pc \in SessionPcs
  PROVE  RoomInv'
<1>1. Callers' \in SUBSET Callers
  BY DEF Callers
<1>2. IsFiniteSet(Callers') /\ Cardinality(Callers') <= Cardinality(Callers)
  BY <1>1, FS_Subset DEF RoomInv
<1>3. Cardinality(Callers') \in Nat
  BY <1>2, FS_CardinalityType
<1>. QED
  BY <1>2, <1>3, RoomNumbers DEF RoomInv

\* A session is recorded, and its recorder is through with it.
LEMMA OneRecorded ==
  ASSUME CInv, RoomInv, NEW a \in Actors, \A b \in Actors \ {a} : task'[b] = task[b],
         task[a].pc \in SessionPcs, task'[a].pc \notin SessionPcs,
         Len(sessions') = Len(sessions) + 1
  PROVE  RoomInv'
<1>1. Callers' = Callers \ {a} /\ a \in Callers
  BY DEF Callers
<1>2. IsFiniteSet(Callers') /\ Cardinality(Callers') = Cardinality(Callers) - 1
  BY <1>1, FS_RemoveElement DEF RoomInv
<1>. QED
  BY <1>2, RoomNumbers DEF RoomInv

\* A call starts while a session is left for it.
LEMMA OneStarts ==
  ASSUME CInv, RoomInv, RoomForOne, NEW a \in Actors, \A b \in Actors \ {a} : task'[b] = task[b],
         task[a].pc = "idle", UNCHANGED sessions
  PROVE  RoomInv'
<1>1. Callers' \subseteq Callers \cup {a} /\ a \notin Callers
  BY DEF Callers, SessionPcs
<1>2. /\ IsFiniteSet(Callers \cup {a})
      /\ Cardinality(Callers \cup {a}) = Cardinality(Callers) + 1
  BY <1>1, FS_AddElement DEF RoomInv
<1>3. IsFiniteSet(Callers') /\ Cardinality(Callers') <= Cardinality(Callers \cup {a})
  BY <1>1, <1>2, FS_Subset
<1>4. Len(sessions) + Cardinality(Callers) < MaxSessions
  BY DEF RoomForOne, Callers, SessionPcs
<1>5. Cardinality(Callers') \in Nat
  BY <1>3, FS_CardinalityType
<1>. QED
  BY <1>2, <1>3, <1>4, <1>5, RoomNumbers DEF RoomInv

LEMMA RoomNext ==
  ASSUME CInv, RoomInv, Next
  PROVE  RoomInv'
<1>. Procs \cup Clients = Actors
  BY DEF Actors
<1>. task \in [Actors -> Call]
  BY DEF CInv, Typed
<1>1. ASSUME NEW a \in Actors, NewWindow(a) \/ Launch(a) \/ Paste(a) PROVE RoomInv'
  <2>1. CallMoved(a)
    BY <1>1, CallMoves
  <2>. QED
    BY <2>1, NoMore DEF CallMoved, SessionPcs
<1>2. ASSUME NEW p \in Procs, Conflict(p) PROVE RoomInv'
  BY <1>2, OneStarts DEF Conflict
<1>3. ASSUME NEW p \in Procs, RecordSession(p) PROVE RoomInv'
  <2>1. Moved(p, "record", "save") /\ SessionOpened(p, p)
    BY <1>3, RecordMoves
  <2>. QED
    BY <2>1, OneRecorded DEF Moved, SessionOpened, SessionPcs
<1>4. ASSUME NEW a \in Actors, Finish(a), UNCHANGED sessions PROVE RoomInv'
  BY <1>4, NoMore DEF Finish, Idle, SessionPcs
<1>5. ASSUME UNCHANGED <<sessions, task>> PROVE RoomInv'
  BY <1>5, NoMore
<1>8. ASSUME NEW p \in Procs, SweepClose(p) PROVE RoomInv'
  BY <1>8, SweepMoves, NoMore DEF SweepClose, SessionClosed
<1>11. ASSUME NEW c \in Clients, Resolve(c) PROVE RoomInv'
  BY <1>11, OneStarts DEF Resolve, Reads
<1>12. ASSUME NEW c \in Clients, ProbeWindow(c) PROVE RoomInv'
  <2>1. Probed(c)
    BY <1>12, ProbeMoves
  <2>. QED
    BY <2>1, NoMore DEF Probed, SessionPcs
<1>13. ASSUME NEW c \in Clients, RespawnClose(c) \/ RetryClose(c) PROVE RoomInv'
  <2>1. /\ Moved(c, "close", "open") \/ Moved(c, "retryClose", "retryWrite")
        /\ Len(sessions') = Len(sessions)
    BY <1>13, CloseMoves DEF SessionClosed
  <2>. QED
    BY <2>1, NoMore DEF Moved, SessionPcs
<1>14. ASSUME NEW c \in Clients, RespawnOpen(c) PROVE RoomInv'
  <2>1. Moved(c, "open", "write") /\ SessionOpened(c, task[c].name)
    BY <1>14, RespawnMoves
  <2>. QED
    BY <2>1, OneRecorded DEF Moved, SessionOpened, SessionPcs
<1>16. ASSUME NEW c \in Clients, Retry(c) PROVE RoomInv'
  BY <1>16, NoMore DEF Retry, Reads, Idle, SessionPcs
<1>17. ASSUME NEW c \in Clients, RetryCheck(c) PROVE RoomInv'
  <2>1. UNCHANGED sessions /\ \E pc \in {"retryClose", "retryWrite"} : Moved(c, "retryCheck", pc)
    BY <1>17, RetryCheckMoves
  <2>. QED
    BY <2>1, NoMore DEF Moved, SessionPcs
<1>20. CASE CloseWindows
  <2>1. PICK gone \in SUBSET Open : WindowsGone(gone)
    BY <1>20, CloseWindowsMoves
  <2>2. sessions \in Seq(Session) /\ sessions' \in Seq(Session) /\ Ids' = Ids
    BY <2>1 DEF CInv, Typed, WindowsGone
  <2>3. Len(sessions') = Len(sessions)
    BY <2>2 DEF Ids
  <2>. QED
    BY <2>1, <2>3, NoMore DEF WindowsGone
<1>21. ASSUME NEW p \in Procs, HandoffSave(p) \/ ProcessDies(p) PROVE RoomInv'
  BY <1>4, <1>21 DEF HandoffSave, ProcessDies
<1>22. ASSUME NEW p \in Procs,
              Start(p) \/ ListOpenSessions(p) \/ ProbeSession(p) \/ SpawnWorkers(p)
       PROVE RoomInv'
  BY <1>5, <1>22 DEF Start, ListOpenSessions, ProbeSession, SpawnWorkers
<1>23. ASSUME NEW c \in Clients, RespawnWrite(c) \/ RetryWrite(c) PROVE RoomInv'
  BY <1>4, <1>23 DEF RespawnWrite, RetryWrite
<1>. QED
  BY <1>1, <1>2, <1>3, <1>8, <1>11, <1>12, <1>13, <1>14, <1>16, <1>17, <1>20, <1>21,
     <1>22, <1>23
     DEF Next, WorkerStep, TuiStep, ClientStep

\* The state keeps its types, and every handoff and respawn that has been started
\* finds a session left to record, however they overlap.
THEOREM SessionsAreBounded == Spec => []TypeOK
<1>1. ASSUME Init PROVE RoomInv
  <2>1. Callers = {} /\ sessions = <<>>
    BY <1>1 DEF Init, Callers, Idle, SessionPcs
  <2>2. IsFiniteSet(Callers) /\ Cardinality(Callers) = 0 /\ Len(sessions) = 0
    BY <2>1, FS_EmptySet
  <2>. QED
    BY <2>2, ConflictAssumption DEF RoomInv
<1>2. ASSUME CInv, RoomInv, UNCHANGED vars PROVE RoomInv'
  BY <1>2, NoMore DEF vars
<1>3. ASSUME CInv, RoomInv PROVE TypeOK
  <2>1. Len(sessions) \in Nat /\ MaxSessions \in Nat /\ Len(sessions) <= MaxSessions
    BY <1>3, RoomNumbers
  <2>2. Ids \subseteq 1..MaxSessions /\ {NoSession} \cup Ids \subseteq 0..MaxSessions
    BY <2>1 DEF Ids, NoSession
  <2>3. {NoWindow} \cup Windows = 0..MaxWindows
    BY ConflictAssumption DEF NoWindow, Windows
  <2>4. row \in [status : {"Queued", "InFlight", "NeedsHelp"}, session : 0..MaxSessions]
    BY <1>3, <2>2 DEF CInv, Typed
  <2>5. sessions \in Seq([name : Procs, win : 0..MaxWindows, ok : BOOLEAN,
                          outcome : {"Open", "Resolved", "Abandoned"}])
    BY <1>3, <2>3 DEF CInv, Typed, Session
  <2>6. /\ windows \in [Windows -> {Closed} \cup [name : Procs, typed : {"nothing", "command", "prompt"}]]
        /\ proc \in [Procs -> {"new", "swept", "probing", "running", "dead"}]
    BY <1>3 DEF CInv, Typed
  <2>7. listed \in [Procs -> SUBSET (1..MaxSessions)] /\ doomed \in [Procs -> 0..MaxSessions]
    BY <1>3, <2>2 DEF CInv, Typed
  <2>8. task \in [Actors -> [pc : {"idle", "probe", "window", "launch", "paste", "record",
                                   "save", "close", "open", "write",
                                   "retryCheck", "retryClose", "retryWrite"},
                             name : Procs \cup {NoProc}, win : 0..MaxWindows, ok : BOOLEAN,
                             session : 0..MaxSessions]]
    BY <1>3, <2>2, <2>3 DEF CInv, Typed, Call, WorkerPcs, ClientPcs
  <2>. QED
    BY <1>3, <2>1, <2>4, <2>5, <2>6, <2>7, <2>8 DEF TypeOK, CInv, HistoryInv
<1>4. ASSUME CInv, RoomInv, [Next]_vars PROVE RoomInv'
  BY <1>2, <1>4, RoomNext
<1>. QED
  BY <1>1, <1>3, <1>4, ConflictInvariant, PTL DEF Spec
=============================================================================
