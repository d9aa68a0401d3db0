-------------------------- MODULE EnginePoolProofs --------------------------
(* The safety theorems about EnginePool, for every set of repositories. *)
EXTENDS EnginePool, TLAPS

USE DEF tableVars, mainVars, vars, Becomes

\* What TypeOK says, preserved by every step.
LEMMA TypeNext ==
  ASSUME PoolInv, [Next]_vars
  PROVE  TypeOK'
<1>0. TypeOK
  BY DEF PoolInv
<1> USE <1>0, PoolAssumption DEF Threads
<1>1. ASSUME NEW c \in Clients, NEW r \in Repos, InitChecks(c, r) \/ EnqueueReads(c, r)
      PROVE TypeOK'
  BY <1>1 DEF InitChecks, EnqueueReads, TypeOK
<1>2. ASSUME NEW c \in Clients, InitInserts(c)
      PROVE TypeOK'
  BY <1>2 DEF InitInserts, PoolInv, TypeOK, NoCommand
<1>3. ASSUME NEW c \in Clients, EnqueueInserts(c)
      PROVE TypeOK'
  BY <1>3 DEF EnqueueInserts, TypeOK, NoCommand
<1>4. ASSUME NEW r \in Repos, Remove(r)
      PROVE TypeOK'
  BY <1>4 DEF Remove, TypeOK
<1>5. ASSUME NEW r \in Repos, WorkerStep(r) \/ IoError(r)
      PROVE TypeOK'
  BY <1>5 DEF WorkerStep, Poll, Saves, Releases, IoError, TypeOK
<1>17. ASSUME NEW r \in Repos, LeftStep(r)
       PROVE TypeOK'
  BY <1>17 DEF LeftStep, TypeOK
<1>18. CASE LeftEnds
  BY <1>18 DEF LeftEnds, NoThreads, TypeOK
<1>6. CASE Start
  BY <1>6 DEF Start, TypeOK
<1>7. CASE List \/ EndStop \/ EndSpawn
  BY <1>7 DEF List, Listed, EndStop, EndSpawn, TypeOK
<1>16. CASE Quit
  BY <1>16 DEF Quit, TypeOK
<1>8. ASSUME NEW r \in Repos, Joins(r)
      PROVE TypeOK'
  BY <1>8 DEF Joins, Signalled, SetSoft, TypeOK
<1>9. CASE Joined
  BY <1>9 DEF Joined, TypeOK
<1>10. ASSUME NEW r \in Repos, Spawn(r)
       PROVE TypeOK'
  BY <1>10 DEF Spawn, TypeOK
<1>11. CASE ShutDown
  BY <1>11 DEF ShutDown, SetSoft, TypeOK
<1>12. ASSUME NoPool, left' \in [Repos -> {"none", "poll", "busy"}]
       PROVE TypeOK'
  <2>1. thread' \in Threads
    BY <1>12 DEF NoPool, NoThreads
  <2>2. token' \in [Repos -> 0..2]
    BY <1>12 DEF NoPool
  <2> QED
    BY <1>12, <2>1, <2>2 DEF NoPool, TypeOK
<1>15. CASE ReconcileFails
  <2>1. CASE first
    <3>1. left' \in [Repos -> {"none", "poll", "busy"}]
      BY <1>15, <2>1 DEF ReconcileFails, Live, LiveIn
    <3> QED
      BY <1>12, <1>15, <2>1, <3>1 DEF ReconcileFails
  <2>2. CASE ~first
    BY <1>15, <2>2 DEF ReconcileFails, TypeOK
  <2> QED
    BY <2>1, <2>2
<1>19. CASE Exit \/ Crash
  BY <1>12, <1>19 DEF Exit, Crash, TypeOK
<1>13. CASE UNCHANGED vars
  BY <1>13 DEF TypeOK
<1>14. ASSUME NEW r \in Repos, Stop(r) \/ Drain(r)
       PROVE TypeOK'
  BY <1>8, <1>14 DEF Stop, Drain
<1> QED
  BY <1>1, <1>2, <1>3, <1>4, <1>5, <1>6, <1>7, <1>9, <1>10, <1>11, <1>13, <1>14, <1>15,
     <1>16, <1>17, <1>18, <1>19
     DEF Next, Commands, MainStep

\* What the tables hold: a root path once, and rows of registered repositories only.
LEMMA TableNext ==
  ASSUME PoolInv, [Next]_vars
  PROVE  /\ Distinct(registered')
         /\ \A c \in Clients : cli'[c].op = "init" => cli'[c].repo \in used'
         /\ RowsHaveRepo'
<1> DEFINE Table == /\ Distinct(registered)
                    /\ \A c \in Clients : cli[c].op = "init" => cli[c].repo \in used
                    /\ RowsHaveRepo
<1> SUFFICES Table'
  BY DEF RowsHaveRepo, Distinct
<1>0. Table /\ TypeOK
  BY DEF PoolInv
<1> USE <1>0 DEF RowsHaveRepo, Distinct
<1>1. ASSUME NEW c \in Clients, NEW r \in Repos, InitChecks(c, r) \/ EnqueueReads(c, r)
      PROVE Table'
  BY <1>1 DEF InitChecks, EnqueueReads, TypeOK
<1>2. ASSUME NEW c \in Clients, InitInserts(c)
      PROVE Table'
  BY <1>2 DEF InitInserts, RootFree, NoCommand, TypeOK
<1>3. ASSUME NEW c \in Clients, EnqueueInserts(c)
      PROVE Table'
  BY <1>3 DEF EnqueueInserts, References, NoCommand, TypeOK
<1>4. ASSUME NEW r \in Repos, Remove(r)
      PROVE Table'
  BY <1>4 DEF Remove, TypeOK
<1>5. ASSUME NEW r \in Repos, WorkerStep(r)
      PROVE Table'
  BY <1>5 DEF WorkerStep, Poll, Saves, Releases, TypeOK
<1>8. ASSUME NEW r \in Repos, LeftStep(r)
      PROVE Table'
  BY <1>8 DEF LeftStep, TypeOK
<1>6. CASE Start
  BY <1>6 DEF Start, TypeOK
<1>7. ASSUME UNCHANGED tableVars
      PROVE Table'
  BY <1>7
<1> QED
  BY <1>1, <1>2, <1>3, <1>4, <1>5, <1>6, <1>7, <1>8
     DEF Next, Commands, MainStep, IoError, LeftEnds, List, Stop, Joins, Joined, EndStop, Spawn, EndSpawn,
         ReconcileFails, Quit, ShutDown, Drain, Exit, Crash, NoPool

\* What the main thread knows of the threads.
LEMMA HandlesNext ==
  ASSUME PoolInv, [Next]_vars
  PROVE  /\ Distinct(desired')
         /\ Distinct(workers' \cup ({joining'} \ {NoRepo}))
         /\ Live' \subseteq workers' \cup {joining'}
         /\ Distinct(LiveIn(left'))
         /\ phase' = "spawn" => StaleGone'
         /\ locked' = (phase' # "down")
<1> DEFINE Handles == /\ Distinct(desired)
                      /\ Distinct(workers \cup ({joining} \ {NoRepo}))
                      /\ Live \subseteq workers \cup {joining}
                      /\ Distinct(LiveIn(left))
                      /\ phase = "spawn" => StaleGone
                      /\ locked = (phase # "down")
<1> SUFFICES Handles'
  BY DEF Live, LiveIn, Distinct
<1>0. Handles /\ TypeOK /\ Distinct(registered)
  BY DEF PoolInv
<1> USE <1>0 DEF Distinct, Live, LiveIn, StaleGone
<1>1. ASSUME UNCHANGED <<mainVars, thread, left>>
      PROVE Handles'
  BY <1>1
<1>2. ASSUME NEW r \in Repos, r \in Live, UNCHANGED <<mainVars, left>>, NEW s, Becomes(r, s)
      PROVE Handles'
  BY <1>2 DEF TypeOK
<1>3. ASSUME NEW r \in Repos, WorkerStep(r) \/ IoError(r)
      PROVE Handles'
  BY <1>2, <1>3 DEF WorkerStep, Poll, Saves, Releases, IoError
<1>10. ASSUME NEW r \in Repos, LeftStep(r)
       PROVE Handles'
  BY <1>10 DEF LeftStep, TypeOK
<1>11. CASE LeftEnds
  BY <1>11 DEF LeftEnds, NoThreads
<1>4. CASE Start \/ EndSpawn \/ Quit \/ ShutDown \/ EndStop
  BY <1>4 DEF Start, EndSpawn, Quit, ShutDown, EndStop
<1>5. CASE List
  BY <1>5 DEF List, Listed
<1>6. ASSUME NEW r \in Repos, r \in workers, phase # "spawn", Joins(r)
      PROVE Handles'
  BY <1>6, PoolAssumption DEF Joins, TypeOK
<1>7. CASE Joined
  BY <1>7 DEF Joined, TypeOK
<1>8. ASSUME NEW r \in Repos, Spawn(r)
      PROVE Handles'
  BY <1>8, PoolAssumption DEF Spawn, TypeOK
<1>9. ASSUME NoPool, Distinct(LiveIn(left'))
      PROVE Handles'
  BY <1>9 DEF NoPool, NoThreads
<1>12. CASE ReconcileFails
  <2>1. CASE first
    <3>1. LiveIn(left') \subseteq Live
      BY <1>12, <2>1 DEF ReconcileFails
    <3>2. NoRepo \notin Live /\ Distinct(Live)
      BY PoolAssumption
    <3>3. Distinct(LiveIn(left'))
      BY <3>1, <3>2
    <3> QED
      BY <1>9, <1>12, <2>1, <3>3 DEF ReconcileFails
  <2>2. CASE ~first
    BY <1>12, <2>2 DEF ReconcileFails
  <2> QED
    BY <2>1, <2>2
<1> QED
  BY <1>1, <1>3, <1>4, <1>5, <1>6, <1>7, <1>8, <1>9,
     <1>10, <1>11, <1>12
     DEF Next, Commands, MainStep, InitChecks, EnqueueReads, InitInserts, EnqueueInserts, Remove,
         Stop, Drain, Exit, Crash

\* The invariant is inductive: whatever commands, threads and the main thread do in
\* whatever order, its parts are preserved together (pool.rs, init.rs, repos.rs).
THEOREM PoolInductive == Spec => []PoolInv
<1>1. Init => PoolInv
  <2> SUFFICES ASSUME Init PROVE PoolInv
    OBVIOUS
  <2> USE DEF Init
  <2>1. TypeOK
    <3>1. row \in [Repos -> {"none", "Queued", "InFlight", "Done"}]
      OBVIOUS
    <3>2. thread \in Threads /\ left \in [Repos -> {"none", "poll", "busy"}]
      BY DEF NoThreads, Threads
    <3>3. token \in [Repos -> 0..2] /\ global \in 0..2
      OBVIOUS
    <3>4. cli \in [Clients -> {NoCommand} \cup [op : {"init", "enqueue"}, repo : Repos]]
      OBVIOUS
    <3> QED
      BY <3>1, <3>2, <3>3, <3>4 DEF TypeOK
  <2>2. Distinct(registered) /\ Distinct(desired) /\ Distinct(workers \cup ({joining} \ {NoRepo}))
    BY DEF Distinct
  <2>3. Live = {} /\ LiveIn(left) = {} /\ RowsHaveRepo /\ phase = "down" /\ ~locked
    BY DEF Live, LiveIn, NoThreads, RowsHaveRepo
  <2>4. ASSUME NEW c \in Clients
        PROVE  cli[c].op # "init"
    BY DEF NoCommand
  <2> QED
    BY <2>1, <2>2, <2>3, <2>4 DEF PoolInv, Distinct
<1>2. PoolInv /\ [Next]_vars => PoolInv'
  BY TypeNext, TableNext, HandlesNext DEF PoolInv, Distinct
<1> QED
  BY <1>1, <1>2, PTL DEF Spec

\* Every variable keeps its type, in particular no token level leaves 0..2.
THEOREM PoolTypeCorrect == Spec => []TypeOK
<1>1. PoolInv => TypeOK
  BY DEF PoolInv
<1> QED
  BY <1>1, PoolInductive, PTL

\* reconcile() never runs two workers of its process in one worktree, for every
\* number of repositories and however they are removed and registered again
\* meanwhile; nor do the threads of a process that failed to start.
THEOREM OneThreadAlways == Spec => []OneThreadPerRoot
<1>1. PoolInv => OneThreadPerRoot
  <2> SUFFICES ASSUME PoolInv, NEW r \in Live, NEW q \in Live, RootOf[r] = RootOf[q]
               PROVE  r = q
    BY DEF OneThreadPerRoot, PoolInv, Distinct
  <2>1. r # NoRepo /\ q # NoRepo
    BY PoolAssumption DEF Live, LiveIn
  <2>2. {r, q} \subseteq workers \cup ({joining} \ {NoRepo})
    BY <2>1 DEF PoolInv
  <2> QED
    BY <2>2 DEF PoolInv, Distinct
<1> QED
  BY <1>1, PoolInductive, PTL

\* The foreign key holds against a repository removed between the read and the
\* write of `enqueue`, and against the saves of its worker.
THEOREM RowsAlwaysHaveRepo == Spec => []RowsHaveRepo
<1>1. PoolInv => RowsHaveRepo
  BY DEF PoolInv
<1> QED
  BY <1>1, PoolInductive, PTL

\* No step of a running pool lowers the global level or that of a live worker.
THEOREM LevelsEscalate == Spec => TokensEscalate
<1> DEFINE Escalates ==
      phase # "down" /\ phase' # "down" =>
        /\ global' >= global
        /\ \A r \in Live : thread'[r] # "none" => token'[r] >= token[r]
<1>1. PoolInv /\ [Next]_vars => [Escalates]_vars
  <2> SUFFICES ASSUME PoolInv, Next, phase # "down", phase' # "down"
               PROVE  /\ global' >= global
                      /\ \A r \in Live : thread'[r] # "none" => token'[r] >= token[r]
    OBVIOUS
  <2>1. TypeOK
    BY DEF PoolInv
  <2>2. ASSUME UNCHANGED <<global, token>>
        PROVE  global' >= global /\ \A r \in Live : token'[r] >= token[r]
    BY <2>1, <2>2 DEF TypeOK, Live, LiveIn
  <2>3. ASSUME NEW r \in Repos, Joins(r)
        PROVE  global' >= global /\ \A q \in Live : token'[q] >= token[q]
    BY <2>1, <2>3 DEF Joins, Signalled, SetSoft, TypeOK, Live, LiveIn
  <2>4. ASSUME NEW r \in Repos, Spawn(r)
        PROVE  global' >= global /\ \A q \in Live : token'[q] >= token[q]
    <3>1. r \notin Live
      BY <2>4, PoolAssumption DEF Spawn, PoolInv, StaleGone
    <3> QED
      BY <3>1, <2>1, <2>4 DEF Spawn, TypeOK, Live, LiveIn
  <2>5. CASE Quit \/ ShutDown
    BY <2>1, <2>5 DEF Quit, ShutDown, SetSoft, TypeOK, Live, LiveIn
  <2>6. ~Start /\ ~NoPool
    BY DEF Start, NoPool, PoolInv
  <2>7. ~Exit /\ ~Crash
    BY <2>6 DEF Exit, Crash
  <2>8. ASSUME ReconcileFails
        PROVE  UNCHANGED <<global, token>>
    BY <2>6, <2>8 DEF ReconcileFails
  <2> QED
    BY <2>2, <2>3, <2>4, <2>5, <2>6, <2>7, <2>8
       DEF Next, Commands, MainStep, WorkerStep, InitChecks, EnqueueReads, InitInserts,
           EnqueueInserts, Remove, Poll, Saves, Releases, IoError, List, Stop, Drain, Joined,
           EndStop, EndSpawn, LeftStep, LeftEnds
<1> QED
  BY <1>1, PoolInductive, PTL DEF Spec, TokensEscalate
=============================================================================
