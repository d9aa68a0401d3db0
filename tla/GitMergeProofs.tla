--------------------------- MODULE GitMergeProofs ---------------------------
(***************************************************************************)
(* What is fast-forwarded has passed CI; and no change lands twice, none is *)
(* lost and the target is never rewritten: for every number of entries,    *)
(* worktrees, branches, changes and CI steps.                              *)
(***************************************************************************)
EXTENDS GitMerge, FilterProofs

\* The shape of the state; the changes on branches do not matter here.
Shape ==
  /\ tip = [b \in Refs |-> tip[b]]
  /\ head \in [Trees -> Refs]
  /\ stopped = [w \in Trees |-> stopped[w]]
  /\ entry = [e \in Entries |-> entry[e]] /\ \A e \in Entries : entry[e].tree \in Trees
  /\ status \in [Entries -> {"Fresh", "Queued", "Working", "NeedsHelp", "Merged", "Failed"}]
  /\ landed = [e \in Entries |-> landed[e]]
  /\ pc \in {"idle", "precheck", "rebase", "ci", "ff"}
  /\ left \in 0..Steps /\ wrote \in BOOLEAN

\* The entry a worker is at is the one that is claimed.
CurInv ==
  /\ pc # "idle" => cur \in Entries /\ status[cur] = "Working"
  /\ \A e \in Entries : status[e] = "Working" => pc # "idle" /\ e = cur

\* No branch is checked out twice, and a detached HEAD is that of its worktree.
HeadInv ==
  /\ \A v, w \in Trees : head[v] = head[w] => v = w
  /\ \A w \in Trees : head[w] \in Branches \cup {w}

\* A waiting entry whose worktree the user left alone still has its branch there.
SourceInv ==
  /\ \A e \in Entries \ meddled : status[e] \notin {"Fresh", "Merged"} =>
       entry[e].source = CurrentBranch(entry[e].tree)
  /\ \A e \in Entries : status[e] = "Fresh" => entry[e].source # HeadRef

\* Since its rebase, only CI has edited tracked files in a worktree.
Untouched(w) == ~stopped[w].on /\ (w \in edited => wrote)

\* Every step so far has seen the source branch as it is now, in such a worktree.
AllGreen(passed) ==
  IF passed = 0 THEN {} ELSE {[tip |-> tip[entry[cur].source], clean |-> TRUE]}
CiInv ==
  /\ pc \in {"idle", "precheck", "rebase"} => seen = {}
  /\ pc \in {"ci", "ff"} /\ cur \notin meddled =>
       /\ Untouched(entry[cur].tree)
       /\ entry[cur].source # HeadRef => seen = AllGreen(Steps - left)
  /\ pc = "ff" => left = 0
  /\ pc = "ci" => left > 0

GitInv == Shape /\ CurInv /\ HeadInv /\ SourceInv /\ CiInv /\ LandsWhatCiPassed

-----------------------------------------------------------------------------
LEMMA InitGit ==
  ASSUME Init
  PROVE  GitInv
<1> USE GitAssumption DEF Init
<1>1. Shape
  <2>1. wrote \in BOOLEAN
    BY Zenon
  <2>2. head \in [Trees -> Refs]
    BY DEF Refs
  <2>. QED
    BY <2>1, <2>2 DEF Shape, NoRow
<1>2. CurInv /\ HeadInv /\ SourceInv /\ CiInv /\ LandsWhatCiPassed
  BY DEF CurInv, HeadInv, SourceInv, CiInv, LandsWhatCiPassed, NoRow, NotLanded
<1>. QED
  BY <1>1, <1>2 DEF GitInv

\* A worker that lets go of its entry without landing it, whatever it leaves behind
\* in tip and stopped.
LEMMA LeavesGit ==
  ASSUME GitInv, pc # "idle",
         NEW s \in {"Queued", "NeedsHelp", "Merged", "Failed"}, Leaves(s),
         UNCHANGED <<head, entry, meddled>>,
         tip' = [b \in Refs |-> tip'[b]], stopped' = [w \in Trees |-> stopped'[w]],
         landed' = [e \in Entries |-> landed'[e]], LandsWhatCiPassed'
  PROVE  GitInv'
<1> USE GitAssumption DEF GitInv, Leaves
<1>1. Shape'
  <2>1. status' \in [Entries -> {"Fresh", "Queued", "Working", "NeedsHelp", "Merged", "Failed"}]
    BY DEF Shape
  <2>2. left' \in 0..Steps /\ pc' = "idle" /\ head' \in [Trees -> Refs]
    BY DEF Shape
  <2>4. wrote' \in BOOLEAN
    BY Zenon
  <2>3. entry' = [e \in Entries |-> entry'[e]] /\ \A e \in Entries : entry'[e].tree \in Trees
    BY DEF Shape
  <2>. QED
    BY <2>1, <2>2, <2>3, <2>4 DEF Shape
<1>2. CurInv'
  BY DEF Shape, CurInv
<1>3. HeadInv' /\ CiInv'
  BY DEF HeadInv, CiInv
<1>4. SourceInv'
  BY DEF Shape, CurInv, SourceInv, CurrentBranch, Detached
<1>. QED
  BY <1>1, <1>2, <1>3, <1>4

\* What the worker at the fast-forward lands is green.
LEMMA MergeGit ==
  ASSUME GitInv, pc = "ff", Merge, UNCHANGED <<entry, meddled>>
  PROVE  /\ tip' = [b \in Refs |-> tip'[b]] /\ landed' = [e \in Entries |-> landed'[e]]
         /\ LandsWhatCiPassed'
<1> DEFINE s == tip[Resolved(entry[cur].source)]
           g == seen = IF Steps = 0 THEN {} ELSE {[tip |-> s, clean |-> TRUE]}
<1>1. cur \in Entries
  BY DEF GitInv, CurInv
<1>2. cur \notin meddled /\ entry[cur].source # HeadRef => g
  <2> SUFFICES ASSUME cur \notin meddled, entry[cur].source # HeadRef PROVE g
    OBVIOUS
  <2>1. left = 0 /\ seen = AllGreen(Steps - left)
    BY DEF GitInv, CiInv
  <2>2. Steps - left = Steps
    BY <2>1, GitAssumption
  <2>. QED
    BY <2>1, <2>2 DEF AllGreen, Resolved
<1>3. landed' = [landed EXCEPT ![cur] = [branch |-> head[Root], tip |-> s, green |-> g]]
  BY DEF Merge
<1>4. tip' = [b \in Refs |-> tip'[b]]
  BY DEF Merge, GitInv, Shape
<1> HIDE DEF g, s
<1>5. /\ landed' = [e \in Entries |-> landed'[e]]
      /\ \A e \in Entries \ {cur} : landed'[e] = landed[e]
      /\ landed'[cur].green = g
  BY <1>1, <1>3 DEF GitInv, Shape
<1>. QED
  BY <1>2, <1>4, <1>5 DEF GitInv, LandsWhatCiPassed

LEMMA WorkerGit ==
  ASSUME GitInv, Worker
  PROVE  GitInv'
<1> USE GitAssumption
<1>1. ASSUME NEW e \in Entries, Claim(e) PROVE GitInv'
  BY <1>1 DEF Claim, gitVars, history, GitInv, Shape, CurInv, HeadInv, SourceInv, CurrentBranch,
              Detached, CiInv, LandsWhatCiPassed
<1>2. CASE Precheck
  <2>1. CASE Leaves("Queued")
    <3>1. LandsWhatCiPassed'
      BY <1>2 DEF Precheck, history, GitInv, LandsWhatCiPassed
    <3>. QED
      BY <1>2, <2>1, <3>1, LeavesGit DEF Precheck, gitVars, history, GitInv, Shape
  <2>2. CASE pc' = "rebase" /\ UNCHANGED <<status, cur, left, wrote, seen>>
    BY <1>2, <2>2 DEF Precheck, gitVars, history, GitInv, Shape, CurInv, HeadInv, SourceInv,
                      CurrentBranch, Detached, CiInv, LandsWhatCiPassed
  <2>. QED
    BY <1>2, <2>1, <2>2 DEF Precheck
<1>3. CASE RebaseOk
  <2>1. /\ pc = "rebase" /\ ~Refuses(entry[cur].tree)
        /\ pc' = IF Steps = 0 THEN "ff" ELSE "ci"
        /\ left' = Steps
        /\ UNCHANGED <<head, edited, stopped, entry, status, cur, wrote, seen, landed, meddled>>
    BY <1>3 DEF RebaseOk, RebaseSucceeds, files, history
  <2>2. tip' = [b \in Refs |-> tip'[b]]
    BY <1>3 DEF RebaseOk, RebaseSucceeds, Rebases, GitInv, Shape
  <2>3. CiInv'
    BY <2>1, GitAssumption DEF GitInv, CiInv, AllGreen, Untouched, Refuses
  <2>. QED
    BY <2>1, <2>2, <2>3 DEF GitInv, Shape, CurInv, HeadInv, SourceInv, CurrentBranch, Detached,
                            LandsWhatCiPassed
<1>4. CASE RebaseConflict
  <2>1. stopped' = [w \in Trees |-> stopped'[w]]
    BY <1>4 DEF RebaseConflict, StoppedRebase, GitInv, Shape
  <2>2. LandsWhatCiPassed'
    BY <1>4 DEF RebaseConflict, history, GitInv, LandsWhatCiPassed
  <2>. QED
    BY <1>4, <2>1, <2>2, LeavesGit DEF RebaseConflict, history, GitInv, Shape
<1>5. CASE CiPasses
  <2> DEFINE w == entry[cur].tree
  <2>1. /\ pc = "ci" /\ left' = left - 1 /\ pc' = IF left = 1 THEN "ff" ELSE "ci"
        /\ seen' = seen \cup {[tip |-> tip[head[w]], clean |-> w \in edited => wrote]}
        /\ wrote' = (wrote \/ edited' # edited)
        /\ UNCHANGED <<tip, head, stopped, entry, status, cur, landed, meddled>>
    BY <1>5 DEF CiPasses, StepPasses, history
  <2>2. left \in 1..Steps
    BY <1>5, <2>1 DEF GitInv, CiInv, Shape
  <2>3. cur \notin meddled => Untouched(w)'
    BY <2>1 DEF GitInv, CiInv, Untouched
  <2>4. ASSUME cur \notin meddled, entry[cur].source # HeadRef
        PROVE  seen' = AllGreen(Steps - left')
    <3>1. entry[cur].source = head[w]
      BY <2>1, <2>4 DEF GitInv, CurInv, SourceInv, CurrentBranch
    <3>2. (w \in edited => wrote) /\ seen = AllGreen(Steps - left)
      BY <2>1, <2>4 DEF GitInv, CiInv, Untouched
    <3>3. [tip |-> tip[head[w]], clean |-> w \in edited => wrote]
            = [tip |-> tip[entry[cur].source], clean |-> TRUE]
      BY <3>1, <3>2
    <3>4. Steps - left' # 0
      BY <2>1, <2>2
    <3>. QED
      BY <2>1, <3>2, <3>3, <3>4 DEF AllGreen
  <2>5. CiInv'
    BY <2>1, <2>2, <2>3, <2>4 DEF CiInv, AllGreen
  <2>. QED
    BY <2>1, <2>2, <2>5 DEF GitInv, Shape, CurInv, HeadInv, SourceInv, CurrentBranch, Detached,
                            LandsWhatCiPassed
<1>6. CASE CiFails
  <2>1. LandsWhatCiPassed'
    BY <1>6 DEF CiFails, history, GitInv, LandsWhatCiPassed
  <2>. QED
    BY <1>6, <2>1, LeavesGit DEF CiFails, history, GitInv, Shape
<1>7. CASE FastForwardOk
  BY <1>7, MergeGit, LeavesGit DEF FastForwardOk, GitInv, Shape
<1>8. CASE FastForwardRejected
  <2>1. LandsWhatCiPassed'
    BY <1>8 DEF FastForwardRejected, history, GitInv, LandsWhatCiPassed
  <2>. QED
    BY <1>8, <2>1, LeavesGit DEF FastForwardRejected, gitVars, history, GitInv, Shape
<1>9. CASE Interrupted
  <2>1. UNCHANGED landed => LandsWhatCiPassed'
    BY <1>9 DEF Interrupted, GitInv, LandsWhatCiPassed
  <2>2. /\ tip' = [b \in Refs |-> tip'[b]] /\ stopped' = [w \in Trees |-> stopped'[w]]
        /\ landed' = [e \in Entries |-> landed'[e]] /\ LandsWhatCiPassed'
    <3>1. CASE UNCHANGED <<tip, stopped, landed>>
      BY <2>1, <3>1 DEF GitInv, Shape
    <3>2. CASE StoppedRebase(entry[cur].tree) /\ UNCHANGED <<tip, landed>>
      BY <2>1, <3>2 DEF StoppedRebase, GitInv, Shape
    <3>3. CASE Rebases(entry[cur].tree) /\ UNCHANGED <<stopped, landed>>
      BY <2>1, <3>3 DEF Rebases, GitInv, Shape
    <3>4. CASE pc = "ff" /\ Merge /\ UNCHANGED stopped
      BY <1>9, <3>4, MergeGit DEF Interrupted, GitInv, Shape
    <3>. QED
      BY <1>9, <3>1, <3>2, <3>3, <3>4 DEF Interrupted
  <2>. QED
    BY <1>9, <2>2, LeavesGit DEF Interrupted
<1>. QED
  BY <1>1, <1>2, <1>3, <1>4, <1>5, <1>6, <1>7, <1>8, <1>9 DEF Worker

\* What a user does to one worktree disturbs the entries from there, which he has
\* then meddled with, or nobody.
LEMMA TreeGit ==
  ASSUME GitInv, NEW w \in Trees,
         UNCHANGED <<head, entry, status, pc, cur, left, wrote, seen, landed>>,
         tip' = [b \in Refs |-> tip'[b]], stopped' = [v \in Trees |-> stopped'[v]],
         meddled \subseteq meddled',
         \A b \in Refs \ {head[w]} : tip'[b] = tip[b],
         \A v \in Trees \ {w} : stopped'[v] = stopped[v] /\ (v \in edited' <=> v \in edited),
         pc \in {"ci", "ff"} /\ entry[cur].tree = w => cur \in meddled'
  PROVE  GitInv'
<1>1. Shape' /\ CurInv' /\ HeadInv' /\ SourceInv' /\ LandsWhatCiPassed'
  BY DEF GitInv, Shape, CurInv, HeadInv, SourceInv, CurrentBranch, Detached, LandsWhatCiPassed
<1>2. ASSUME pc \in {"ci", "ff"}, cur \notin meddled'
      PROVE  /\ Untouched(entry[cur].tree)'
             /\ entry[cur].source # HeadRef => tip'[entry[cur].source] = tip[entry[cur].source]
  <2>1. /\ cur \in Entries /\ entry[cur].tree \in Trees \ {w}
        /\ entry[cur].source = CurrentBranch(entry[cur].tree)
        /\ Untouched(entry[cur].tree)
    BY <1>2 DEF GitInv, Shape, CurInv, SourceInv, CiInv
  <2>2. entry[cur].source # HeadRef => entry[cur].source \in Refs \ {head[w]}
    BY <2>1 DEF GitInv, Shape, HeadInv, CurrentBranch
  <2>. QED
    BY <2>1, <2>2 DEF Untouched
<1>3. CiInv'
  BY <1>2 DEF GitInv, CiInv, AllGreen
<1>. QED
  BY <1>1, <1>3 DEF GitInv

\* The worktree of the entry under way is one of a waiting entry.
LEMMA CurWaits ==
  ASSUME GitInv, pc # "idle"
  PROVE  /\ cur \in Entries
         /\ Waiting(entry[cur].tree) /\ cur \in From(entry[cur].tree)
BY DEF GitInv, CurInv, Waiting, From

\* A user who gives a worktree another HEAD has meddled with the entries from there;
\* what his detached HEAD was or is matters to no other.
LEMMA HeadGit ==
  ASSUME GitInv, NEW w \in Trees, NEW h \in Branches \cup {w}, NEW c,
         UNCHANGED <<edited, stopped, entry, status, pc, cur, left, wrote, seen, landed>>,
         head' = [head EXCEPT ![w] = h], tip' = [tip EXCEPT ![w] = c],
         meddled' = meddled \cup From(w), \A v \in Trees \ {w} : head[v] # h
  PROVE  GitInv'
<1>1. \A v \in Trees : head'[v] = IF v = w THEN h ELSE head[v]
  BY DEF GitInv, Shape
<1>2. \A r \in Refs \ {w} : tip'[r] = tip[r]
  BY DEF GitInv, Shape
<1>3. Shape' /\ CurInv' /\ LandsWhatCiPassed'
  BY DEF GitInv, Shape, CurInv, LandsWhatCiPassed, Refs
<1>4. HeadInv'
  BY <1>1 DEF GitInv, HeadInv
<1>5. SourceInv'
  BY <1>1 DEF GitInv, Shape, SourceInv, From, CurrentBranch, Detached
<1>6. ASSUME pc \in {"ci", "ff"}, cur \notin meddled', entry[cur].source # HeadRef
      PROVE  tip'[entry[cur].source] = tip[entry[cur].source]
  <2>1. cur \in Entries /\ entry[cur].tree \in Trees
        /\ entry[cur].source = CurrentBranch(entry[cur].tree)
    BY <1>6 DEF GitInv, Shape, CurInv, SourceInv
  <2>2. entry[cur].source \in Branches
    BY <1>6, <2>1 DEF GitInv, HeadInv, CurrentBranch, Detached
  <2>. QED
    BY <1>2, <2>2, GitAssumption DEF Refs
<1>7. CiInv'
  BY <1>6 DEF GitInv, CiInv, AllGreen, Untouched
<1>. QED
  BY <1>3, <1>4, <1>5, <1>7 DEF GitInv

LEMMA UserGit ==
  ASSUME GitInv, User
  PROVE  GitInv'
<1>1. ASSUME NEW e \in Entries, NEW w \in Trees, NEW t \in Targets, Enqueue(e, w, t) PROVE GitInv'
  <2>1. /\ status[e] = "Fresh" /\ status' = [status EXCEPT ![e] = "Queued"]
        /\ UNCHANGED <<tip, head, edited, stopped, pc, cur, left, wrote, seen, landed, meddled>>
    BY <1>1 DEF Enqueue, gitVars, files, workerVars, history
  <2>2. /\ entry' = [d \in Entries |-> entry'[d]]
        /\ \A d \in Entries \ {e} : entry'[d] = entry[d]
        /\ entry'[e].tree = w /\ entry'[e].source = CurrentBranch(w)
    BY <1>1 DEF Enqueue, GitInv, Shape
  <2>3. pc # "idle" => cur \in Entries \ {e}
    BY <2>1 DEF GitInv, CurInv
  <2>4. Shape'
    BY <2>1, <2>2 DEF GitInv, Shape
  <2>5. CurInv'
    BY <2>1, <2>3 DEF GitInv, Shape, CurInv
  <2>6. SourceInv'
    BY <2>1, <2>2 DEF GitInv, Shape, SourceInv, CurrentBranch, Detached
  <2>7. HeadInv' /\ LandsWhatCiPassed'
    BY <2>1, <2>2 DEF GitInv, HeadInv, SourceInv, LandsWhatCiPassed
  <2>8. CiInv'
    BY <2>1, <2>2, <2>3 DEF GitInv, CiInv, AllGreen, Untouched
  <2>. QED
    BY <2>4, <2>5, <2>6, <2>7, <2>8 DEF GitInv
<1>2. ASSUME NEW e \in Entries, Retry(e) PROVE GitInv'
  BY <1>2 DEF Retry, gitVars, files, workerVars, history, GitInv, Shape, CurInv, HeadInv, SourceInv,
              CurrentBranch, Detached, CiInv, AllGreen, Untouched, LandsWhatCiPassed
<1>3. ASSUME NEW w \in Trees, Commit(w) PROVE GitInv'
  <2>1. /\ UNCHANGED <<head, edited, stopped, entry, status, pc, cur, left, wrote, seen, landed>>
        /\ meddled' = IF Waiting(w) THEN meddled \cup From(w) ELSE meddled
    BY <1>3 DEF Commit, files, workerVars
  <2>2. tip' = [b \in Refs |-> tip'[b]] /\ \A b \in Refs \ {head[w]} : tip'[b] = tip[b]
    BY <1>3 DEF Commit, GitInv, Shape
  <2>3. pc \in {"ci", "ff"} /\ entry[cur].tree = w => cur \in meddled'
    BY <2>1, CurWaits
  <2>. QED
    BY <2>1, <2>2, <2>3, TreeGit DEF GitInv, Shape
<1>4. ASSUME NEW w \in Trees, Edit(w) PROVE GitInv'
  <2>1. /\ UNCHANGED <<tip, head, stopped, entry, status, pc, cur, left, wrote, seen, landed>>
        /\ meddled' = IF Waiting(w) THEN meddled \cup From(w) ELSE meddled
        /\ \A v \in Trees \ {w} : v \in edited' <=> v \in edited
    BY <1>4 DEF Edit, Toggled, workerVars
  <2>2. pc \in {"ci", "ff"} /\ entry[cur].tree = w => cur \in meddled'
    BY <2>1, CurWaits
  <2>. QED
    BY <2>1, <2>2, TreeGit DEF GitInv, Shape
<1>5. ASSUME NEW w \in Trees, FinishRebase(w) PROVE GitInv'
  <2>1. /\ UNCHANGED <<head, edited, entry, status, pc, cur, left, wrote, seen, landed, meddled>>
        /\ stopped[w].on /\ stopped' = [stopped EXCEPT ![w] = NotStopped]
    BY <1>5 DEF FinishRebase, files, workerVars, history
  <2>2. tip' = [b \in Refs |-> tip'[b]] /\ \A b \in Refs \ {head[w]} : tip'[b] = tip[b]
    BY <1>5 DEF FinishRebase, GitInv, Shape
  <2>3. pc \in {"ci", "ff"} /\ entry[cur].tree = w => cur \in meddled'
    BY <2>1 DEF GitInv, CiInv, Untouched
  <2>. QED
    BY <2>1, <2>2, <2>3, TreeGit DEF GitInv, Shape
<1>6. ASSUME NEW w \in Trees, NEW b \in Branches, Switch(w, b) PROVE GitInv'
  BY <1>6, HeadGit DEF Switch, files, workerVars, InUse
<1>7. ASSUME NEW w \in Trees, Detach(w) PROVE GitInv'
  <2>1. \A v \in Trees \ {w} : head[v] # w
    BY GitAssumption DEF GitInv, HeadInv
  <2>. QED
    BY <1>7, <2>1, HeadGit DEF Detach, files, workerVars
<1>. QED
  BY <1>1, <1>2, <1>3, <1>4, <1>5, <1>6, <1>7 DEF User

LEMMA StutterGit ==
  ASSUME GitInv, UNCHANGED vars
  PROVE  GitInv'
BY DEF GitInv, vars, gitVars, files, workerVars, history, Shape, CurInv, HeadInv, SourceInv,
       CurrentBranch, Detached, CiInv, AllGreen, Untouched, LandsWhatCiPassed

\* The worker and the branches it works on stay in step.
THEOREM GitInductive == Spec => []GitInv
BY InitGit, WorkerGit, UserGit, StutterGit, PTL DEF Spec, Next

\* What is fast-forwarded for a branch is what every configured CI step had checked out,
\* with no edits of tracked files but those of CI itself, unless the user worked in the
\* worktree of the entry while it waited or switched branches there; whatever he does
\* there while it is Failed or NeedsHelp (engine/worker.rs, git/process_git.rs).
THEOREM LandsOnlyTested == Spec => []LandsWhatCiPassed
<1>1. GitInv => LandsWhatCiPassed
  BY DEF GitInv
<1>. QED
  BY <1>1, GitInductive, PTL

-----------------------------------------------------------------------------
(* What the changes on branches are.                                       *)

\* A row names branches or "HEAD", and what the entry was enqueued with is on its source
\* branch.
RowInv ==
  \A e \in Entries : status[e] # "Fresh" =>
    /\ entry[e].source \in Branches \cup {HeadRef} /\ entry[e].target \in Targets
    /\ entry[e].source # HeadRef => entry[e].work \subseteq ToSet(tip[entry[e].source])

\* No history has a change twice, nor has the result of a rebase under way.
OnceInv ==
  /\ \A b \in Refs : IsInjective(tip[b]) /\ ToSet(tip[b]) \subseteq made
  /\ \A w \in Trees : stopped[w].on =>
       IsInjective(stopped[w].result) /\ ToSet(stopped[w].result) \subseteq made

\* A rebase under way loses nothing.
StopInv ==
  \A w \in Trees : stopped[w].on => ToSet(tip[head[w]]) \subseteq ToSet(stopped[w].result)

\* A branch that is not the only target is the one a rebase has stopped on.
OneTarget == \A s, t \in Targets : s = t
TargetInv == \A w \in Trees : stopped[w].on => head[w] \notin Targets

-----------------------------------------------------------------------------
(* The operators on histories.                                             *)

\* A rebased history has the changes of both, each once, and is the upstream
\* continued; a branch rebased onto itself stays as it is.
LEMMA ReplayedFacts ==
  ASSUME NEW C, NEW s \in Seq(C), NEW onto \in Seq(C)
  PROVE  /\ Replayed(s, onto) \in Seq(C)
         /\ ToSet(Replayed(s, onto)) = ToSet(s) \cup ToSet(onto)
         /\ IsInjective(s) /\ IsInjective(onto) => IsInjective(Replayed(s, onto))
         /\ Replayed(s, s) = s
<1> DEFINE k == Kept(s, ToSet(s) \ ToSet(onto))
<1>1. /\ k \in Seq(C) /\ ToSet(k) = ToSet(s) \ ToSet(onto)
      /\ IsInjective(s) => IsInjective(k)
  BY KeptProperties
<1>2. Replayed(s, onto) = onto \o k
  BY DEF Replayed
<1> HIDE DEF k
<1>3. Replayed(s, onto) \in Seq(C)
  BY <1>1, <1>2, ConcatProperties
<1>4. ToSet(Replayed(s, onto)) = ToSet(s) \cup ToSet(onto)
  BY <1>1, <1>2, ConcatToSet
<1>5. IsInjective(s) /\ IsInjective(onto) => IsInjective(Replayed(s, onto))
  BY <1>1, <1>2, ConcatToSet
<1>6. Replayed(s, s) = s
  <2>1. Kept(s, ToSet(s) \ ToSet(s)) = <<>>
    BY KeptNothing
  <2>. QED
    BY <2>1, ConcatEmptySeq DEF Replayed
<1>. QED
  BY <1>3, <1>4, <1>5, <1>6

\* A fast-forward takes one of the two histories, the one that continues the other.
LEMMA ForwardedFacts ==
  ASSUME NEW C, NEW s \in Seq(C), NEW t \in Seq(C), FastForwards(t, s)
  PROVE  /\ Forwarded(t, s) \in {s, t} /\ IsPrefix(t, Forwarded(t, s))
         /\ ToSet(t) \cup ToSet(s) \subseteq ToSet(Forwarded(t, s))
<1>1. IsPrefix(t, t)
  BY PrefixFacts
<1>2. IsPrefix(t, s) => ToSet(t) \subseteq ToSet(s)
  BY PrefixFacts
<1>3. IsPrefix(s, t) => ToSet(s) \subseteq ToSet(t)
  BY PrefixFacts
<1>. QED
  BY <1>1, <1>2, <1>3 DEF FastForwards, Forwarded

-----------------------------------------------------------------------------
(* The six ways in which a ref moves, and what happens to a rebase.          *)

Rebased(b) == \E w \in Trees, t \in Targets :
  b = head[w] /\ ~stopped[w].on /\ tip'[b] = Replayed(tip[b], tip[t])
Committed(b) == \E w \in Trees, c \in Changes \ made :
  b = head[w] /\ ~stopped[w].on /\ tip'[b] = Append(tip[b], c) /\ c \in made'
Merged(b) == \E s \in Refs :
  /\ b = head[Root] /\ ~stopped[Root].on
  /\ FastForwards(tip[b], tip[s]) /\ tip'[b] = Forwarded(tip[b], tip[s])
Finished(b) == \E w \in Trees :
  b = head[w] /\ stopped[w].on /\ tip'[b] = stopped[w].result /\ ~stopped'[w].on
Detaches(b) == \E w \in Trees :
  b = w /\ ~stopped[w].on /\ tip'[b] \in {tip[head[w]], <<>>}
Moved(b) ==
  tip'[b] = tip[b] \/ Rebased(b) \/ Committed(b) \/ Merged(b) \/ Finished(b) \/ Detaches(b)

Stops(w) == \E t \in Targets :
  /\ ~stopped[w].on /\ UNCHANGED tip /\ head'[w] = head[w]
  /\ stopped'[w].result = Replayed(tip[head[w]], tip[t]) /\ stopped'[w].result # tip[head[w]]
TreeMoved(w) ==
  \/ stopped'[w] = stopped[w] /\ (stopped[w].on => head'[w] = head[w])
  \/ ~stopped'[w].on
  \/ Stops(w)

Moves == /\ \A b \in Refs : Moved(b)
         /\ \A w \in Trees : TreeMoved(w)
         /\ made \subseteq made' /\ made' \subseteq Changes

\* What the worker can rely on while it is at an entry.
LEMMA CurRow ==
  ASSUME GitInv, RowInv, pc # "idle"
  PROVE  /\ cur \in Entries /\ entry[cur].tree \in Trees
         /\ Resolved(entry[cur].source) \in Refs /\ entry[cur].target \in Targets
         /\ entry[cur].target \in Refs /\ head[entry[cur].tree] \in Refs
BY GitAssumption DEF GitInv, Shape, CurInv, RowInv, Refs, Resolved

LEMMA NothingMoves ==
  ASSUME TypeOK, UNCHANGED <<tip, made>>,
         \A w \in Trees : stopped'[w] = stopped[w] /\ (stopped[w].on => head'[w] = head[w])
  PROVE  Moves
BY DEF TypeOK, Moves, Moved, TreeMoved

LEMMA RebaseMoves ==
  ASSUME TypeOK, GitInv, RowInv, pc # "idle", ~Refuses(entry[cur].tree),
         Rebases(entry[cur].tree), UNCHANGED <<head, stopped, made>>
  PROVE  Moves
<1> DEFINE w == entry[cur].tree  t == entry[cur].target
<1>1. w \in Trees /\ t \in Targets /\ head[w] \in Refs /\ ~stopped[w].on
  BY CurRow DEF Refuses
<1>2. /\ tip'[head[w]] = Replayed(tip[head[w]], tip[t])
      /\ \A b \in Refs \ {head[w]} : tip'[b] = tip[b]
  BY <1>1 DEF Rebases, TypeOK
<1>3. Rebased(head[w])
  BY <1>1, <1>2 DEF Rebased
<1>4. \A v \in Trees : TreeMoved(v)
  BY DEF TreeMoved
<1>. QED
  BY <1>2, <1>3, <1>4 DEF TypeOK, Moves, Moved

LEMMA StopMoves ==
  ASSUME TypeOK, GitInv, RowInv, pc # "idle", StoppedRebase(entry[cur].tree),
         UNCHANGED <<tip, head, made>>
  PROVE  Moves
<1> DEFINE w == entry[cur].tree  t == entry[cur].target
<1>1. w \in Trees /\ t \in Targets /\ ~stopped[w].on
  BY CurRow DEF StoppedRebase, Refuses
<1>2. /\ stopped'[w].result = Replayed(tip[head[w]], tip[t])
      /\ stopped'[w].result # tip[head[w]]
      /\ \A v \in Trees \ {w} : stopped'[v] = stopped[v]
  BY <1>1 DEF StoppedRebase, TypeOK
<1>3. Stops(w)
  BY <1>1, <1>2 DEF Stops
<1>4. \A v \in Trees : TreeMoved(v)
  BY <1>2, <1>3 DEF TreeMoved
<1>. QED
  BY <1>4 DEF TypeOK, Moves, Moved

LEMMA MergeMoves ==
  ASSUME TypeOK, GitInv, RowInv, pc # "idle", Merge, UNCHANGED <<head, stopped, made>>
  PROVE  Moves
<1> DEFINE b == head[Root]  s == Resolved(entry[cur].source)
<1>1. b \in Refs /\ s \in Refs /\ ~stopped[Root].on /\ FastForwards(tip[b], tip[s])
  BY CurRow, GitAssumption DEF Merge, TypeOK
<1>2. tip'[b] = Forwarded(tip[b], tip[s]) /\ \A d \in Refs \ {b} : tip'[d] = tip[d]
  BY <1>1 DEF Merge, TypeOK
<1>3. Merged(b)
  BY <1>1, <1>2 DEF Merged
<1>4. \A v \in Trees : TreeMoved(v)
  BY DEF TreeMoved
<1>. QED
  BY <1>2, <1>3, <1>4 DEF TypeOK, Moves, Moved

LEMMA HeadMoves ==
  ASSUME TypeOK, NEW w \in Trees, ~stopped[w].on, NEW c \in {tip[head[w]], <<>>}, NEW h,
         tip' = [tip EXCEPT ![w] = c], head' = [head EXCEPT ![w] = h],
         UNCHANGED <<stopped, made>>
  PROVE  Moves
<1>1. w \in Refs
  BY DEF Refs
<1>2. tip'[w] = c /\ \A r \in Refs \ {w} : tip'[r] = tip[r]
  BY <1>1 DEF TypeOK
<1>3. Detaches(w)
  BY <1>2 DEF Detaches
<1>4. \A v \in Trees : TreeMoved(v)
  BY DEF TypeOK, TreeMoved
<1>. QED
  BY <1>2, <1>3, <1>4 DEF TypeOK, Moves, Moved

\* Every step moves branches and worktrees in these ways.
LEMMA NextMoves ==
  ASSUME TypeOK, GitInv, RowInv, Next
  PROVE  Moves
<1>1. ASSUME NEW e \in Entries, Claim(e) PROVE Moves
  BY <1>1, NothingMoves DEF Claim, gitVars
<1>2. CASE Precheck
  BY <1>2, NothingMoves DEF Precheck, gitVars
<1>3. CASE RebaseOk
  BY <1>3, RebaseMoves DEF RebaseOk, RebaseSucceeds
<1>4. CASE RebaseConflict
  BY <1>4, NothingMoves, StopMoves DEF RebaseConflict
<1>5. CASE CiPasses
  BY <1>5, NothingMoves DEF CiPasses, StepPasses
<1>6. CASE CiFails
  BY <1>6, NothingMoves DEF CiFails
<1>7. CASE FastForwardOk
  BY <1>7, MergeMoves DEF FastForwardOk
<1>8. CASE FastForwardRejected
  BY <1>8, NothingMoves DEF FastForwardRejected, gitVars
<1>9. CASE Interrupted
  BY <1>9, NothingMoves, RebaseMoves, StopMoves, MergeMoves DEF Interrupted
<1>10. ASSUME NEW e \in Entries, NEW w \in Trees, NEW t \in Targets, Enqueue(e, w, t) PROVE Moves
  BY <1>10, NothingMoves DEF Enqueue, gitVars
<1>11. ASSUME NEW e \in Entries, Retry(e) PROVE Moves
  BY <1>11, NothingMoves DEF Retry, gitVars
<1>12. ASSUME NEW w \in Trees, Commit(w) PROVE Moves
  <2>1. PICK c \in Changes \ made : tip' = [tip EXCEPT ![head[w]] = Append(@, c)] /\ made' = made \cup {c}
    BY <1>12 DEF Commit
  <2>2. ~stopped[w].on /\ UNCHANGED <<head, stopped>> /\ head[w] \in Refs
    BY <1>12 DEF Commit, TypeOK
  <2>3. tip'[head[w]] = Append(tip[head[w]], c) /\ \A b \in Refs \ {head[w]} : tip'[b] = tip[b]
    BY <2>1, <2>2 DEF TypeOK
  <2>4. Committed(head[w])
    BY <2>1, <2>2, <2>3 DEF Committed
  <2>5. \A v \in Trees : TreeMoved(v)
    BY <2>2 DEF TreeMoved
  <2>. QED
    BY <2>1, <2>3, <2>4, <2>5 DEF TypeOK, Moves, Moved
<1>13. ASSUME NEW w \in Trees, Edit(w) PROVE Moves
  BY <1>13, NothingMoves DEF Edit
<1>14. ASSUME NEW w \in Trees, FinishRebase(w) PROVE Moves
  <2>1. /\ stopped[w].on /\ stopped' = [stopped EXCEPT ![w] = NotStopped]
        /\ UNCHANGED <<head, made>> /\ head[w] \in Refs
    BY <1>14 DEF FinishRebase, TypeOK
  <2>2. ~stopped'[w].on /\ \A v \in Trees \ {w} : stopped'[v] = stopped[v]
    BY <2>1 DEF TypeOK, NotStopped
  <2>3. \A b \in Refs : Moved(b)
    <3>1. CASE UNCHANGED tip
      BY <3>1 DEF Moved
    <3>2. CASE tip' = [tip EXCEPT ![head[w]] = stopped[w].result]
      <4>1. tip'[head[w]] = stopped[w].result /\ \A b \in Refs \ {head[w]} : tip'[b] = tip[b]
        BY <2>1, <3>2 DEF TypeOK
      <4>2. Finished(head[w])
        BY <2>1, <2>2, <4>1 DEF Finished
      <4>. QED
        BY <4>1, <4>2 DEF Moved
    <3>. QED
      BY <1>14, <3>1, <3>2 DEF FinishRebase
  <2>4. \A v \in Trees : TreeMoved(v)
    BY <2>1, <2>2 DEF TreeMoved
  <2>. QED
    BY <2>1, <2>3, <2>4 DEF TypeOK, Moves
<1>15. ASSUME NEW w \in Trees, NEW b \in Branches, Switch(w, b) PROVE Moves
  BY <1>15, HeadMoves DEF Switch
<1>16. ASSUME NEW w \in Trees, Detach(w) PROVE Moves
  BY <1>16, HeadMoves DEF Detach
<1>. QED
  BY <1>1, <1>2, <1>3, <1>4, <1>5, <1>6, <1>7, <1>8, <1>9, <1>10, <1>11, <1>12, <1>13, <1>14, <1>15,
     <1>16 DEF Next, Worker, User

-----------------------------------------------------------------------------
(* Types.                                                                  *)

\* What a moved branch is.
LEMMA MovedTypes ==
  ASSUME TypeOK, Moves, NEW b \in Refs
  PROVE  tip'[b] \in Seq(Changes)
<1>1. Targets \subseteq Refs
  BY GitAssumption DEF Refs
<1>2. CASE Rebased(b)
  BY <1>1, <1>2, ReplayedFacts DEF Rebased, TypeOK
<1>3. CASE Committed(b)
  BY <1>3 DEF Committed, TypeOK
<1>4. CASE Merged(b)
  <2>1. PICK s \in Refs : FastForwards(tip[b], tip[s]) /\ tip'[b] = Forwarded(tip[b], tip[s])
    BY <1>4 DEF Merged
  <2>2. tip[b] \in Seq(Changes) /\ tip[s] \in Seq(Changes)
    BY DEF TypeOK
  <2>. QED
    BY <2>1, <2>2, ForwardedFacts
<1>5. CASE Finished(b)
  BY <1>5 DEF Finished, TypeOK
<1>6. CASE tip'[b] = tip[b]
  BY <1>6 DEF TypeOK
<1>7. CASE Detaches(b)
  BY <1>7, EmptySeq DEF Detaches, TypeOK
<1>. QED
  BY <1>2, <1>3, <1>4, <1>5, <1>6, <1>7 DEF Moves, Moved

LEMMA TipTypes ==
  ASSUME TypeOK, GitInv', Moves
  PROVE  tip' \in [Refs -> Seq(Changes)]
BY MovedTypes DEF GitInv, Shape

\* What the worker touches besides branches keeps its type.
LEMMA LeavesTypes ==
  ASSUME TypeOK, pc # "idle", cur \in Entries,
         NEW s \in {"Queued", "NeedsHelp", "Merged", "Failed"}, Leaves(s)
  PROVE  /\ status' \in [Entries -> {"Fresh", "Queued", "Working", "NeedsHelp", "Merged", "Failed"}]
         /\ pc' = "idle" /\ cur' \in Entries \cup {NoEntry} /\ left' \in 0..Steps
         /\ wrote' \in BOOLEAN /\ seen' \subseteq [tip : Seq(Changes), clean : BOOLEAN]'
<1>1. wrote' \in BOOLEAN
  BY Zenon DEF Leaves
<1>. QED
  BY <1>1, GitAssumption DEF Leaves, TypeOK

LEMMA StoppedTypes ==
  ASSUME TypeOK, GitInv, RowInv, pc # "idle", StoppedRebase(entry[cur].tree)
  PROVE  stopped' \in [Trees -> [on : BOOLEAN, result : Seq(Changes)]]
<1>1. /\ entry[cur].tree \in Trees /\ entry[cur].target \in Refs
      /\ head[entry[cur].tree] \in Refs
  BY CurRow
<1>2. Replayed(tip[head[entry[cur].tree]], tip[entry[cur].target]) \in Seq(Changes)
  BY <1>1, ReplayedFacts DEF TypeOK
<1>. QED
  BY <1>1, <1>2 DEF StoppedRebase, TypeOK

LEMMA MergeTypes ==
  ASSUME TypeOK, GitInv, RowInv, pc # "idle", Merge
  PROVE  landed' \in [Entries -> [branch : Refs \cup {NoBranch}, tip : Seq(Changes),
                                  green : BOOLEAN]]
<1>1. /\ cur \in Entries /\ Resolved(entry[cur].source) \in Refs /\ head[Root] \in Refs
  BY CurRow, GitAssumption DEF TypeOK
<1>. QED
  BY <1>1 DEF Merge, TypeOK

LEMMA NextTypes ==
  ASSUME TypeOK, GitInv, RowInv, Next, tip' \in [Refs -> Seq(Changes)]
  PROVE  TypeOK'
<1> USE GitAssumption
<1>1. ASSUME NEW e \in Entries, Claim(e) PROVE TypeOK'
  BY <1>1 DEF Claim, gitVars, files, history, TypeOK
<1>2. CASE Precheck
  BY <1>2, CurRow, LeavesTypes DEF Precheck, gitVars, files, history, TypeOK
<1>3. CASE RebaseOk
  BY <1>3 DEF RebaseOk, RebaseSucceeds, files, history, TypeOK
<1>4. CASE RebaseConflict
  BY <1>4, CurRow, LeavesTypes, StoppedTypes DEF RebaseConflict, files, history, TypeOK
<1>5. CASE CiPasses
  <2>1. head[entry[cur].tree] \in Refs /\ left \in 1..Steps
    BY <1>5, CurRow DEF CiPasses, StepPasses, GitInv, CiInv, Shape
  <2>2. [tip |-> tip[head[entry[cur].tree]],
         clean |-> entry[cur].tree \in edited => wrote]
          \in [tip : Seq(Changes), clean : BOOLEAN]
    BY <2>1 DEF TypeOK
  <2>3. seen' \subseteq [tip : Seq(Changes), clean : BOOLEAN]
    BY <1>5, <2>2 DEF CiPasses, StepPasses, TypeOK
  <2>4. left' \in 0..Steps /\ pc' \in {"ci", "ff"}
    BY <1>5, <2>1 DEF CiPasses, StepPasses
  <2>5. edited' \subseteq Trees /\ untracked' \subseteq Trees /\ wrote' \in BOOLEAN
    BY <1>5, CurRow DEF CiPasses, StepPasses, Writes, TypeOK
  <2>. QED
    BY <1>5, <2>3, <2>4, <2>5 DEF CiPasses, StepPasses, history, TypeOK
<1>6. CASE CiFails
  BY <1>6, CurRow, LeavesTypes DEF CiFails, Writes, history, TypeOK
<1>7. CASE FastForwardOk
  BY <1>7, CurRow, LeavesTypes, MergeTypes DEF FastForwardOk, files, TypeOK
<1>8. CASE FastForwardRejected
  BY <1>8, CurRow, LeavesTypes DEF FastForwardRejected, gitVars, files, history, TypeOK
<1>9. CASE Interrupted
  <2>1. UNCHANGED <<head, made, entry, meddled>> /\ Leaves("Queued") /\ pc # "idle"
    BY <1>9 DEF Interrupted
  <2>2. landed' \in [Entries -> [branch : Refs \cup {NoBranch}, tip : Seq(Changes),
                                 green : BOOLEAN]]
    BY <1>9, MergeTypes DEF Interrupted, TypeOK
  <2>3. stopped' \in [Trees -> [on : BOOLEAN, result : Seq(Changes)]]
    BY <1>9, StoppedTypes DEF Interrupted, TypeOK
  <2>4. edited' \subseteq Trees /\ untracked' \subseteq Trees
    BY <1>9, CurRow DEF Interrupted, Writes, files, TypeOK
  <2>. QED
    BY <2>1, <2>2, <2>3, <2>4, CurRow, LeavesTypes DEF TypeOK
<1>10. ASSUME NEW e \in Entries, NEW w \in Trees, NEW t \in Targets, Enqueue(e, w, t) PROVE TypeOK'
  <2>1. /\ ToSet(tip[head[w]]) \subseteq Changes /\ t \in Branches
        /\ CurrentBranch(w) \in Branches \cup {HeadRef}
    BY InToSet DEF TypeOK, GitInv, HeadInv, CurrentBranch, Detached
  <2>. QED
    BY <1>10, <2>1 DEF Enqueue, gitVars, files, workerVars, history, TypeOK
<1>11. ASSUME NEW e \in Entries, Retry(e) PROVE TypeOK'
  BY <1>11 DEF Retry, gitVars, files, workerVars, history, TypeOK
<1>12. ASSUME NEW w \in Trees, Commit(w) PROVE TypeOK'
  BY <1>12 DEF Commit, files, workerVars, From, TypeOK
<1>13. ASSUME NEW w \in Trees, Edit(w) PROVE TypeOK'
  BY <1>13 DEF Edit, Toggled, workerVars, From, TypeOK
<1>14. ASSUME NEW w \in Trees, FinishRebase(w) PROVE TypeOK'
  BY <1>14, EmptySeq DEF FinishRebase, files, workerVars, history, NotStopped, TypeOK
<1>15. ASSUME NEW w \in Trees, NEW b \in Branches, Switch(w, b) PROVE TypeOK'
  BY <1>15 DEF Switch, files, workerVars, From, Refs, TypeOK
<1>16. ASSUME NEW w \in Trees, Detach(w) PROVE TypeOK'
  BY <1>16 DEF Detach, files, workerVars, From, Refs, TypeOK
<1>. QED
  BY <1>1, <1>2, <1>3, <1>4, <1>5, <1>6, <1>7, <1>8, <1>9, <1>10, <1>11, <1>12, <1>13, <1>14, <1>15,
     <1>16 DEF Next, Worker, User

-----------------------------------------------------------------------------
(* No history loses a change or has it twice.                              *)

LEMMA MovedOnce ==
  ASSUME TypeOK, OnceInv, Moves, NEW b \in Refs
  PROVE  IsInjective(tip'[b]) /\ ToSet(tip'[b]) \subseteq made'
<1>1. Targets \subseteq Refs
  BY GitAssumption DEF Refs
<1>2. \A d \in Refs : /\ tip[d] \in Seq(Changes)
                          /\ IsInjective(tip[d]) /\ ToSet(tip[d]) \subseteq made'
  BY DEF TypeOK, OnceInv, Moves
<1>3. CASE tip'[b] = tip[b]
  BY <1>2, <1>3
<1>4. CASE Rebased(b)
  <2>1. PICK t \in Targets : tip'[b] = Replayed(tip[b], tip[t])
    BY <1>4 DEF Rebased
  <2>. QED
    BY <1>1, <1>2, <2>1, ReplayedFacts
<1>5. CASE Committed(b)
  <2>1. PICK c \in Changes \ made : tip'[b] = Append(tip[b], c) /\ c \in made'
    BY <1>5 DEF Committed
  <2>2. c \notin ToSet(tip[b])
    BY <2>1 DEF OnceInv
  <2>. QED
    BY <1>2, <2>1, <2>2, AppendToSet
<1>6. CASE Merged(b)
  <2>1. PICK s \in Refs : FastForwards(tip[b], tip[s]) /\ tip'[b] = Forwarded(tip[b], tip[s])
    BY <1>6 DEF Merged
  <2>2. tip'[b] \in {tip[s], tip[b]}
    BY <1>2, <2>1, ForwardedFacts
  <2>. QED
    BY <1>2, <2>2
<1>7. CASE Finished(b)
  BY <1>7 DEF Finished, OnceInv, Moves
<1>8. CASE Detaches(b)
  <2>1. \A w \in Trees : head[w] \in Refs
    BY DEF TypeOK
  <2>2. IsInjective(<<>>) /\ ToSet(<<>>) = {}
    BY DEF IsInjective, ToSet
  <2>. QED
    BY <1>2, <1>8, <2>1, <2>2 DEF Detaches
<1>. QED
  BY <1>3, <1>4, <1>5, <1>6, <1>7, <1>8 DEF Moves, Moved

\* The result of a rebase that has just stopped.
LEMMA StopsOnce ==
  ASSUME TypeOK, OnceInv, Moves, NEW w \in Trees, Stops(w)
  PROVE  /\ IsInjective(stopped'[w].result) /\ ToSet(stopped'[w].result) \subseteq made'
         /\ ToSet(tip'[head'[w]]) \subseteq ToSet(stopped'[w].result)
<1>1. PICK t \in Targets : /\ UNCHANGED tip /\ head'[w] = head[w]
                           /\ stopped'[w].result = Replayed(tip[head[w]], tip[t])
  BY DEF Stops
<1>2. /\ head[w] \in Refs /\ t \in Refs
      /\ tip[head[w]] \in Seq(Changes) /\ tip[t] \in Seq(Changes)
  BY GitAssumption DEF Refs, TypeOK
<1>3. /\ IsInjective(tip[head[w]]) /\ IsInjective(tip[t])
      /\ ToSet(tip[head[w]]) \subseteq made' /\ ToSet(tip[t]) \subseteq made'
  BY <1>2 DEF OnceInv, Moves
<1>. QED
  BY <1>1, <1>2, <1>3, ReplayedFacts

LEMMA NextOnce ==
  ASSUME TypeOK, OnceInv, Moves
  PROVE  OnceInv'
<1>1. \A b \in Refs : IsInjective(tip'[b]) /\ ToSet(tip'[b]) \subseteq made'
  BY MovedOnce
<1>2. ASSUME NEW w \in Trees, stopped'[w].on
      PROVE  IsInjective(stopped'[w].result) /\ ToSet(stopped'[w].result) \subseteq made'
  <2>1. CASE stopped'[w] = stopped[w]
    BY <1>2, <2>1 DEF OnceInv, Moves
  <2>2. CASE Stops(w)
    BY <2>2, StopsOnce
  <2>. QED
    BY <1>2, <2>1, <2>2 DEF Moves, TreeMoved
<1>. QED
  BY <1>1, <1>2 DEF OnceInv

\* The branch of a stopped rebase stays as it is until the rebase is finished: every
\* other step that moves a branch moves one that is checked out in a worktree where no
\* rebase has stopped.
LEMMA StoppedStays ==
  ASSUME TypeOK, HeadInv, Moves, NEW w \in Trees, stopped[w].on, stopped'[w].on
  PROVE  stopped'[w] = stopped[w] /\ head'[w] = head[w] /\ tip'[head[w]] = tip[head[w]]
<1>1. stopped'[w] = stopped[w] /\ head'[w] = head[w]
  BY DEF Moves, TreeMoved, Stops
<1>2. head[w] \in Refs /\ Moved(head[w])
  BY DEF Moves, TypeOK
<1>3. ~Rebased(head[w]) /\ ~Committed(head[w]) /\ ~Finished(head[w]) /\ ~Detaches(head[w])
  BY GitAssumption DEF Rebased, Committed, Finished, Detaches, HeadInv
<1>4. ~Merged(head[w])
  BY GitAssumption DEF Merged, HeadInv
<1>. QED
  BY <1>1, <1>2, <1>3, <1>4 DEF Moved

LEMMA NextStop ==
  ASSUME TypeOK, HeadInv, OnceInv, StopInv, Moves
  PROVE  StopInv'
<1> SUFFICES ASSUME NEW w \in Trees, stopped'[w].on
             PROVE  ToSet(tip'[head'[w]]) \subseteq ToSet(stopped'[w].result)
  BY DEF StopInv
<1>1. CASE stopped[w].on
  BY <1>1, StoppedStays DEF StopInv
<1>2. CASE ~stopped[w].on
  <2>1. Stops(w)
    BY <1>2 DEF Moves, TreeMoved
  <2>. QED
    BY <2>1, StopsOnce
<1>. QED
  BY <1>1, <1>2

\* No step takes a change off a branch.
LEMMA BranchesKeep ==
  ASSUME TypeOK, StopInv, Moves, NEW b \in Branches
  PROVE  ToSet(tip[b]) \subseteq ToSet(tip'[b])
<1>1. Targets \subseteq Refs /\ Branches \subseteq Refs
  BY GitAssumption DEF Refs
<1>2. \A d \in Refs : tip[d] \in Seq(Changes)
  BY DEF TypeOK
<1>3. CASE tip'[b] = tip[b]
  BY <1>3
<1>4. CASE Rebased(b)
  <2>1. PICK t \in Targets : tip'[b] = Replayed(tip[b], tip[t])
    BY <1>4 DEF Rebased
  <2>. QED
    BY <1>1, <1>2, <2>1, ReplayedFacts
<1>5. CASE Committed(b)
  <2>1. PICK c \in Changes \ made : tip'[b] = Append(tip[b], c)
    BY <1>5 DEF Committed
  <2>. QED
    BY <1>1, <1>2, <2>1, AppendToSet
<1>6. CASE Merged(b)
  <2>1. PICK s \in Refs : FastForwards(tip[b], tip[s]) /\ tip'[b] = Forwarded(tip[b], tip[s])
    BY <1>6 DEF Merged
  <2>. QED
    BY <1>1, <1>2, <2>1, ForwardedFacts
<1>7. CASE Finished(b)
  BY <1>7 DEF Finished, StopInv
<1>8. ~Detaches(b)
  BY GitAssumption DEF Detaches
<1>. QED
  BY <1>1, <1>3, <1>4, <1>5, <1>6, <1>7, <1>8 DEF Moves, Moved

-----------------------------------------------------------------------------
(* What happens to an entry: nothing that matters to its work, its enqueuing, *)
(* or its fast-forward.                                                    *)

Rests(e) ==
  /\ entry'[e] = entry[e] /\ landed'[e] = landed[e]
  /\ status'[e] = "Fresh" <=> status[e] = "Fresh"
  /\ status'[e] = "Merged" => status[e] = "Merged"
Enqueued(e) == \E w \in Trees, t \in Targets :
  /\ entry'[e] = [tree |-> w, source |-> CurrentBranch(w), target |-> t, work |-> ToSet(tip[head[w]])]
  /\ status'[e] = "Queued" /\ UNCHANGED tip
Lands(e) ==
  /\ entry'[e] = entry[e] /\ status[e] = "Working"
  /\ landed'[e].branch = head[Root]
  /\ FastForwards(tip[head[Root]], tip[Resolved(entry[e].source)])
  /\ tip'[head[Root]] = Forwarded(tip[head[Root]], tip[Resolved(entry[e].source)])
EntryMoved(e) == Rests(e) \/ Enqueued(e) \/ Lands(e)

LEMMA LeavesRests ==
  ASSUME TypeOK, CurInv, pc # "idle", NEW s \in {"Queued", "NeedsHelp", "Failed"}, Leaves(s),
         UNCHANGED <<entry, landed>>, NEW e \in Entries
  PROVE  Rests(e)
BY DEF TypeOK, CurInv, Leaves, Rests

LEMMA MergeLands ==
  ASSUME TypeOK, CurInv, pc # "idle", NEW s \in {"Queued", "Merged"}, Leaves(s), Merge,
         UNCHANGED entry, NEW e \in Entries
  PROVE  EntryMoved(e)
<1>1. cur \in Entries /\ status[cur] = "Working" /\ head[Root] \in Refs
  BY GitAssumption DEF CurInv, TypeOK
<1>2. CASE e = cur
  BY <1>1, <1>2 DEF Merge, EntryMoved, Lands, TypeOK
<1>3. CASE e # cur
  BY <1>1, <1>3 DEF Merge, Leaves, EntryMoved, Rests, TypeOK
<1>. QED
  BY <1>2, <1>3

LEMMA NextEntry ==
  ASSUME TypeOK, CurInv, Next, NEW e \in Entries
  PROVE  EntryMoved(e)
<1>1. ASSUME NEW d \in Entries, Claim(d) PROVE Rests(e)
  BY <1>1 DEF Claim, history, Rests, TypeOK
<1>2. CASE Precheck
  BY <1>2, LeavesRests DEF Precheck, history, Rests, EntryMoved
<1>3. CASE RebaseOk
  BY <1>3 DEF RebaseOk, RebaseSucceeds, history, Rests, EntryMoved
<1>4. CASE RebaseConflict
  BY <1>4, LeavesRests DEF RebaseConflict, history, EntryMoved
<1>5. CASE CiPasses
  BY <1>5 DEF CiPasses, StepPasses, history, Rests, EntryMoved
<1>6. CASE CiFails
  BY <1>6, LeavesRests DEF CiFails, history, EntryMoved
<1>7. CASE FastForwardOk
  BY <1>7, MergeLands DEF FastForwardOk
<1>8. CASE FastForwardRejected
  BY <1>8, LeavesRests DEF FastForwardRejected, history, EntryMoved
<1>9. CASE Interrupted
  BY <1>9, LeavesRests, MergeLands DEF Interrupted, EntryMoved
<1>10. ASSUME NEW d \in Entries, NEW w \in Trees, NEW t \in Targets, Enqueue(d, w, t)
       PROVE  EntryMoved(e)
  <2>1. CASE e = d
    BY <1>10, <2>1 DEF Enqueue, gitVars, EntryMoved, Enqueued, TypeOK
  <2>2. CASE e # d
    BY <1>10, <2>2 DEF Enqueue, history, EntryMoved, Rests, TypeOK
  <2>. QED
    BY <2>1, <2>2
<1>11. ASSUME NEW d \in Entries, Retry(d) PROVE Rests(e)
  BY <1>11 DEF Retry, history, Rests, TypeOK
<1>12. ASSUME NEW w \in Trees, Commit(w) \/ Edit(w) \/ FinishRebase(w) \/ Detach(w) PROVE Rests(e)
  BY <1>12 DEF Commit, Edit, FinishRebase, Detach, history, Rests
<1>13. ASSUME NEW w \in Trees, NEW b \in Branches, Switch(w, b) PROVE Rests(e)
  BY <1>13 DEF Switch, Rests
<1>. QED
  BY <1>1, <1>2, <1>3, <1>4, <1>5, <1>6, <1>7, <1>8, <1>9, <1>10, <1>11, <1>12, <1>13
  DEF Next, Worker, User, EntryMoved

\* What an entry was enqueued with stays on its source branch.
LEMMA NextRow ==
  ASSUME TypeOK, HeadInv, StopInv, RowInv, Moves, \A e \in Entries : EntryMoved(e)
  PROVE  RowInv'
<1> SUFFICES ASSUME NEW e \in Entries, status'[e] # "Fresh"
             PROVE  /\ entry'[e].source \in Branches \cup {HeadRef} /\ entry'[e].target \in Targets
                    /\ entry'[e].source # HeadRef =>
                         entry'[e].work \subseteq ToSet(tip'[entry'[e].source])
  BY DEF RowInv
<1>1. CASE Enqueued(e)
  BY <1>1 DEF Enqueued, HeadInv, CurrentBranch, Detached
<1>2. CASE Rests(e) \/ Lands(e)
  <2>1. status[e] # "Fresh" /\ entry'[e] = entry[e]
    BY <1>2 DEF Rests, Lands
  <2>. QED
    BY <2>1, BranchesKeep DEF RowInv
<1>. QED
  BY <1>1, <1>2 DEF EntryMoved

\* ... and is on the branch to which it is merged.
LEMMA NextWork ==
  ASSUME TypeOK, StopInv, RowInv, Moves, NoWorkLost, \A e \in Entries : EntryMoved(e)
  PROVE  NoWorkLost'
<1> SUFFICES ASSUME NEW e \in Entries, status'[e] = "Merged"
             PROVE  /\ landed'[e].branch # NoBranch
                    /\ entry'[e].source # HeadRef /\ landed'[e].branch \in Branches =>
                         entry'[e].work \subseteq ToSet(tip'[landed'[e].branch])
  BY DEF NoWorkLost
<1>1. CASE Rests(e)
  <2>1. /\ landed'[e] = landed[e] /\ entry'[e] = entry[e]
        /\ landed[e].branch # NoBranch
        /\ entry[e].source # HeadRef /\ landed[e].branch \in Branches =>
             entry[e].work \subseteq ToSet(tip[landed[e].branch])
    BY <1>1 DEF Rests, NoWorkLost
  <2>. QED
    BY <2>1, BranchesKeep
<1>2. CASE Lands(e)
  <2>1. head[Root] \in Refs /\ landed'[e].branch = head[Root] /\ entry'[e] = entry[e]
    BY <1>2, GitAssumption DEF Lands, TypeOK
  <2>2. ASSUME entry[e].source # HeadRef
        PROVE  entry[e].work \subseteq ToSet(tip'[head[Root]])
    <3>1. /\ entry[e].source \in Refs /\ Resolved(entry[e].source) = entry[e].source
          /\ entry[e].work \subseteq ToSet(tip[entry[e].source])
      BY <1>2, <2>2 DEF Lands, RowInv, Refs, Resolved
    <3>2. tip[head[Root]] \in Seq(Changes) /\ tip[entry[e].source] \in Seq(Changes)
      BY <2>1, <3>1 DEF TypeOK
    <3>3. ToSet(tip[entry[e].source]) \subseteq ToSet(tip'[head[Root]])
      BY <1>2, <3>1, <3>2, ForwardedFacts DEF Lands
    <3>. QED
      BY <3>1, <3>3
  <2>3. head[Root] # NoBranch
    BY <2>1, GitAssumption DEF Refs
  <2>. QED
    BY <2>1, <2>2, <2>3
<1>. QED
  BY <1>1, <1>2 DEF EntryMoved, Enqueued

-----------------------------------------------------------------------------
(* The theorems on branches.                                               *)

BranchInv == TypeOK /\ RowInv /\ OnceInv /\ StopInv /\ NoWorkLost

LEMMA InitBranch ==
  ASSUME Init
  PROVE  BranchInv
<1>1. TypeOK
  <2>1. wrote \in BOOLEAN
    BY Zenon DEF Init
  <2>2. head \in [Trees -> Refs]
    BY GitAssumption DEF Init, Refs
  <2>. QED
    BY <2>1, <2>2, GitAssumption, EmptySeq DEF Init, TypeOK, NotStopped, NoRow, NotLanded
<1>2. RowInv /\ OnceInv /\ StopInv /\ NoWorkLost
  BY DEF Init, RowInv, OnceInv, StopInv, NoWorkLost, NotStopped, ToSet, IsInjective
<1>. QED
  BY <1>1, <1>2 DEF BranchInv

LEMMA NextBranch ==
  ASSUME GitInv, GitInv', BranchInv, Next
  PROVE  BranchInv'
<1>1. Moves
  BY NextMoves DEF BranchInv
<1>2. \A e \in Entries : EntryMoved(e)
  BY NextEntry DEF GitInv, BranchInv
<1>3. TypeOK'
  BY <1>1, TipTypes, NextTypes DEF BranchInv
<1>4. OnceInv' /\ StopInv'
  BY <1>1, NextOnce, NextStop DEF GitInv, BranchInv
<1>5. RowInv' /\ NoWorkLost'
  BY <1>1, <1>2, NextRow, NextWork DEF GitInv, BranchInv
<1>. QED
  BY <1>3, <1>4, <1>5 DEF BranchInv

LEMMA StutterBranch ==
  ASSUME BranchInv, UNCHANGED vars
  PROVE  BranchInv'
BY DEF BranchInv, vars, gitVars, files, workerVars, history, TypeOK, RowInv, OnceInv, StopInv,
       NoWorkLost

\* Branches, rebases under way and rows stay in step.
THEOREM BranchInductive == Spec => []BranchInv
<1>1. Init => BranchInv
  BY InitBranch
<1>2. GitInv /\ GitInv' /\ BranchInv /\ [Next]_vars => BranchInv'
  BY NextBranch, StutterBranch
<1>. QED
  BY <1>1, <1>2, GitInductive, PTL DEF Spec

\* The state keeps its types: in particular CI has not run more steps than are
\* configured, and what is on a branch are changes somebody has committed
\* (engine/shell.rs, git/process_git.rs).
THEOREM TypesStay == Spec => []TypeOK
<1>1. BranchInv => TypeOK
  BY DEF BranchInv
<1>. QED
  BY <1>1, BranchInductive, PTL

\* No change is on a target twice, although an entry may be merged again after its
\* process died, and two entries may bring the same changes (git/process_git.rs:
\* rebase_onto, fast_forward; engine/worker.rs).
THEOREM ChangesLandOnce == Spec => []LandsOnce
<1>1. BranchInv => LandsOnce
  BY GitAssumption DEF BranchInv, OnceInv, LandsOnce, Refs
<1>. QED
  BY <1>1, BranchInductive, PTL

\* What an entry was enqueued with from a branch is on the branch it was merged to,
\* through conflicts, aborted and finished rebases, retries and restarts; of an entry
\* enqueued from a detached HEAD nothing is said (cli/commands/enqueue.rs).
THEOREM WorkIsKept == Spec => []NoWorkLost
<1>1. BranchInv => NoWorkLost
  BY DEF BranchInv
<1>. QED
  BY <1>1, BranchInductive, PTL

-----------------------------------------------------------------------------
(* The target branch.                                                      *)

\* While there is one target, no rebase stops on it: onto itself, a rebase has
\* nothing to do.
LEMMA NextTarget ==
  ASSUME OneTarget, TypeOK, HeadInv, TargetInv, Moves
  PROVE  TargetInv'
<1> SUFFICES ASSUME NEW w \in Trees, stopped'[w].on PROVE head'[w] \notin Targets
  BY DEF TargetInv
<1>1. CASE stopped[w].on
  BY <1>1, StoppedStays DEF TargetInv
<1>2. CASE ~stopped[w].on
  <2>1. Stops(w)
    BY <1>2 DEF Moves, TreeMoved
  <2>2. PICK t \in Targets : /\ head'[w] = head[w]
                             /\ Replayed(tip[head[w]], tip[t]) # tip[head[w]]
    BY <2>1 DEF Stops
  <2>3. head[w] # t
    BY <2>2, ReplayedFacts DEF TypeOK
  <2>. QED
    BY <2>2, <2>3 DEF OneTarget
<1>. QED
  BY <1>1, <1>2

LEMMA TargetGrows ==
  ASSUME OneTarget, TypeOK, TargetInv, Moves, NEW b \in Targets
  PROVE  IsPrefix(tip[b], tip'[b])
<1>1. b \in Refs /\ tip[b] \in Seq(Changes)
  BY GitAssumption DEF Refs, TypeOK
<1>2. IsPrefix(tip[b], tip[b])
  BY <1>1, PrefixFacts
<1>3. CASE tip'[b] = tip[b]
  BY <1>2, <1>3
<1>4. CASE Rebased(b)
  <2>1. PICK t \in Targets : tip'[b] = Replayed(tip[b], tip[t])
    BY <1>4 DEF Rebased
  <2>2. tip'[b] = tip[b]
    BY <1>1, <2>1, ReplayedFacts DEF OneTarget
  <2>. QED
    BY <1>2, <2>2
<1>5. CASE Committed(b)
  BY <1>1, <1>5, PrefixFacts DEF Committed
<1>6. CASE Merged(b)
  <2>1. PICK s \in Refs : FastForwards(tip[b], tip[s]) /\ tip'[b] = Forwarded(tip[b], tip[s])
    BY <1>6 DEF Merged
  <2>2. tip[s] \in Seq(Changes)
    BY DEF TypeOK
  <2>. QED
    BY <1>1, <2>1, <2>2, ForwardedFacts
<1>7. CASE Finished(b)
  BY <1>7 DEF Finished, TargetInv
<1>8. ~Detaches(b)
  BY GitAssumption DEF Detaches
<1>. QED
  BY <1>1, <1>3, <1>4, <1>5, <1>6, <1>7, <1>8 DEF Moves, Moved

LEMMA StutterTarget ==
  ASSUME UNCHANGED vars, TypeOK
  PROVE  /\ TargetInv => TargetInv'
         /\ \A t \in Targets : IsPrefix(tip[t], tip'[t])
<1>1. TargetInv => TargetInv'
  BY DEF vars, gitVars, TargetInv
<1>2. \A t \in Targets : IsPrefix(tip[t], tip'[t])
  <2> TAKE t \in Targets
  <2>1. tip[t] \in Seq(Changes) /\ tip' = tip
    BY GitAssumption DEF vars, gitVars, Refs, TypeOK
  <2>. QED
    BY <2>1, PrefixFacts
<1>. QED
  BY <1>1, <1>2

\* The history of the only target is extended and never rewritten, whatever the
\* engine, the user and the agent do in whatever order and wherever the engine is
\* killed, even if a source worktree has it checked out (git/process_git.rs).
THEOREM TargetIsNeverRewritten ==
  ASSUME OneTarget
  PROVE  Spec => TargetsOnlyGrow
<1>1. Init => TargetInv
  BY DEF Init, TargetInv, NotStopped
<1>2. GitInv /\ BranchInv /\ TargetInv /\ [Next]_vars =>
        TargetInv' /\ \A t \in Targets : IsPrefix(tip[t], tip'[t])
  <2> SUFFICES ASSUME GitInv, BranchInv, TargetInv, [Next]_vars
               PROVE  TargetInv' /\ \A t \in Targets : IsPrefix(tip[t], tip'[t])
    OBVIOUS
  <2>1. CASE Next
    <3>1. Moves /\ TypeOK /\ HeadInv
      BY <2>1, NextMoves DEF GitInv, BranchInv
    <3>2. TargetInv'
      BY <3>1, NextTarget
    <3>3. \A t \in Targets : IsPrefix(tip[t], tip'[t])
      BY <3>1, TargetGrows
    <3>. QED
      BY <3>2, <3>3
  <2>2. CASE UNCHANGED vars
    BY <2>2, StutterTarget DEF BranchInv
  <2>. QED
    BY <2>1, <2>2
<1>3. GitInv /\ BranchInv /\ TargetInv /\ [Next]_vars =>
        [\A t \in Targets : IsPrefix(tip[t], tip'[t])]_vars
  BY <1>2
<1>. QED
  BY <1>1, <1>2, <1>3, GitInductive, BranchInductive, PTL DEF Spec, TargetsOnlyGrow
=============================================================================
