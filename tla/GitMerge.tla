------------------------------ MODULE GitMerge ------------------------------
(***************************************************************************)
(* What a worker does to a repository through git/process_git.rs, and what *)
(* the user and the conflict agent do to the same worktrees meanwhile.     *)
(*                                                                         *)
(* A branch is the sequence of the changes on it, so two commits are equal *)
(* when they have the same content and history; a rebase replays the       *)
(* changes the upstream does not have.  A worktree has a branch checked    *)
(* out or its HEAD is detached, it may hold uncommitted edits of tracked   *)
(* files and untracked files, and it may be stopped in the middle of a     *)
(* rebase.  One worker is modelled: worktrees of different repositories    *)
(* are disjoint.  Claims, rows and crashes are those of MergeEngine,       *)
(* reduced to a status per entry.                                          *)
(***************************************************************************)
EXTENDS Naturals, SequencesExt, Filters

CONSTANTS
  Entries,    (* queue entries                                              *)
  Trees,      (* worktrees of the repository                                *)
  Root,       (* the registered one: RegisteredRepo.root_path               *)
  Branches,   (* branches                                                   *)
  Targets,    (* those an entry may name as its target_branch               *)
  InitHead,   (* the branch every worktree has checked out at first         *)
  Changes,    (* the changes people may commit: bounds the model            *)
  Steps,      (* how many CI steps are configured                           *)
  UserMay,    (* what the user does besides working in worktrees nothing    *)
              (* waits for: "root": work in the registered worktree;        *)
              (* "disturb": in those of waiting entries; "switch": check    *)
              (* out other branches; "switchRoot": only in the registered   *)
              (* worktree; "detach": detach HEAD; "files": edit files and   *)
              (* leave untracked ones in source worktrees; "rootFiles": in  *)
              (* the registered one; "rootEntry": enqueue from that one     *)
  CiWrites,   (* whether CI steps may leave files behind                    *)
  HeadRef,    (* "HEAD", what `git rev-parse --abbrev-ref HEAD` calls a     *)
              (* detached HEAD                                              *)
  NoEntry, NoBranch

ASSUME GitAssumption ==
  /\ Root \in Trees /\ Targets \subseteq Branches /\ Steps \in Nat
  /\ InitHead \in [Trees -> Branches]
  /\ \A v, w \in Trees : InitHead[v] = InitHead[w] => v = w
  /\ CiWrites \in BOOLEAN
  /\ Trees \cap Branches = {}
  /\ NoEntry \notin Entries /\ NoBranch \notin Branches \cup Trees
  /\ HeadRef \notin Branches /\ HeadRef # NoBranch

\* What a commit can be known by: a branch, or the detached HEAD of a worktree.
Refs == Branches \cup Trees

VARIABLES
  tip,      (* ref -> its changes, oldest first                             *)
  head,     (* worktree -> checked-out branch, or itself if detached        *)
  edited,   (* worktrees with uncommitted edits of tracked files            *)
  untracked, (* worktrees with untracked files that are not ignored         *)
  stopped,  (* worktree -> result of the rebase it is stopped in            *)
  made,     (* the changes committed so far                                 *)
  entry,    (* the rows: source_worktree, source_branch, target_branch      *)
  status,   (* their status, "Working" for the three in-flight ones         *)
  pc, cur,  (* the worker: where it is and with which entry                 *)
  left,     (* CI steps still to run                                        *)
  wrote,    (* CI has edited tracked files since the rebase                 *)
  seen,     (* history: what the CI steps passed since the rebase ran on    *)
  landed,   (* history: what was fast-forwarded for an entry, and where to  *)
  meddled   (* history: the entries in whose worktree the user worked while *)
            (* they waited, or switched branches                            *)

files      == <<edited, untracked>>
gitVars    == <<tip, head, files, stopped, made>>
workerVars == <<pc, cur, left, wrote, seen>>
history == <<landed, meddled>>
vars == <<gitVars, entry, status, workerVars, history>>

NotStopped == [on |-> FALSE, result |-> <<>>]
NoRow   == [tree |-> Root, source |-> NoBranch, target |-> NoBranch, work |-> {}]
NotLanded == [branch |-> NoBranch, tip |-> <<>>, green |-> FALSE]

TypeOK ==
  /\ tip \in [Refs -> Seq(Changes)]
  /\ head \in [Trees -> Refs]
  /\ edited \subseteq Trees /\ untracked \subseteq Trees
  /\ stopped \in [Trees -> [on : BOOLEAN, result : Seq(Changes)]]
  /\ made \subseteq Changes
  /\ entry \in [Entries -> [tree : Trees, source : Branches \cup {HeadRef, NoBranch},
                            target : Branches \cup {NoBranch}, work : SUBSET Changes]]
  /\ status \in [Entries -> {"Fresh", "Queued", "Working", "NeedsHelp", "Merged", "Failed"}]
  /\ pc \in {"idle", "precheck", "rebase", "ci", "ff"}
  /\ cur \in Entries \cup {NoEntry}
  /\ left \in 0..Steps /\ wrote \in BOOLEAN
  /\ seen \subseteq [tip : Seq(Changes), clean : BOOLEAN]
  /\ landed \in [Entries -> [branch : Refs \cup {NoBranch}, tip : Seq(Changes),
                             green : BOOLEAN]]
  /\ meddled \subseteq Entries

Init ==
  /\ tip = [b \in Refs |-> <<>>]
  /\ head = InitHead
  /\ edited = {} /\ untracked = {} /\ made = {}
  /\ stopped = [w \in Trees |-> NotStopped]
  /\ entry = [e \in Entries |-> NoRow]
  /\ status = [e \in Entries |-> "Fresh"]
  /\ pc = "idle" /\ cur = NoEntry /\ left = 0 /\ wrote = FALSE /\ seen = {}
  /\ landed = [e \in Entries |-> NotLanded] /\ meddled = {}

-----------------------------------------------------------------------------
(* git, as the program calls it.                                           *)

\* worktree_is_dirty: `git status --porcelain` lists untracked files too; a stopped
\* rebase has unmerged or staged files.
Dirty(w) == w \in edited \cup untracked \/ stopped[w].on

\* What `git rebase` refuses to start in: untracked files do not matter to it.
Refuses(w) == w \in edited \/ stopped[w].on

Detached(w) == head[w] = w

\* current_branch: what `git rev-parse --abbrev-ref HEAD` prints.
CurrentBranch(w) == IF Detached(w) THEN HeadRef ELSE head[w]

\* What git makes of a row's source_branch in the registered worktree.
Resolved(source) == IF source = HeadRef THEN head[Root] ELSE source

\* A branch is in use by the worktree that has it checked out, or is rebasing it.
InUse(b) == \E w \in Trees : head[w] = b

\* Mutant: every change is replayed, those of the target included.
ReplayedAll(s, onto) == onto \o s

\* `git rebase <onto>` of the history s: the changes of s that onto lacks.
Replayed(s, onto) == onto \o Kept(s, ToSet(s) \ ToSet(onto))

\* Mutant: a refusal counts as success.
FastForwardsAlways(t, s) == TRUE
\* fast_forward: `git merge --ff-only` succeeds if one is an ancestor of the
\* other, and moves the branch if that is the target.
FastForwards(t, s) == IsPrefix(t, s) \/ IsPrefix(s, t)
\* Mutant: without --ff-only, as a reset to the source.
ForwardedByReset(t, s) == s
Forwarded(t, s) == IF IsPrefix(t, s) THEN s ELSE t

-----------------------------------------------------------------------------
(* The worker.                                                             *)

\* The entry leaves the worker with a new status.
Leaves(s) ==
  /\ status' = [status EXCEPT ![cur] = s]
  /\ pc' = "idle" /\ cur' = NoEntry /\ left' = 0 /\ wrote' = FALSE /\ seen' = {}

Claim(e) ==
  /\ pc = "idle" /\ status[e] = "Queued"
  /\ status' = [status EXCEPT ![e] = "Working"]
  /\ pc' = "precheck" /\ cur' = e
  /\ UNCHANGED <<gitVars, entry, left, wrote, seen, history>>

\* run_precheck: a dirty target sends the entry back to the queue.
Precheck ==
  /\ pc = "precheck"
  /\ IF Dirty(Root) THEN Leaves("Queued")
     ELSE pc' = "rebase" /\ UNCHANGED <<status, cur, left, wrote, seen>>
  /\ UNCHANGED <<gitVars, entry, history>>

\* The rebase rewrites whatever the source worktree has checked out by now.
Rebases(w) == tip' = [tip EXCEPT ![head[w]] = Replayed(@, tip[entry[cur].target])]

\* run_rebase calls git without looking at the worktree first.
RebaseSucceeds(refused) ==
  /\ pc = "rebase" /\ ~refused
  /\ Rebases(entry[cur].tree)
  /\ pc' = IF Steps = 0 THEN "ff" ELSE "ci"
  /\ left' = Steps
  /\ UNCHANGED <<head, files, stopped, made, entry, status, cur, wrote, seen, history>>

\* Mutant: edits do not stop a rebase, as with --autostash.
RebaseOkWithEdits == RebaseSucceeds(stopped[entry[cur].tree].on)

RebaseOk == RebaseSucceeds(Refuses(entry[cur].tree))

\* What a rebase leaves behind that stops for a conflict or is killed.
StoppedRebase(w) ==
  LET onto == tip[entry[cur].target]
      result == Replayed(tip[head[w]], onto)
  IN  /\ ~Refuses(w) /\ result \notin {tip[head[w]], onto}
      /\ stopped' = [stopped EXCEPT ![w] = [on |-> TRUE, result |-> result]]

\* RebaseConflict: run_rebase reports a conflict and any other failure (edits,
\* a rebase already in progress, a lock file) alike, and never aborts.
RebaseConflict ==
  /\ pc = "rebase"
  /\ \/ StoppedRebase(entry[cur].tree)
     \/ UNCHANGED stopped
  /\ Leaves("NeedsHelp")
  /\ UNCHANGED <<tip, head, files, made, entry, history>>

\* What a CI step leaves in its worktree: the command is the user's.
Writes(w) ==
  /\ edited' \in {edited} \cup IF CiWrites THEN {edited \cup {w}} ELSE {}
  /\ untracked' \in {untracked} \cup IF CiWrites THEN {untracked \cup {w}} ELSE {}

\* A step is run in worktree w; the fast-forward comes when `last` are left.  It is
\* clean if nobody but the CI steps since the rebase has edited tracked files there.
StepPasses(w, last) ==
  /\ pc = "ci"
  /\ seen' = seen \cup {[tip |-> tip[head[w]], clean |-> w \in edited => wrote]}
  /\ Writes(w) /\ wrote' = (wrote \/ edited' # edited)
  /\ left' = left - 1
  /\ pc' = IF left = last THEN "ff" ELSE "ci"
  /\ UNCHANGED <<tip, head, stopped, made, entry, status, cur, history>>

\* Mutant: one step too many is run.
CiPassesOnceMore == StepPasses(entry[cur].tree, 0)

\* A CI step runs on the files of the source worktree as they are now.
CiPasses == StepPasses(entry[cur].tree, 1)

CiFails ==
  /\ pc = "ci"
  /\ Leaves("Failed") /\ Writes(entry[cur].tree)
  /\ UNCHANGED <<tip, head, stopped, made, entry, history>>

\* run_fast_forward: the registered worktree's HEAD takes the source branch as
\* it is now; "HEAD" is the HEAD of the registered worktree itself.
Merge ==
  LET t == head[Root]  s == tip[Resolved(entry[cur].source)]
  IN  /\ ~stopped[Root].on /\ FastForwards(tip[t], s)
      /\ tip' = [tip EXCEPT ![t] = Forwarded(@, s)]
      /\ landed' = [landed EXCEPT ![cur] =
                      [branch |-> t, tip |-> s,
                       green |-> seen = IF Steps = 0 THEN {} ELSE {[tip |-> s, clean |-> TRUE]}]]

FastForwardOk ==
  /\ pc = "ff"
  /\ Merge
  /\ Leaves("Merged")
  /\ UNCHANGED <<head, files, stopped, made, entry, meddled>>

\* Not a fast-forward, or git fails for any other reason.
FastForwardRejected ==
  /\ pc = "ff"
  /\ Leaves("Failed")
  /\ UNCHANGED <<gitVars, entry, history>>

\* The process dies, or the worker is told to stop: release() or the next
\* startup sweep puts the entry back.  A git command that was running may have
\* stopped half way or finished unnoticed.
Interrupted ==
  /\ pc # "idle"
  /\ \/ UNCHANGED <<tip, stopped, files, landed>>
     \/ pc = "rebase" /\ StoppedRebase(entry[cur].tree) /\ UNCHANGED <<tip, files, landed>>
     \/ /\ pc = "rebase" /\ ~Refuses(entry[cur].tree) /\ Rebases(entry[cur].tree)
        /\ UNCHANGED <<stopped, files, landed>>
     \/ pc = "ci" /\ Writes(entry[cur].tree) /\ UNCHANGED <<tip, stopped, landed>>
     \/ pc = "ff" /\ Merge /\ UNCHANGED <<stopped, files>>
  /\ Leaves("Queued")
  /\ UNCHANGED <<head, made, entry, meddled>>

Worker ==
  \/ \E e \in Entries : Claim(e)
  \/ Precheck \/ RebaseOk \/ RebaseConflict \/ CiPasses \/ CiFails
  \/ FastForwardOk \/ FastForwardRejected \/ Interrupted

-----------------------------------------------------------------------------
(* The user, CLI commands, and the agent in a stopped worktree.            *)

\* `mergequeue enqueue [--target t]` from worktree w: of a detached HEAD, the row
\* has the name.
Enqueue(e, w, t) ==
  /\ status[e] = "Fresh"
  /\ w # Root \/ "rootEntry" \in UserMay
  /\ CurrentBranch(w) # t /\ ~Dirty(w)
  /\ entry' = [entry EXCEPT ![e] = [tree |-> w, source |-> CurrentBranch(w), target |-> t,
                                    work |-> ToSet(tip[head[w]])]]
  /\ status' = [status EXCEPT ![e] = "Queued"]
  /\ UNCHANGED <<gitVars, workerVars, history>>

Retry(e) ==
  /\ status[e] \in {"Failed", "NeedsHelp"}
  /\ status' = [status EXCEPT ![e] = "Queued"]
  /\ UNCHANGED <<gitVars, entry, workerVars, history>>

Waiting(w) == \E e \in Entries : entry[e].tree = w /\ status[e] \in {"Queued", "Working"}
WorksIn(w) ==
  /\ w = Root => "root" \in UserMay
  /\ Waiting(w) => "disturb" \in UserMay

\* The entries enqueued from w, as long as they may still be merged.
From(w) == {e \in Entries : entry[e].tree = w /\ status[e] \notin {"Fresh", "Merged"}}

Commit(w) ==
  /\ WorksIn(w) /\ ~stopped[w].on
  /\ \E c \in Changes \ made :
       /\ tip' = [tip EXCEPT ![head[w]] = Append(@, c)]
       /\ made' = made \cup {c}
  /\ meddled' = IF Waiting(w) THEN meddled \cup From(w) ELSE meddled
  /\ UNCHANGED <<head, files, stopped, entry, status, workerVars, landed>>

\* Files are edited, added, restored, stashed or removed.
Toggled(trees, w) == IF w \in trees THEN trees \ {w} ELSE trees \cup {w}
Edit(w) ==
  /\ WorksIn(w) /\ (IF w = Root THEN "rootFiles" ELSE "files") \in UserMay
  /\ \/ edited' = Toggled(edited, w) /\ UNCHANGED untracked
     \/ untracked' = Toggled(untracked, w) /\ UNCHANGED edited
  /\ meddled' = IF Waiting(w) THEN meddled \cup From(w) ELSE meddled
  /\ UNCHANGED <<tip, head, stopped, made, entry, status, workerVars, landed>>

\* `git switch`: another branch, or the same commit without one; files stay.
\* A detached HEAD that is left is forgotten.
Switch(w, b) ==
  /\ ("switch" \in UserMay) \/ (w = Root /\ "switchRoot" \in UserMay)
  /\ WorksIn(w) /\ ~stopped[w].on /\ ~InUse(b)
  /\ head' = [head EXCEPT ![w] = b]
  /\ tip' = [tip EXCEPT ![w] = <<>>]
  /\ meddled' = meddled \cup From(w)
  /\ UNCHANGED <<files, stopped, made, entry, status, workerVars, landed>>

Detach(w) ==
  /\ "detach" \in UserMay
  /\ WorksIn(w) /\ ~stopped[w].on
  /\ head' = [head EXCEPT ![w] = w]
  /\ tip' = [tip EXCEPT ![w] = tip[head[w]]]
  /\ meddled' = meddled \cup From(w)
  /\ UNCHANGED <<files, stopped, made, entry, status, workerVars, landed>>

\* `git rebase --continue` to the end, or `git rebase --abort`.
FinishRebase(w) ==
  /\ stopped[w].on
  /\ \/ tip' = [tip EXCEPT ![head[w]] = stopped[w].result]
     \/ UNCHANGED tip
  /\ stopped' = [stopped EXCEPT ![w] = NotStopped]
  /\ UNCHANGED <<head, files, made, entry, status, workerVars, history>>

User ==
  \/ \E e \in Entries, w \in Trees, t \in Targets : Enqueue(e, w, t)
  \/ \E e \in Entries : Retry(e)
  \/ \E w \in Trees : Commit(w) \/ Edit(w) \/ FinishRebase(w) \/ Detach(w)
  \/ \E w \in Trees, b \in Branches : Switch(w, b)

Next == Worker \/ User

Spec == Init /\ [][Next]_vars

-----------------------------------------------------------------------------
(* Properties.                                                             *)

\* The target branch is never rewritten, if it is the only target: whatever the
\* engine, the user and the agent do in whatever order, and wherever the engine is
\* killed, its history is only extended, even if a source worktree has it checked
\* out (rebase_onto works on sources, `merge --ff-only` on targets).
TargetsOnlyGrow ==
  [][\A t \in Targets : IsPrefix(tip[t], tip'[t])]_vars

\* No change is on a target twice, although an entry may be merged by a process
\* that dies before it records that and be merged again after the restart, and
\* two entries may bring the same changes.
LandsOnce == \A t \in Targets : IsInjective(tip[t])

\* What an entry was enqueued with from a branch is on the branch it was merged to,
\* through conflicts, aborted and finished rebases, failures, retries and restarts.
\* (If the registered worktree is detached itself, there is no such branch.)
NoWorkLost ==
  \A e \in Entries : status[e] = "Merged" =>
    /\ landed[e].branch # NoBranch
    /\ entry[e].source # HeadRef /\ landed[e].branch \in Branches =>
         entry[e].work \subseteq ToSet(tip[landed[e].branch])

\* What is fast-forwarded for a branch is, change by change, what every configured CI
\* step had checked out when it passed, and tracked files had no edits but those of the
\* CI steps themselves, if the user has left the worktree of the entry alone while it
\* waited and has not switched branches in it.  Whatever he edits, leaves behind or
\* commits there while it is Failed or NeedsHelp, retried by then or not, does not
\* count.  (CI runs in the source worktree, the fast-forward resolves the branch name
\* again, and nothing looks at the worktree between the two.)
LandsWhatCiPassed ==
  \A e \in Entries \ meddled :
    landed[e].branch # NoBranch /\ entry[e].source # HeadRef => landed[e].green

\* The engine merges to the target_branch of the entry.
LandsOnTarget ==
  \A e \in Entries : status[e] = "Merged" => landed[e].branch = entry[e].target
=============================================================================
