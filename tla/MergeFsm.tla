------------------------------ MODULE MergeFsm ------------------------------
(***************************************************************************)
(* The merge-queue state machine of core/state_machine.rs and the          *)
(* enumerations of core/queue.rs it works on.  Everything here is a pure   *)
(* operator: `transition` does no I/O, and neither does Transition.  A     *)
(* RepoCiConfig is represented by the set of CI steps that have a command  *)
(* configured; the commands themselves and dirty_retry do not influence    *)
(* the routing.                                                            *)
(***************************************************************************)

CiSteps == {"lint", "test", "build"}

\* QueueStatus.  "Fresh" and "Deleted" are not statuses of the program: they
\* stand for an id that has no row yet and for one whose row was deleted.
InFlight == {"Rebasing", "CIRunning", "Merging"}
Terminal == {"Merged", "Failed", "Cancelled"}
QueueStatus == {"Queued", "NeedsHelp"} \cup InFlight \cup Terminal
RowStatus == QueueStatus \cup {"Fresh", "Deleted"}

NoOutcome == "NoOutcome"
StepOutcome == {"PrecheckOk", "PrecheckDirtyTarget", "RebaseOk", "RebaseConflict",
                "LintPassed", "LintFailed", "TestPassed", "TestFailed",
                "BuildPassed", "BuildFailed", "FastForwardOk", "FastForwardRejected",
                "AgentResolvedConflict", "UserCancelled"}

NoReason == "NoReason"
MergeFailureReason == {"TargetWorktreeDirty", "RebaseUnresolvable", "CILintFailed",
                       "CITestsFailed", "CIBuildFailed", "FastForwardFailed",
                       "WorktreeGone", "UserCancelled", "UncleanShutdown"}

-----------------------------------------------------------------------------
(***************************************************************************)
(* NextAction.  `terminal` and `reason` are the payload of Finalize(t) and *)
(* are padding for every other action.  "Panic" is the panic! of the last  *)
(* match arm.                                                              *)
(***************************************************************************)
NextAction == [act : {"Rebase", "RunLint", "RunTest", "RunBuild", "FastForward",
                      "HandoffToAgent", "Sleep", "Finalize", "Panic"},
               terminal : QueueStatus,
               reason   : MergeFailureReason \cup {NoReason}]

Do(a) == [act |-> a, terminal |-> "Queued", reason |-> NoReason]
\* Mutant: status and reason exchanged.
FinalizeSwapped(s, r) == [act |-> "Finalize", terminal |-> r, reason |-> s]
Finalize(s, r) == [act |-> "Finalize", terminal |-> s, reason |-> r]

\* The next CI step that is configured, or FastForward if none is left.
AfterTest(ci) == IF "build" \in ci THEN Do("RunBuild") ELSE Do("FastForward")
\* Mutant: the configured tests are skipped.
AfterLintSkipsTest(ci) == AfterTest(ci)
AfterLint(ci) == IF "test" \in ci THEN Do("RunTest") ELSE AfterTest(ci)
FirstCiStep(ci) == IF "lint" \in ci THEN Do("RunLint") ELSE AfterLint(ci)

\* fn transition(current, outcome, cfg), arm by arm.
Transition(current, outcome, ci) ==
  CASE outcome = "UserCancelled" -> Finalize("Cancelled", NoReason)
    [] current = "Queued" /\ outcome = "PrecheckOk" -> Do("Rebase")
    [] current = "Queued" /\ outcome = "PrecheckDirtyTarget" -> Do("Sleep")
    [] current = "Rebasing" /\ outcome = "RebaseOk" -> FirstCiStep(ci)
    [] current = "Rebasing" /\ outcome = "RebaseConflict" -> Do("HandoffToAgent")
    [] current = "CIRunning" /\ outcome = "LintPassed" -> AfterLint(ci)
    [] current = "CIRunning" /\ outcome = "LintFailed" -> Finalize("Failed", "CILintFailed")
    [] current = "CIRunning" /\ outcome = "TestPassed" -> AfterTest(ci)
    [] current = "CIRunning" /\ outcome = "TestFailed" -> Finalize("Failed", "CITestsFailed")
    [] current = "CIRunning" /\ outcome = "BuildPassed" -> Do("FastForward")
    [] current = "CIRunning" /\ outcome = "BuildFailed" -> Finalize("Failed", "CIBuildFailed")
    [] current = "Merging" /\ outcome = "FastForwardOk" -> Finalize("Merged", NoReason)
    [] current = "Merging" /\ outcome = "FastForwardRejected"
         -> Finalize("Failed", "FastForwardFailed")
    [] current = "NeedsHelp" /\ outcome = "AgentResolvedConflict" -> Do("Rebase")
    [] OTHER -> Do("Panic")

\* fn advance_status, for the actions Worker::execute is called with.
AdvanceStatus(act) ==
  CASE act = "Rebase" -> "Rebasing"
    [] act = "FastForward" -> "Merging"
    [] OTHER -> "CIRunning"

\* What shell::run_lint / run_test / run_build report for an exit status.
CiOutcome(step, ok) ==
  CASE step = "lint"  -> IF ok THEN "LintPassed"  ELSE "LintFailed"
    [] step = "test"  -> IF ok THEN "TestPassed"  ELSE "TestFailed"
    [] step = "build" -> IF ok THEN "BuildPassed" ELSE "BuildFailed"

\* The NextAction that runs a CI step.
CiAction(step) ==
  CASE step = "lint" -> "RunLint" [] step = "test" -> "RunTest" [] step = "build" -> "RunBuild"
=============================================================================
