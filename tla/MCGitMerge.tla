----------------------------- MODULE MCGitMerge -----------------------------
(* Instances of GitMerge for TLC. *)
EXTENDS GitMerge, TLC

CONSTANTS root, t1, t2, main, b1, b2

\* Every worktree starts on a branch of its own, the registered one on main.
Heads == [w \in Trees |-> CASE w = root -> main [] w = t1 -> b1 [] w = t2 -> b2]

\* Changes are interchangeable, and so are entries.
GitSymmetry == Permutations(Entries) \cup Permutations(Changes)
=============================================================================
