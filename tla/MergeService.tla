---------------------------- MODULE MergeService ----------------------------
(***************************************************************************)
(* What the merge queue promises to those who put branches into it: every  *)
(* repository is a server that works on one entry at a time, only a server *)
(* at work moves the target branch, and then for its own entry.  Users may *)
(* withdraw or put back an entry at any time, also the one being worked    *)
(* on; servers may be lost at any time.                                    *)
(***************************************************************************)
CONSTANTS
  Entries, Repos,
  RepoOf     (* the repository an entry is for                              *)

VARIABLES
  place,     (* per entry: where it is                                      *)
  job,       (* per repository: what its server is at, a set of at most one *)
  landed     (* entries that are on their target branch                     *)

vars == <<place, job, landed>>

\* "absent": not enqueued, or deleted; "parked": an agent or a human has to
\* resolve a conflict; "closed": failed or cancelled.
Places == {"absent", "deleted", "waiting", "working", "parked", "merged", "closed"}

Init ==
  /\ place = [e \in Entries |-> "absent"]
  /\ job = [r \in Repos |-> {}]
  /\ landed = {}

Known(e) == place[e] \notin {"absent", "deleted"}
Moves(e, to) == place' = [place EXCEPT ![e] = to]
Idles(r) == job' = [job EXCEPT ![r] = {}]

Submit(e) ==
  /\ place[e] = "absent" /\ Moves(e, "waiting")
  /\ UNCHANGED <<job, landed>>

\* A server takes an entry only if nothing of its repository is being worked on.
Take(r, e) ==
  /\ RepoOf[e] = r /\ place[e] = "waiting"
  /\ job[r] = {}
  /\ \A f \in Entries : RepoOf[f] = r => place[f] # "working"
  /\ Moves(e, "working")
  /\ job' = [job EXCEPT ![r] = {e}]
  /\ UNCHANGED landed

\* The server records its progress, over whatever the user has recorded.
Carry(r, e) ==
  /\ job[r] = {e} /\ Known(e) /\ Moves(e, "working")
  /\ UNCHANGED <<job, landed>>

Land(r, e) ==
  /\ job[r] = {e}
  /\ landed' = landed \cup {e}
  /\ UNCHANGED <<place, job>>

\* The server is done with the entry for now.
PutDown(r, e) ==
  /\ job[r] = {e} /\ Known(e)
  /\ \E to \in {"waiting", "parked", "closed", "merged"} :
       /\ to = "merged" => e \in landed
       /\ Moves(e, to)
  /\ Idles(r)
  /\ UNCHANGED landed

\* The server finds that the user has dealt with the entry, or is lost.
Drop(r) ==
  /\ Idles(r)
  /\ UNCHANGED <<place, landed>>

\* All servers are lost at once.
Fail ==
  /\ job' = [r \in Repos |-> {}]
  /\ UNCHANGED <<place, landed>>

\* What lost servers were at is put back, when no server is at work.
Recover ==
  /\ job = [r \in Repos |-> {}]
  /\ place' = [e \in Entries |-> IF place[e] = "working" THEN "waiting" ELSE place[e]]
  /\ UNCHANGED <<job, landed>>

\* A user withdraws an entry, puts it back, or has a new agent look at it.
Overrule(e) ==
  /\ Known(e)
  /\ \E to \in {"waiting", "parked", "closed"} : Moves(e, to)
  /\ UNCHANGED <<job, landed>>

Delete(e) ==
  /\ place[e] = "waiting" /\ Moves(e, "deleted")
  /\ UNCHANGED <<job, landed>>

Next ==
  \/ \E e \in Entries : Submit(e) \/ Overrule(e) \/ Delete(e)
  \/ \E r \in Repos, e \in Entries : Take(r, e) \/ Carry(r, e) \/ Land(r, e) \/ PutDown(r, e)
  \/ \E r \in Repos : Drop(r)
  \/ Fail \/ Recover

Spec == Init /\ [][Next]_vars
=============================================================================
