----------------------------- MODULE Migrations -----------------------------
(***************************************************************************)
(* store/migrations.rs: every `mergequeue` process brings the schema of the *)
(* one database up to date when it opens it, several at once if several    *)
(* commands are started together.  SQLite, as the code uses it: a statement *)
(* outside a transaction and a transaction are atomic, and DDL for an       *)
(* object that exists is an error.                                         *)
(***************************************************************************)
EXTENDS Naturals

CONSTANTS
  Procs,     (* processes                                                   *)
  Latest,    (* the newest migration any binary has                         *)
  Supported, (* process -> SUPPORTED_VERSION of its binary                  *)
  ReadsFail  (* whether the query of current_version may fail               *)

ASSUME MigrationAssumption ==
  /\ Latest \in Nat
  /\ Supported \in [Procs -> 1..Latest]
  /\ ReadsFail \in BOOLEAN

VARIABLES
  made,      (* versions whose tables and columns exist                     *)
  recorded,  (* versions recorded in schema_version                         *)
  pc,        (* where a process is                                          *)
  version    (* process -> the migration it is at                           *)

vars == <<made, recorded, pc, version>>

TypeOK ==
  /\ made \subseteq 1..Latest /\ recorded \subseteq 1..Latest
  /\ pc \in [Procs -> {"closed", "version", "migrate", "ready", "refused", "tooNew"}]
  /\ version \in [Procs -> 0..(Latest + 1)]

Init ==
  /\ made = {} /\ recorded = {}
  /\ pc = [p \in Procs |-> "closed"]
  /\ version = [p \in Procs |-> 0]

Goes(p, state) == pc' = [pc EXCEPT ![p] = state]

\* COALESCE(MAX(version), 0)
MaxVersion == IF recorded = {} THEN 0 ELSE CHOOSE v \in recorded : \A u \in recorded : u <= v

\* ensure_versions_table: CREATE TABLE IF NOT EXISTS, harmless to repeat.
Open(p) ==
  /\ pc[p] \in {"closed", "refused", "tooNew"}
  /\ Goes(p, "version")
  /\ UNCHANGED <<made, recorded, version>>

\* current_version, where a failed query counts as 0, and the check of it.
CurrentVersion(p) ==
  /\ pc[p] = "version"
  /\ \E current \in {MaxVersion} \cup (IF ReadsFail THEN {0} ELSE {}) :
       IF current > Supported[p]
         THEN Goes(p, "tooNew") /\ UNCHANGED version
         ELSE /\ Goes(p, "migrate")
              /\ version' = [version EXCEPT ![p] = current + 1]
  /\ UNCHANGED <<made, recorded>>

\* Mutant: no transaction; the process may end between DDL and record.
Unprotected(v) == {[ddl |-> {v}, row |-> {v}], [ddl |-> {v}, row |-> {}]}
\* What a migration leaves behind.
Committed(v) == {[ddl |-> {v}, row |-> {v}]}

\* Mutant: what somebody else has made is taken for all there is to do.
Trusted == "ready"
\* The error of a migration that somebody else has made: it is rolled back.
Conflict == "refused"
Pending(p) == version[p] <= Supported[p]

\* A migration in its transaction.
Migrate(p) ==
  LET v == version[p]
  IN  /\ pc[p] = "migrate" /\ Pending(p)
      /\ IF v \in made \cup recorded
           THEN Goes(p, Conflict) /\ UNCHANGED <<made, recorded, version>>
           ELSE /\ \E c \in Committed(v) :
                     made' = made \cup c.ddl /\ recorded' = recorded \cup c.row
                /\ version' = [version EXCEPT ![p] = v + 1]
                /\ UNCHANGED pc

Migrated(p) ==
  /\ pc[p] = "migrate" /\ ~Pending(p)
  /\ Goes(p, "ready")
  /\ UNCHANGED <<made, recorded, version>>

\* The process ends, at any point and for any reason.
Ends(p) ==
  /\ pc[p] # "closed"
  /\ Goes(p, "closed")
  /\ version' = [version EXCEPT ![p] = 0]
  /\ UNCHANGED <<made, recorded>>

Next == \E p \in Procs : Open(p) \/ CurrentVersion(p) \/ Migrate(p) \/ Migrated(p) \/ Ends(p)

Spec == Init /\ [][Next]_vars

-----------------------------------------------------------------------------
(* Properties.                                                             *)

\* The schema is always that of some version, recorded as such, however many
\* processes of however old binaries migrate it at once and wherever they die: the
\* next process to open the database can go on from there.
SchemaWhole ==
  made = recorded /\ \E v \in 0..Latest : made = 1..v

\* A process works on a schema that has everything its binary needs, also if
\* somebody else made it in the meantime.
ReadyIsMigrated ==
  \A p \in Procs : pc[p] = "ready" => 1..Supported[p] \subseteq made

\* The inductive invariant: the schema is that of version k, no process is beyond
\* the migration after k, and a process that is ready needs no more than k.
MigrationInv ==
  /\ TypeOK /\ made = recorded
  /\ \E k \in 0..Latest :
       /\ made = 1..k
       /\ \A p \in Procs : pc[p] = "migrate" => version[p] \in 1..(k + 1)
       /\ \A p \in Procs : pc[p] = "ready" => Supported[p] <= k

\* docs/05-store-and-schema.md:18: to open is to apply what is missing, and is
\* refused only if the database is newer than the binary.
RefusedOnlyIfNewer ==
  \A p \in Procs : pc[p] # "refused"
=============================================================================
