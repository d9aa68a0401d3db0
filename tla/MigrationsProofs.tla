-------------------------- MODULE MigrationsProofs --------------------------
(* The theorems about Migrations, for every number of processes, binaries   *)
(* and migrations.                                                          *)
EXTENDS Migrations, TLAPS

USE DEF vars, Goes

\* COALESCE(MAX(version), 0) of the versions 1..k is k.
LEMMA MaxOfPrefix ==
  ASSUME NEW k \in Nat, recorded = 1..k
  PROVE  MaxVersion = k
<1>1. CASE k = 0
  BY <1>1 DEF MaxVersion
<1>2. CASE k > 0
  <2>1. k \in recorded /\ \A u \in recorded : u <= k
    BY <1>2
  <2>2. \A v \in recorded : (\A u \in recorded : u <= v) => v = k
    BY <2>1
  <2> QED
    BY <2>1, <2>2 DEF MaxVersion
<1> QED
  BY <1>1, <1>2

\* The parts of the invariant, for a schema of version k.
At(k) ==
  /\ made = 1..k
  /\ \A p \in Procs : pc[p] = "migrate" => version[p] \in 1..(k + 1)
  /\ \A p \in Procs : pc[p] = "ready" => Supported[p] <= k

\* Every step leads from the schema of a version to that of the same or the next.
LEMMA MigrationNext ==
  ASSUME MigrationInv, [Next]_vars
  PROVE  MigrationInv'
<1> USE MigrationAssumption
<1>0. PICK k \in 0..Latest : At(k)
  BY DEF MigrationInv, At
<1>1. TypeOK /\ recorded = 1..k /\ made = recorded
  BY <1>0 DEF MigrationInv, At
<1> SUFFICES TypeOK' /\ made' = recorded' /\ \E j \in 0..Latest : At(j)'
  BY DEF MigrationInv, At
<1>2. k \in Nat /\ Latest \in Nat /\ \A p \in Procs : Supported[p] \in 1..Latest
  BY DEF TypeOK
<1>3. ASSUME NEW p \in Procs, Open(p)
      PROVE  TypeOK' /\ made' = recorded' /\ At(k)'
  BY <1>0, <1>1, <1>3 DEF Open, TypeOK, At
<1>4. ASSUME NEW p \in Procs, Ends(p)
      PROVE  TypeOK' /\ made' = recorded' /\ At(k)'
  <2>1. TypeOK'
    BY <1>1, <1>2, <1>4 DEF Ends, TypeOK
  <2> QED
    BY <1>0, <1>1, <1>4, <2>1 DEF Ends, TypeOK, At
<1>5. ASSUME NEW p \in Procs, Migrated(p)
      PROVE  TypeOK' /\ made' = recorded' /\ At(k)'
  <2>1. version[p] <= k + 1 /\ Supported[p] < version[p] /\ version[p] \in Nat
    BY <1>0, <1>1, <1>2, <1>5 DEF Migrated, Pending, TypeOK, At
  <2>2. Supported[p] <= k
    BY <1>2, <2>1
  <2> QED
    BY <1>0, <1>1, <1>5, <2>2 DEF Migrated, TypeOK, At
<1>6. ASSUME NEW p \in Procs, CurrentVersion(p)
      PROVE  TypeOK' /\ made' = recorded' /\ At(k)'
  <2>1. PICK current \in {0, k} :
          IF current > Supported[p]
            THEN Goes(p, "tooNew") /\ UNCHANGED version
            ELSE /\ Goes(p, "migrate")
                 /\ version' = [version EXCEPT ![p] = current + 1]
    BY <1>1, <1>2, <1>6, MaxOfPrefix DEF CurrentVersion
  <2>2. UNCHANGED <<made, recorded>>
    BY <1>6 DEF CurrentVersion
  <2>3. current + 1 \in 1..(k + 1) /\ current + 1 \in 0..(Latest + 1)
    BY <1>2
  <2>4. TypeOK'
    BY <1>1, <2>1, <2>2, <2>3 DEF TypeOK
  <2> QED
    BY <1>0, <1>1, <2>1, <2>2, <2>3, <2>4 DEF TypeOK, At
<1>7. ASSUME NEW p \in Procs, Migrate(p)
      PROVE  TypeOK' /\ made' = recorded' /\ \E j \in 0..Latest : At(j)'
  <2> DEFINE v == version[p]
  <2>1. v \in 1..(k + 1) /\ v <= Supported[p] /\ v \in 1..Latest
    <3>1. v \in 1..(k + 1) /\ v <= Supported[p]
      BY <1>0, <1>7 DEF Migrate, Pending, At
    <3> QED
      BY <1>2, <3>1
  <2>2. CASE v \in made \cup recorded
    <3>1. UNCHANGED <<made, recorded, version>> /\ Goes(p, "refused")
      BY <1>7, <2>2 DEF Migrate, Conflict
    <3>2. TypeOK' /\ At(k)'
      BY <1>0, <1>1, <3>1 DEF TypeOK, At
    <3> QED
      BY <1>1, <3>1, <3>2
  <2>3. CASE v \notin made \cup recorded
    <3>1. v = k + 1
      BY <1>1, <1>2, <2>1, <2>3
    <3>2. UNCHANGED pc /\ version' = [version EXCEPT ![p] = v + 1]
          /\ made' = made \cup {v} /\ recorded' = recorded \cup {v}
      BY <1>7, <2>3 DEF Migrate, Committed
    <3>3. made' = 1..v /\ recorded' = 1..v
      BY <1>1, <1>2, <3>1, <3>2
    <3>4. v + 1 \in 0..(Latest + 1) /\ 1..v \subseteq 1..Latest
      BY <1>2, <2>1
    <3>5. TypeOK'
      BY <1>1, <3>2, <3>3, <3>4 DEF TypeOK
    <3>6. \A q \in Procs : pc'[q] = "migrate" => version'[q] \in 1..(v + 1)
      BY <1>0, <1>1, <1>2, <2>1, <3>1, <3>2 DEF At, TypeOK
    <3>7. \A q \in Procs : pc'[q] = "ready" => Supported[q] <= v
      BY <1>0, <1>2, <3>1, <3>2 DEF At
    <3> QED
      BY <2>1, <1>2, <3>3, <3>5, <3>6, <3>7 DEF At
  <2> QED
    BY <2>2, <2>3
<1>8. CASE UNCHANGED vars
  BY <1>0, <1>1, <1>8 DEF TypeOK, At
<1> QED
  BY <1>3, <1>4, <1>5, <1>6, <1>7, <1>8 DEF Next

\* The invariant of the migrations is inductive (migrations::run).
THEOREM MigrationsInductive == Spec => []MigrationInv
<1>1. Init => MigrationInv
  <2> SUFFICES ASSUME Init PROVE MigrationInv
    OBVIOUS
  <2>1. TypeOK /\ made = 1..0 /\ 0 \in 0..Latest
    BY MigrationAssumption DEF Init, TypeOK
  <2> QED
    BY <2>1 DEF Init, MigrationInv
<1>2. MigrationInv /\ [Next]_vars => MigrationInv'
  BY MigrationNext
<1> QED
  BY <1>1, <1>2, PTL DEF Spec

\* The schema is always whole, whatever processes migrate it at once and wherever
\* they die.
THEOREM SchemaStaysWhole == Spec => []SchemaWhole
<1>1. MigrationInv => SchemaWhole
  BY DEF MigrationInv, SchemaWhole
<1> QED
  BY <1>1, MigrationsInductive, PTL

\* A process that has opened the store finds the schema its binary needs.
THEOREM ReadyStaysMigrated == Spec => []ReadyIsMigrated
<1>1. MigrationInv => ReadyIsMigrated
  BY MigrationAssumption DEF MigrationInv, ReadyIsMigrated
<1> QED
  BY <1>1, MigrationsInductive, PTL
=============================================================================
