----------------------- MODULE SchemaMigration_proofs -----------------------
(***************************************************************************)
(* Theorems about SchemaMigration, for any finite set of servers.          *)
(***************************************************************************)
EXTENDS SchemaMigration, FiniteSetTheorems, TLAPS

\* Type correctness: a server is up exactly when it has a store, and queries
\* the version only when its table is there.
THEOREM TypeCorrect == Spec => []TypeOK
<1>1. Init => TypeOK
    <2> SUFFICES ASSUME Init PROVE TypeOK
        OBVIOUS
    <2> USE DEF Init
    <2>1. \A s \in Servers : pc[s] = "down" /\ backend[s] = "none"
        OBVIOUS
    <2>2. /\ pc \in [Servers -> Migrating \cup {"down", "up"}]
          /\ backend \in [Servers -> {"none", "sqlite", "memory"}]
          /\ memory \in [Servers -> SUBSET Ids]
        OBVIOUS
    <2>3. versionTable \in BOOLEAN /\ versionRows \in Nat /\ tasksTable \in BOOLEAN
          /\ stored \in SUBSET Ids
        OBVIOUS
    <2>4. ASSUME NEW s \in Servers
          PROVE  /\ pc[s] = "up" <=> backend[s] # "none"
                 /\ pc[s] \in Migrating \ {"connect", "createVersion"} => versionTable
        BY <2>1 DEF Migrating
    <2> QED
        BY <2>2, <2>3, <2>4 DEF TypeOK
<1>2. TypeOK /\ [Next]_vars => TypeOK'
    <2> SUFFICES ASSUME TypeOK, [Next]_vars PROVE TypeOK'
        OBVIOUS
    <2> USE DEF TypeOK, Migrating, At, Goto, Opened
    <2>1. ASSUME NEW s \in Servers, Start(s) PROVE TypeOK'
        BY <2>1 DEF Start
    <2>2. ASSUME NEW s \in Servers, Connect(s) PROVE TypeOK'
        BY <2>2 DEF Connect
    <2>3. ASSUME NEW s \in Servers, CreateVersion(s) PROVE TypeOK'
        BY <2>3 DEF CreateVersion
    <2>4. ASSUME NEW s \in Servers, ReadVersion(s) PROVE TypeOK'
        <3>1. CASE versionRows > 0 /\ Opened(s)
            BY <2>4, <3>1 DEF ReadVersion
        <3>2. CASE Goto(s, "createTasks")
            BY <2>4, <3>2 DEF ReadVersion
        <3> QED
            BY <2>4, <3>1, <3>2 DEF ReadVersion
    <2>5. ASSUME NEW s \in Servers, CreateTasks(s) PROVE TypeOK'
        BY <2>5 DEF CreateTasks
    <2>6. ASSUME NEW s \in Servers, DeleteVersion(s) PROVE TypeOK'
        BY <2>6 DEF DeleteVersion
    <2>7. ASSUME NEW s \in Servers, InsertVersion(s) PROVE TypeOK'
        BY <2>7 DEF InsertVersion
    <2>8. ASSUME NEW s \in Servers, OpenFails(s) PROVE TypeOK'
        BY <2>8 DEF OpenFails
    <2>9. ASSUME NEW s \in Servers, NEW id \in Ids, StoreTask(s, id) PROVE TypeOK'
        BY <2>9 DEF StoreTask
    <2>10. ASSUME NEW s \in Servers, Crash(s) PROVE TypeOK'
        BY <2>10 DEF Crash
    <2>11. CASE UNCHANGED vars
        BY <2>11 DEF vars
    <2> QED
        BY <2>1, <2>2, <2>3, <2>4, <2>5, <2>6, <2>7, <2>8, <2>9, <2>10, <2>11 DEF Next
<1> QED
    BY <1>1, <1>2, PTL DEF Spec

-----------------------------------------------------------------------------
\* Whatever stands for the tasks table, a recorded version or a server past
\* creating it, the table is there.
TableInv ==
    /\ versionRows > 0 => tasksTable
    /\ \A s \in Servers : pc[s] \in {"deleteVersion", "insertVersion"} => tasksTable
    /\ OpenMeansUsable

\* Every step keeps the invariant.
LEMMA TableStep ==
    ASSUME TypeOK, TableInv, [Next]_vars
    PROVE  TableInv'
<1> USE DEF TypeOK, TableInv, OpenMeansUsable, Migrating, At, Goto, Opened
<1>1. ASSUME NEW s \in Servers, Start(s) \/ Connect(s) \/ CreateVersion(s)
      PROVE  TableInv'
    BY <1>1 DEF Start, Connect, CreateVersion
<1>2. ASSUME NEW s \in Servers, ReadVersion(s) PROVE TableInv'
    BY <1>2 DEF ReadVersion
<1>3. ASSUME NEW s \in Servers, CreateTasks(s) PROVE TableInv'
    BY <1>3 DEF CreateTasks
<1>4. ASSUME NEW s \in Servers, DeleteVersion(s) PROVE TableInv'
    BY <1>4 DEF DeleteVersion
<1>5. ASSUME NEW s \in Servers, InsertVersion(s) PROVE TableInv'
    BY <1>5 DEF InsertVersion
<1>6. ASSUME NEW s \in Servers, OpenFails(s) PROVE TableInv'
    BY <1>6 DEF OpenFails
<1>7. ASSUME NEW s \in Servers, NEW id \in Ids, StoreTask(s, id) PROVE TableInv'
    BY <1>7 DEF StoreTask
<1>8. ASSUME NEW s \in Servers, Crash(s) PROVE TableInv'
    BY <1>8 DEF Crash
<1>9. CASE UNCHANGED vars
    BY <1>9 DEF vars
<1> QED
    BY <1>1, <1>2, <1>3, <1>4, <1>5, <1>6, <1>7, <1>8, <1>9 DEF Next

\* However many servers open the file at once, and whenever they fail or die, a
\* server whose open succeeded has a tasks table.
THEOREM OpenedIsUsable == Spec => []OpenMeansUsable
<1>1. Init => TableInv
    BY DEF Init, TableInv, OpenMeansUsable
<1>2. TypeOK /\ TableInv /\ [Next]_vars => TableInv'
    BY TableStep
<1>3. TableInv => OpenMeansUsable
    BY DEF TableInv
<1> QED
    BY <1>1, <1>2, <1>3, TypeCorrect, PTL DEF Spec

\* No start of a server loses a stored task.
THEOREM TasksKept == Spec => MigrationKeepsTasks
<1>1. [Next]_vars => [stored \subseteq stored']_stored
    BY DEF Next, vars, Start, Connect, CreateVersion, ReadVersion, CreateTasks,
           DeleteVersion, InsertVersion, OpenFails, StoreTask, Crash
<1> QED
    BY <1>1, PTL DEF Spec, MigrationKeepsTasks

-----------------------------------------------------------------------------
\* The servers whose next statement adds a row.
Pending == {s \in Servers : pc[s] = "insertVersion"}

\* Each row was added by a server that is no longer about to add one since the
\* rows were last deleted.
RowsInv == versionRows + Cardinality(Pending) <= Cardinality(Servers)

\* The number of pending servers is a number, at most that of all servers.
LEMMA PendingCounted ==
    ASSUME TypeOK
    PROVE  /\ IsFiniteSet(Pending)
           /\ Cardinality(Pending) \in Nat
           /\ Cardinality(Servers) \in Nat
           /\ Cardinality(Pending) <= Cardinality(Servers)
<1>1. Pending \in SUBSET Servers
    BY DEF Pending
<1> QED
    BY <1>1, ServersAssumption, FS_Subset, FS_CardinalityType

\* A step that adds no row and no pending server keeps the bound.
LEMMA FewerPending ==
    ASSUME TypeOK, TypeOK', RowsInv, versionRows' = versionRows,
           Pending' \subseteq Pending
    PROVE  RowsInv'
<1>1. /\ IsFiniteSet(Pending) /\ Cardinality(Pending) \in Nat
      /\ Cardinality(Servers) \in Nat
    BY PendingCounted
<1>2. Cardinality(Pending') <= Cardinality(Pending) /\ Cardinality(Pending') \in Nat
    BY <1>1, FS_Subset, FS_CardinalityType
<1>3. versionRows \in Nat /\ (Cardinality(Pending))' = Cardinality(Pending')
    BY DEF TypeOK
<1>4. versionRows + Cardinality(Pending') <= Cardinality(Servers)
    BY <1>1, <1>2, <1>3 DEF RowsInv
<1> QED
    BY <1>3, <1>4 DEF RowsInv

\* Every step keeps the bound.
LEMMA RowsStep ==
    ASSUME TypeOK, TypeOK', RowsInv, [Next]_vars
    PROVE  RowsInv'
<1>1. ASSUME NEW s \in Servers, DeleteVersion(s) PROVE RowsInv'
    <2>1. versionRows' = 0
        BY <1>1 DEF DeleteVersion
    <2>2. Pending' \in SUBSET Servers
        BY DEF Pending
    <2>3. Cardinality(Pending') <= Cardinality(Servers) /\ Cardinality(Pending') \in Nat
        BY <2>2, ServersAssumption, FS_Subset, FS_CardinalityType
    <2> QED
        BY <2>1, <2>3, ServersAssumption, FS_CardinalityType DEF RowsInv
<1>2. ASSUME NEW s \in Servers, InsertVersion(s) PROVE RowsInv'
    <2>1. /\ s \in Pending /\ Pending' = Pending \ {s}
          /\ versionRows' = versionRows + 1 /\ versionRows \in Nat
        BY <1>2 DEF InsertVersion, At, Opened, Pending, TypeOK
    <2>2. /\ IsFiniteSet(Pending) /\ Cardinality(Pending) \in Nat
          /\ Cardinality(Servers) \in Nat
        BY PendingCounted
    <2>3. Cardinality(Pending') = Cardinality(Pending) - 1
        BY <2>1, <2>2, FS_RemoveElement
    <2>4. versionRows' + Cardinality(Pending') <= Cardinality(Servers)
        BY <2>1, <2>2, <2>3 DEF RowsInv
    <2> QED
        BY <2>4 DEF RowsInv
<1>3. ASSUME NEW s \in Servers,
             \/ Start(s) \/ Connect(s) \/ CreateVersion(s) \/ ReadVersion(s)
             \/ CreateTasks(s) \/ OpenFails(s) \/ Crash(s)
             \/ \E id \in Ids : StoreTask(s, id)
      PROVE  RowsInv'
    <2>1. versionRows' = versionRows
        BY <1>3 DEF Start, Connect, CreateVersion, ReadVersion, CreateTasks,
                    OpenFails, Crash, StoreTask
    <2>2. Pending' \subseteq Pending
        BY <1>3 DEF Start, Connect, CreateVersion, ReadVersion, CreateTasks,
                    OpenFails, Crash, StoreTask, Goto, Opened, Pending, TypeOK
    <2> QED
        BY <2>1, <2>2, FewerPending
<1>4. CASE UNCHANGED vars
    BY <1>4 DEF vars, RowsInv, Pending
<1> QED
    BY <1>1, <1>2, <1>3, <1>4 DEF Next

\* Racing migrations and restarts never leave more version rows than there are
\* servers.
THEOREM RowsBounded == Spec => []VersionRowsBounded
<1>1. Init => RowsInv
    <2>1. ASSUME Init PROVE Pending = {} /\ versionRows = 0
        BY <2>1 DEF Init, Pending
    <2> QED
        BY <2>1, FS_EmptySet, ServersAssumption, FS_CardinalityType DEF RowsInv
<1>2. TypeOK /\ TypeOK' /\ RowsInv /\ [Next]_vars => RowsInv'
    BY RowsStep
<1>3. TypeOK /\ RowsInv => VersionRowsBounded
    BY PendingCounted DEF RowsInv, VersionRowsBounded, TypeOK
<1> QED
    BY <1>1, <1>2, <1>3, TypeCorrect, PTL DEF Spec
=============================================================================
