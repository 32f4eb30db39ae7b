-------------------------- MODULE SchemaMigration --------------------------
(***************************************************************************)
(* How servers that share one database file start: SqliteStore::open and   *)
(* migrate (longhaul-server/src/store.rs), one action per SQL statement,   *)
(* and what main of the indexer does when open fails.  Every statement is  *)
(* a transaction of its own, so the servers' migrations interleave, and a  *)
(* server can die between any two statements of its own.                   *)
(***************************************************************************)
EXTENDS Naturals, FiniteSets

CONSTANTS Servers,   \* the processes that open the file
          Ids,       \* the tasks they store once they are up
          Faults     \* whether a statement can fail

ASSUME ServersAssumption == IsFiniteSet(Servers)
ASSUME FaultsAssumption == Faults \in BOOLEAN

VARIABLES versionTable,   \* the table schema_version exists
          versionRows,    \* how many rows it has; each says 1
          tasksTable,     \* the table tasks exists
          stored,         \* the tasks in it
          pc,             \* the next statement of each server's open
          backend,        \* the store a running server uses
          memory          \* the tasks of a server that runs on a MemoryStore

vars == <<versionTable, versionRows, tasksTable, stored, pc, backend, memory>>

Migrating == {"connect", "createVersion", "readVersion", "createTasks",
              "deleteVersion", "insertVersion"}

TypeOK ==
    /\ versionTable \in BOOLEAN
    /\ versionRows \in Nat
    /\ tasksTable \in BOOLEAN
    /\ stored \in SUBSET Ids
    /\ pc \in [Servers -> Migrating \cup {"down", "up"}]
    /\ backend \in [Servers -> {"none", "sqlite", "memory"}]
    /\ memory \in [Servers -> SUBSET Ids]
    /\ \A s \in Servers :
        /\ pc[s] = "up" <=> backend[s] # "none"
        /\ pc[s] \in Migrating \ {"connect", "createVersion"} => versionTable

Init ==
    /\ versionTable = FALSE
    /\ versionRows = 0
    /\ tasksTable = FALSE
    /\ stored = {}
    /\ pc = [s \in Servers |-> "down"]
    /\ backend = [s \in Servers |-> "none"]
    /\ memory = [s \in Servers |-> {}]

-----------------------------------------------------------------------------
At(s, step) == pc[s] = step
Goto(s, step) == pc' = [pc EXCEPT ![s] = step] /\ UNCHANGED backend

Start(s) ==
    /\ At(s, "down")
    /\ Goto(s, "connect")
    /\ UNCHANGED <<versionTable, versionRows, tasksTable, stored, memory>>

\* Mutant: the version is queried before its table is made.
ConnectToQuery(s) ==
    /\ At(s, "connect")
    /\ Goto(s, "readVersion")
    /\ UNCHANGED <<versionTable, versionRows, tasksTable, stored, memory>>

\* Connection::open and the two pragmas.
Connect(s) ==
    /\ At(s, "connect")
    /\ Goto(s, "createVersion")
    /\ UNCHANGED <<versionTable, versionRows, tasksTable, stored, memory>>

\* Mutant: the version is recorded as soon as its table is there, before the
\* tables that it stands for.
CreateVersionWithRow(s) ==
    /\ At(s, "createVersion")
    /\ versionTable' = TRUE
    /\ versionRows' = IF versionTable THEN versionRows ELSE 1
    /\ Goto(s, "readVersion")
    /\ UNCHANGED <<tasksTable, stored, memory>>

\* CREATE TABLE IF NOT EXISTS schema_version.
CreateVersion(s) ==
    /\ At(s, "createVersion")
    /\ versionTable' = TRUE
    /\ Goto(s, "readVersion")
    /\ UNCHANGED <<versionRows, tasksTable, stored, memory>>

\* open has returned Ok.
Opened(s) ==
    /\ pc' = [pc EXCEPT ![s] = "up"]
    /\ backend' = [backend EXCEPT ![s] = "sqlite"]

\* unwrap_or(0): no row and a failed query both count as version 0.
ReadVersion(s) ==
    /\ At(s, "readVersion")
    /\ \/ versionRows > 0 /\ Opened(s)
       \/ (versionRows = 0 \/ Faults) /\ Goto(s, "createTasks")
    /\ UNCHANGED <<versionTable, versionRows, tasksTable, stored, memory>>

\* Mutant: the table is made anew.
CreateTasksAfresh(s) ==
    /\ At(s, "createTasks")
    /\ tasksTable' = TRUE
    /\ stored' = {}
    /\ Goto(s, "deleteVersion")
    /\ UNCHANGED <<versionTable, versionRows, memory>>

\* CREATE TABLE IF NOT EXISTS leaves a table that is there alone.
CreateTasks(s) ==
    /\ At(s, "createTasks")
    /\ tasksTable' = TRUE
    /\ Goto(s, "deleteVersion")
    /\ UNCHANGED <<versionTable, versionRows, stored, memory>>

DeleteVersion(s) ==
    /\ At(s, "deleteVersion")
    /\ versionRows' = 0
    /\ Goto(s, "insertVersion")
    /\ UNCHANGED <<versionTable, tasksTable, stored, memory>>

InsertVersion(s) ==
    /\ At(s, "insertVersion")
    /\ versionRows' = versionRows + 1
    /\ Opened(s)
    /\ UNCHANGED <<versionTable, tasksTable, stored, memory>>

\* A statement other than the query of the version fails: open gives up, and
\* main goes on with a MemoryStore.
OpenFails(s) ==
    /\ Faults
    /\ pc[s] \in Migrating \ {"readVersion"}
    /\ pc' = [pc EXCEPT ![s] = "up"]
    /\ backend' = [backend EXCEPT ![s] = "memory"]
    /\ UNCHANGED <<versionTable, versionRows, tasksTable, stored, memory>>

-----------------------------------------------------------------------------
\* A running server stores a task; without a table the statement fails.
StoreTask(s, id) ==
    /\ \/ /\ backend[s] = "sqlite" /\ tasksTable
          /\ stored' = stored \cup {id}
          /\ UNCHANGED memory
       \/ /\ backend[s] = "memory"
          /\ memory' = [memory EXCEPT ![s] = @ \cup {id}]
          /\ UNCHANGED stored
    /\ UNCHANGED <<versionTable, versionRows, tasksTable, pc, backend>>

\* A server dies, while it opens the file or later.
Crash(s) ==
    /\ pc[s] # "down"
    /\ pc' = [pc EXCEPT ![s] = "down"]
    /\ backend' = [backend EXCEPT ![s] = "none"]
    /\ memory' = [memory EXCEPT ![s] = {}]
    /\ UNCHANGED <<versionTable, versionRows, tasksTable, stored>>

Next ==
    \E s \in Servers :
        \/ Start(s)
        \/ Connect(s)
        \/ CreateVersion(s)
        \/ ReadVersion(s)
        \/ CreateTasks(s)
        \/ DeleteVersion(s)
        \/ InsertVersion(s)
        \/ OpenFails(s)
        \/ \E id \in Ids : StoreTask(s, id)
        \/ Crash(s)

Spec == Init /\ [][Next]_vars

-----------------------------------------------------------------------------
\* A server whose open has succeeded finds the tasks table, whichever other
\* servers migrate, fail or die at the same time: the version is recorded only
\* after the table is there, and nothing removes the table.
OpenMeansUsable == \A s \in Servers : backend[s] = "sqlite" => tasksTable

\* No migration loses a task that a server has stored, also when it takes a
\* failed query for an empty database.
MigrationKeepsTasks == [][stored \subseteq stored']_stored

\* Racing migrations leave at most one row each, and a restart after a crash
\* does not add to them: the rows are never more than the servers.
VersionRowsBounded == versionRows <= Cardinality(Servers)
=============================================================================
