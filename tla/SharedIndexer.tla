--------------------------- MODULE SharedIndexer ---------------------------
(***************************************************************************)
(* The indexer tool of one server on a SqliteStore whose file other        *)
(* servers use too: Indexer with every store operation taken apart into    *)
(* the statements of SqliteStore.                                          *)
(*                                                                         *)
(* The worker and the monitor of a task call the store from threads of     *)
(* their own, WorkerOf[id] and MonitorOf[id]; the remaining callers are    *)
(* request handlers, on this server or another.                            *)
(***************************************************************************)
EXTENDS SqliteStore, Naturals

CONSTANTS Here,            \* the store of the server that runs the tool
          WorkerOf,        \* the thread of spawn_index_task, then of the worker
          MonitorOf,       \* the thread of the monitor
          ClientTargets,   \* the statuses clients ask for in tasks/update
          MaxCrashes       \* bound: how often the server of the tool dies

Threads == {WorkerOf[id] : id \in TaskIds} \cup {MonitorOf[id] : id \in TaskIds}

ASSUME HereAssumption == Here \in Instances
ASSUME ThreadsAssumption ==
    /\ WorkerOf \in [TaskIds -> Callers] /\ MonitorOf \in [TaskIds -> Callers]
    /\ \A id1, id2 \in TaskIds :
        /\ WorkerOf[id1] # MonitorOf[id2]
        /\ id1 # id2 => WorkerOf[id1] # WorkerOf[id2] /\ MonitorOf[id1] # MonitorOf[id2]
    /\ \A c \in Threads : Home[c] = Here
ASSUME TargetsAssumption == ClientTargets \subseteq TaskStatus
ASSUME CrashAssumption == MaxCrashes \in Nat

VARIABLES worker,      \* as in Indexer; "inserting" before the task is stored
          result,      \* how the walk ended
          flag,        \* the watch channel
          monitor,     \* the monitor
          cancelTxs,   \* IndexerState::cancel_txs
          crashes

toolVars == <<worker, result, flag, monitor, cancelTxs, crashes>>
systemVars == <<vars, toolVars>>

SystemTypeOK ==
    /\ TypeOK
    /\ worker \in [TaskIds -> {"none", "inserting", "walking", "cleanup", "check", "settle",
                               "exited", "lost"}]
    /\ result \in [TaskIds -> {"none", "full", "skipped", "aborted", "panic"}]
    /\ flag \in [TaskIds -> BOOLEAN]
    /\ monitor \in [TaskIds -> {"none", "polling", "stopped"}]
    /\ cancelTxs \subseteq TaskIds
    /\ crashes \in 0..MaxCrashes
    /\ \A id \in TaskIds :
        /\ pc[WorkerOf[id]] # "idle" => worker[id] \in {"inserting", "check", "settle"}
        /\ pc[MonitorOf[id]] # "idle" => monitor[id] = "polling"

SystemInit ==
    /\ Init
    /\ worker = [id \in TaskIds |-> "none"]
    /\ result = [id \in TaskIds |-> "none"]
    /\ flag = [id \in TaskIds |-> FALSE]
    /\ monitor = [id \in TaskIds |-> "none"]
    /\ cancelTxs = {}
    /\ crashes = 0

Goto(id, w) == worker' = [worker EXCEPT ![id] = w]

\* A method of the store that caller c has called goes on by one statement.
Statement(c) ==
    \/ Get(c)
    \/ Insert(c)
    \/ UpdateRead(c)
    \/ UpdateWrite(c)
    \/ UpdateReread(c)
    \/ CancelRead(c)
    \/ CancelWrite(c)
    \/ StatementError(c)

-----------------------------------------------------------------------------
\* spawn_index_task: the insert, and when it has returned, the two spawns or,
\* after an error, nothing.
SpawnIndexTask(id) ==
    /\ worker[id] = "none"
    /\ Invoke(WorkerOf[id], [op |-> "insert", id |-> id, to |-> "working"])
    /\ Goto(id, "inserting")
    /\ UNCHANGED <<result, flag, monitor, cancelTxs, crashes>>

SpawnReturns(id) ==
    /\ worker[id] = "inserting"
    /\ Return(WorkerOf[id])
    /\ \/ /\ reply[WorkerOf[id]] = Inserted
          /\ Goto(id, "walking")
          /\ monitor' = [monitor EXCEPT ![id] = "polling"]
          /\ cancelTxs' = cancelTxs \cup {id}
       \/ /\ reply[WorkerOf[id]] # Inserted
          /\ Goto(id, "lost")
          /\ UNCHANGED <<monitor, cancelTxs>>
    /\ UNCHANGED <<result, flag, crashes>>

\* walk_and_index: it reads everything, passes over what it cannot read, stops
\* where it sees the flag up, or panics.
Walk(id) ==
    /\ worker[id] = "walking"
    /\ Goto(id, "cleanup")
    /\ \E r \in {"full", "skipped", "aborted", "panic"} :
        /\ r = "aborted" => flag[id]
        /\ result' = [result EXCEPT ![id] = r]
    /\ UNCHANGED <<vars, flag, monitor, cancelTxs, crashes>>

\* The sender is removed; a panic is settled without a look at the store.
DropSender(id) ==
    /\ worker[id] = "cleanup"
    /\ cancelTxs' = cancelTxs \ {id}
    /\ Goto(id, IF result[id] = "panic" THEN "settle" ELSE "check")
    /\ UNCHANGED <<vars, result, flag, monitor, crashes>>

\* The worker's get, and what it makes of the status.
CheckCancelled(id) ==
    /\ worker[id] = "check"
    /\ Invoke(WorkerOf[id], [op |-> "get", id |-> id, to |-> "none"])
    /\ UNCHANGED toolVars

CheckReturns(id) ==
    /\ worker[id] = "check"
    /\ Return(WorkerOf[id])
    /\ Goto(id, IF reply[WorkerOf[id]] = Ok("cancelled") THEN "exited" ELSE "settle")
    /\ UNCHANGED <<result, flag, monitor, cancelTxs, crashes>>

\* Mutant: the JoinError of a panicked walk is not told from a result.
OutcomeAlwaysCompleted(id) == "completed"

\* What the worker asks for at its end.
Outcome(id) == IF result[id] = "panic" THEN "failed" ELSE "completed"

\* Mutant: the worker does not wait for its update.
SettleUnwaited(id) ==
    /\ worker[id] = "settle"
    /\ Invoke(WorkerOf[id], [op |-> "update", id |-> id, to |-> Outcome(id)])
    /\ Goto(id, "exited")
    /\ UNCHANGED <<result, flag, monitor, cancelTxs, crashes>>

\* The worker's update; it exits whatever comes of it.
Settle(id) ==
    /\ worker[id] = "settle"
    /\ Invoke(WorkerOf[id], [op |-> "update", id |-> id, to |-> Outcome(id)])
    /\ UNCHANGED toolVars

SettleReturns(id) ==
    /\ worker[id] = "settle"
    /\ Return(WorkerOf[id])
    /\ Goto(id, "exited")
    /\ UNCHANGED <<result, flag, monitor, cancelTxs, crashes>>

\* The monitor's get.  A cancel raises the flag, a cancel, another end or an
\* error ends the monitor, and a live task is polled again.
Poll(id) ==
    /\ monitor[id] = "polling"
    /\ Invoke(MonitorOf[id], [op |-> "get", id |-> id, to |-> "none"])
    /\ UNCHANGED toolVars

\* Mutant: any end of the task aborts the walk.
PollReturnsAnyEnd(id) ==
    /\ monitor[id] = "polling"
    /\ Return(MonitorOf[id])
    /\ LET r == reply[MonitorOf[id]]
       IN  /\ flag' = [flag EXCEPT ![id] = IsTerminal(r.status) \/ @]
           /\ monitor' = [monitor EXCEPT ![id] =
                IF r.kind = "ok" /\ ~IsTerminal(r.status) THEN @ ELSE "stopped"]
    /\ UNCHANGED <<worker, result, cancelTxs, crashes>>

PollReturns(id) ==
    /\ monitor[id] = "polling"
    /\ Return(MonitorOf[id])
    /\ LET r == reply[MonitorOf[id]]
       IN  /\ flag' = [flag EXCEPT ![id] = r = Ok("cancelled") \/ @]
           /\ monitor' = [monitor EXCEPT ![id] =
                IF r.kind = "ok" /\ ~IsTerminal(r.status) THEN @ ELSE "stopped"]
    /\ UNCHANGED <<worker, result, cancelTxs, crashes>>

-----------------------------------------------------------------------------
\* The handlers of tasks/get, tasks/update and tasks/cancel, for a task whose
\* handle the client has.
ClientRequest(c) ==
    /\ c \notin Threads
    /\ \E r \in Request :
        /\ r.op # "insert"
        /\ r.op = "update" => r.to \in ClientTargets
        /\ worker[r.id] \notin {"none", "inserting"}
        /\ Invoke(c, r)
    /\ UNCHANGED toolVars

ClientReturn(c) ==
    /\ c \notin Threads
    /\ Return(c)
    /\ UNCHANGED toolVars

\* The server of the tool dies and is started again.
CrashHere ==
    /\ crashes < MaxCrashes
    /\ crashes' = crashes + 1
    /\ Crash(Here)
    /\ worker' = [id \in TaskIds |-> IF worker[id] = "none" THEN "none" ELSE "lost"]
    /\ monitor' = [id \in TaskIds |-> IF monitor[id] = "none" THEN "none" ELSE "stopped"]
    /\ cancelTxs' = {}
    /\ UNCHANGED <<result, flag>>

\* Another server dies.
CrashElsewhere(i) ==
    /\ i # Here
    /\ Crash(i)
    /\ UNCHANGED toolVars

ToolNext(id) ==
    \/ SpawnIndexTask(id)
    \/ SpawnReturns(id)
    \/ Walk(id)
    \/ DropSender(id)
    \/ CheckCancelled(id)
    \/ CheckReturns(id)
    \/ Settle(id)
    \/ SettleReturns(id)
    \/ Poll(id)
    \/ PollReturns(id)

SystemNext ==
    \/ \E id \in TaskIds : ToolNext(id)
    \/ \E c \in Callers :
        \/ Statement(c) /\ UNCHANGED toolVars
        \/ ClientRequest(c)
        \/ ClientReturn(c)
    \/ CrashHere
    \/ \E i \in Instances : CrashElsewhere(i)

SystemSpec == SystemInit /\ [][SystemNext]_systemVars

-----------------------------------------------------------------------------
\* How the tool looks where a store operation is one step.  The task is spawned
\* by its INSERT, and settled by the UPDATE that changes the row.
WorkerSeenOf(id) ==
    CASE db[id] = NoTask -> "none"
      [] db[id] # NoTask /\ worker[id] = "inserting" -> "walking"
      [] db[id] # NoTask /\ worker[id] = "settle" /\ reply[WorkerOf[id]].kind = "ok" -> "exited"
      [] OTHER -> worker[id]

MonitorSeenOf(id) ==
    CASE db[id] = NoTask \/ monitor[id] # "none" -> monitor[id]
      [] db[id] # NoTask /\ monitor[id] = "none" ->
            IF worker[id] = "lost" THEN "stopped" ELSE "polling"

CancelTxsSeen == cancelTxs \cup {id \in TaskIds : db[id] # NoTask /\ worker[id] = "inserting"}

Tool == INSTANCE Indexer WITH
    Ids <- TaskIds, StoreFaults <- TRUE, Durable <- TRUE, SharedFile <- TRUE,
    tasks <- db, cancelTxs <- CancelTxsSeen,
    worker <- [id \in TaskIds |-> WorkerSeenOf(id)],
    monitor <- [id \in TaskIds |-> MonitorSeenOf(id)]

\* At the granularity of statements, and with other servers on the file, the
\* tool does nothing that it does not do on an atomic store.  What is shown of
\* Indexer for all faults holds of it.
ImplementsIndexer == Tool!Spec

\* Whatever becomes of the row later: nobody is told of a completed task but
\* after a walk that came to its end, though it may have passed over what it
\* could not read, nor of a failed one but after a panic, unless a client has
\* asked for that status.
ToldMatchesWalk ==
    \A id \in TaskIds :
        /\ "completed" \in told[id] \ ClientTargets => result[id] \in {"full", "skipped"}
        /\ "failed" \in told[id] \ ClientTargets => result[id] = "panic"
=============================================================================
