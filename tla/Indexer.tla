------------------------------ MODULE Indexer ------------------------------
(***************************************************************************)
(* The long-running tool of examples/indexer/src/main.rs.  A call of       *)
(* index_directory stores a task and spawns two threads of control: a      *)
(* worker that walks the directory and then settles the task, and a        *)
(* monitor that polls the store and tells the worker of a cancel through a *)
(* watch channel.  Clients update and cancel the task meanwhile.           *)
(*                                                                         *)
(* A store operation is one step here: that is what a store promises       *)
(* (TaskStore) and what the callers of one SqliteStore get (SqliteStore).  *)
(* SharedIndexer has the statements, and shows that even with other        *)
(* servers on the file nothing happens to the tool but what is here.       *)
(***************************************************************************)
EXTENDS TaskLifecycle, Naturals

CONSTANTS Ids,             \* task ids: Uuid::new_v4() never repeats one
          ClientTargets,   \* the statuses clients ask for in tasks/update
          StoreFaults,     \* whether a store operation can fail
          Durable,         \* SqliteStore (TRUE) or MemoryStore (FALSE)
          SharedFile,      \* whether other servers use the same database
          MaxCrashes       \* bound: how often the process dies

ASSUME TargetsAssumption == ClientTargets \subseteq TaskStatus
ASSUME BackendAssumption ==
    StoreFaults \in BOOLEAN /\ Durable \in BOOLEAN /\ SharedFile \in BOOLEAN
ASSUME MemoryAssumption == SharedFile => Durable
ASSUME CrashAssumption == MaxCrashes \in Nat

VARIABLES tasks,       \* the store
          worker,      \* the worker of each task
          result,      \* how the walk ended, see WalkEnds
          flag,        \* the value in the watch channel of each task
          monitor,     \* the monitor of each task
          cancelTxs,   \* the ids in IndexerState::cancel_txs
          crashes

vars == <<tasks, worker, result, flag, monitor, cancelTxs, crashes>>

TypeOK ==
    /\ tasks \in [Ids -> TaskStatus \cup {NoTask}]
    /\ worker \in [Ids -> {"none", "walking", "cleanup", "check", "settle", "exited", "lost"}]
    /\ result \in [Ids -> {"none", "full", "skipped", "aborted", "panic"}]
    /\ flag \in [Ids -> BOOLEAN]
    /\ monitor \in [Ids -> {"none", "polling", "stopped"}]
    /\ cancelTxs \subseteq Ids
    /\ crashes \in 0..MaxCrashes
    /\ \A id \in Ids :
        /\ worker[id] \in {"cleanup", "check", "settle", "exited"} => result[id] # "none"
        /\ id \in cancelTxs => worker[id] \in {"walking", "cleanup"}

Init ==
    /\ tasks = [id \in Ids |-> NoTask]
    /\ worker = [id \in Ids |-> "none"]
    /\ result = [id \in Ids |-> "none"]
    /\ flag = [id \in Ids |-> FALSE]
    /\ monitor = [id \in Ids |-> "none"]
    /\ cancelTxs = {}
    /\ crashes = 0

-----------------------------------------------------------------------------
\* spawn_index_task.  Nobody else knows the id before the handle is returned,
\* so storing the task and spawning its threads is one step.
SpawnIndexTask(id) ==
    /\ worker[id] = "none"
    /\ tasks' = [tasks EXCEPT ![id] = "working"]
    /\ worker' = [worker EXCEPT ![id] = "walking"]
    /\ monitor' = [monitor EXCEPT ![id] = "polling"]
    /\ cancelTxs' = cancelTxs \cup {id}
    /\ UNCHANGED <<result, flag, crashes>>

\* The insert fails: the tool call fails, nothing is spawned and the id is
\* never used again.
SpawnRefused(id) ==
    /\ StoreFaults
    /\ worker[id] = "none"
    /\ worker' = [worker EXCEPT ![id] = "lost"]
    /\ UNCHANGED <<tasks, result, flag, monitor, cancelTxs, crashes>>

WalkEnds(id, r) ==
    /\ worker[id] = "walking"
    /\ worker' = [worker EXCEPT ![id] = "cleanup"]
    /\ result' = [result EXCEPT ![id] = r]
    /\ UNCHANGED <<tasks, flag, monitor, cancelTxs, crashes>>

\* The walk comes to its end with everything read, or with something left out:
\* a directory that cannot be opened, an entry that fails and a file that is no
\* text are passed over in silence, and nobody learns of it.  Or it stops at a
\* raised flag, or panics.  The flag is read before each entry, so a walk can
\* also come to its end after the flag was raised.
WalkFinishes(id) == WalkEnds(id, "full")
WalkSkips(id)    == WalkEnds(id, "skipped")
WalkAborts(id)   == flag[id] /\ WalkEnds(id, "aborted")
WalkPanics(id)   == WalkEnds(id, "panic")

\* Mutant: a worker whose walk panicked takes the path of the others.
DropSenderJoinIgnored(id) ==
    /\ worker[id] = "cleanup"
    /\ cancelTxs' = cancelTxs \ {id}
    /\ worker' = [worker EXCEPT ![id] = IF result[id] = "panic" THEN "exited" ELSE "check"]
    /\ UNCHANGED <<tasks, result, flag, monitor, crashes>>

\* Mutant: the sender of a panicked walk is not removed.
DropSenderKept(id) ==
    /\ worker[id] = "cleanup"
    /\ cancelTxs' = IF result[id] = "panic" THEN cancelTxs ELSE cancelTxs \ {id}
    /\ worker' = [worker EXCEPT ![id] = IF result[id] = "panic" THEN "settle" ELSE "check"]
    /\ UNCHANGED <<tasks, result, flag, monitor, crashes>>

\* The walk has ended, the sender is removed, and the JoinHandle's result
\* decides how the worker goes on.
DropSender(id) ==
    /\ worker[id] = "cleanup"
    /\ cancelTxs' = cancelTxs \ {id}
    /\ worker' = [worker EXCEPT ![id] = IF result[id] = "panic" THEN "settle" ELSE "check"]
    /\ UNCHANGED <<tasks, result, flag, monitor, crashes>>

\* store.get(..).map(|t| t.status == Cancelled).unwrap_or(false)
CheckCancelled(id) ==
    /\ worker[id] = "check"
    /\ \/ /\ tasks[id] = "cancelled"
          /\ worker' = [worker EXCEPT ![id] = "exited"]
       \/ /\ tasks[id] # "cancelled" \/ StoreFaults
          /\ worker' = [worker EXCEPT ![id] = "settle"]
    /\ UNCHANGED <<tasks, result, flag, monitor, cancelTxs, crashes>>

\* Mutant: the JoinError of a panicked walk is not told from a result.
OutcomeAlwaysCompleted(id) == "completed"

\* What the worker asks for at its end.
Outcome(id) == IF result[id] = "panic" THEN "failed" ELSE "completed"

\* Mutant: the worker writes its outcome over whatever the store holds.
SettleBlindly(id) ==
    /\ worker[id] = "settle"
    /\ tasks' = [tasks EXCEPT ![id] = Outcome(id)]
    /\ worker' = [worker EXCEPT ![id] = "exited"]
    /\ UNCHANGED <<result, flag, monitor, cancelTxs, crashes>>

\* The worker's update; it is refused when the task has moved since the
\* check, it can fail, and the worker exits whatever comes of it.
Settle(id) ==
    /\ worker[id] = "settle"
    /\ \/ /\ CanTransitionTo(tasks[id], Outcome(id))
          /\ tasks' = [tasks EXCEPT ![id] = Outcome(id)]
       \/ /\ ~CanTransitionTo(tasks[id], Outcome(id)) \/ StoreFaults
          /\ UNCHANGED tasks
    /\ worker' = [worker EXCEPT ![id] = "exited"]
    /\ UNCHANGED <<result, flag, monitor, cancelTxs, crashes>>

-----------------------------------------------------------------------------
\* Mutant: the monitor ends on every terminal status before it looks for a
\* cancel.
MonitorPollTerminalFirst(id) ==
    /\ monitor[id] = "polling"
    /\ IsTerminal(tasks[id])
    /\ monitor' = [monitor EXCEPT ![id] = "stopped"]
    /\ UNCHANGED <<tasks, worker, result, flag, cancelTxs, crashes>>

\* Mutant: any end of the task aborts the walk.
MonitorPollAnyEnd(id) ==
    /\ monitor[id] = "polling"
    /\ IsTerminal(tasks[id])
    /\ flag' = [flag EXCEPT ![id] = TRUE]
    /\ monitor' = [monitor EXCEPT ![id] = "stopped"]
    /\ UNCHANGED <<tasks, worker, result, cancelTxs, crashes>>

\* Mutant: only a cancel ends the monitor.
MonitorPollCancelOnly(id) ==
    /\ monitor[id] = "polling"
    /\ tasks[id] = "cancelled"
    /\ flag' = [flag EXCEPT ![id] = TRUE]
    /\ monitor' = [monitor EXCEPT ![id] = "stopped"]
    /\ UNCHANGED <<tasks, worker, result, cancelTxs, crashes>>

\* One poll that ends the monitor: a cancel raises the flag, another end of
\* the task does not, and an error is taken to mean that the task is gone.  A
\* poll of a live task changes nothing.
MonitorPoll(id) ==
    /\ monitor[id] = "polling"
    /\ \/ /\ tasks[id] = "cancelled"
          /\ flag' = [flag EXCEPT ![id] = TRUE]
       \/ /\ IsTerminal(tasks[id]) /\ tasks[id] # "cancelled"
          /\ UNCHANGED flag
       \/ /\ StoreFaults
          /\ UNCHANGED flag
    /\ monitor' = [monitor EXCEPT ![id] = "stopped"]
    /\ UNCHANGED <<tasks, worker, result, cancelTxs, crashes>>

-----------------------------------------------------------------------------
\* tasks/update by a client; an illegal one is refused.
ClientUpdate(id, to) ==
    /\ CanTransitionTo(tasks[id], to)
    /\ tasks' = [tasks EXCEPT ![id] = to]
    /\ UNCHANGED <<worker, result, flag, monitor, cancelTxs, crashes>>

\* tasks/cancel by a client.  Through another server on the same database it
\* can hit a task that has ended since that server looked at it.
ClientCancel(id) ==
    /\ tasks[id] # NoTask
    /\ \/ tasks' = [tasks EXCEPT ![id] = Cancel(@)]
       \/ SharedFile /\ tasks' = [tasks EXCEPT ![id] = "cancelled"]
    /\ UNCHANGED <<worker, result, flag, monitor, cancelTxs, crashes>>

\* The process dies and is started again: nothing looks at the tasks it left.
Crash ==
    /\ crashes < MaxCrashes
    /\ crashes' = crashes + 1
    /\ tasks' = IF Durable THEN tasks ELSE [id \in Ids |-> NoTask]
    /\ worker' = [id \in Ids |-> IF worker[id] = "none" THEN "none" ELSE "lost"]
    /\ monitor' = [id \in Ids |-> IF monitor[id] = "none" THEN "none" ELSE "stopped"]
    /\ cancelTxs' = {}
    /\ UNCHANGED <<result, flag>>

WorkerNext(id) ==
    \/ WalkFinishes(id)
    \/ WalkSkips(id)
    \/ WalkAborts(id)
    \/ WalkPanics(id)
    \/ DropSender(id)
    \/ CheckCancelled(id)
    \/ Settle(id)

Next ==
    \/ \E id \in Ids :
        \/ SpawnIndexTask(id)
        \/ SpawnRefused(id)
        \/ WorkerNext(id)
        \/ MonitorPoll(id)
        \/ \E to \in ClientTargets : ClientUpdate(id, to)
        \/ ClientCancel(id)
    \/ Crash

Spec == Init /\ [][Next]_vars

\* The runtime runs a spawned task that can go on, and a walk looks at the
\* flag before each entry.  A directory can be as large as it likes: nothing
\* is assumed of a walk that is not told to stop.  Clients need do nothing.
Fairness ==
    \A id \in Ids :
        /\ WF_vars(MonitorPoll(id))
        /\ WF_vars(WalkAborts(id))
        /\ WF_vars(DropSender(id) \/ CheckCancelled(id) \/ Settle(id))

FairSpec == Spec /\ Fairness

-----------------------------------------------------------------------------
Present(id) == worker[id] \notin {"none", "lost"}

\* The counts of a walk that stopped at a raised flag are never reported as a
\* completed task: only a cancel raises it, and the task stays cancelled.  Of a
\* walk that passed over what it could not read this says nothing.
AbortedNeverCompletes ==
    \A id \in Ids : Present(id) /\ result[id] = "aborted" => tasks[id] = "cancelled"

\* A cancel that lands between the worker's check and its update is not
\* overwritten: no step but the loss of a MemoryStore changes a cancelled task.
CancelWins ==
    [][\A id \in Ids : tasks[id] = "cancelled" =>
        tasks'[id] = "cancelled" \/ (~Durable /\ crashes' # crashes)]_vars

\* While a cancelled task is still walking, somebody is on the way to stop it:
\* the flag is up or the monitor has yet to poll.
CancelHasWatcher ==
    \A id \in Ids : tasks[id] = "cancelled" /\ worker[id] = "walking" =>
        flag[id] \/ monitor[id] = "polling"

\* With clients that do not complete tasks themselves, a task is completed
\* only by a walk that came to its end, never by one that was stopped or
\* panicked, and failed only by a panic.  A walk that could not read a part of
\* the directory completes its task like any other.
OutcomeMatchesWalk ==
    \A id \in Ids :
        /\ tasks[id] = "completed" => result[id] \in {"full", "skipped"}
        /\ tasks[id] = "failed" => result[id] = "panic"

\* With clients that only poll and cancel, a task that a poll shows as live has
\* a worker that will settle it.
LiveTaskHasWorker ==
    \A id \in Ids : tasks[id] \in {"working", "inputRequired"} =>
        worker[id] \in {"walking", "cleanup", "check", "settle"}

\* A worker leaves its task completed, failed or cancelled when it exits.
WorkerExitSettles ==
    \A id \in Ids : worker[id] = "exited" => IsTerminal(tasks[id])

\* A cancelled task's walk ends, however large the directory: cancel reaches
\* the worker through the monitor, and the worker exits.
CancelStopsWorker ==
    \A id \in Ids : tasks[id] = "cancelled" ~> worker[id] \in {"exited", "lost"}

\* A walk that has ended, in whichever way, ends its task, unless the process
\* dies first.
EndedWalkSettles ==
    \A id \in Ids : worker[id] = "cleanup" ~> IsTerminal(tasks[id]) \/ worker[id] = "lost"

\* No monitor goes on polling for a worker that has exited.
MonitorEnds ==
    \A id \in Ids : worker[id] = "exited" ~> monitor[id] = "stopped"
=============================================================================
