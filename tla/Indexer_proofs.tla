--------------------------- MODULE Indexer_proofs ---------------------------
(***************************************************************************)
(* Theorems about Indexer, for any ids, any number of crashes, either kind *)
(* of store, other servers on it, and whatever clients ask for.            *)
(***************************************************************************)
EXTENDS Indexer, TLAPS

\* Type correctness.
LEMMA TypeInit == Init => TypeOK
<1> SUFFICES ASSUME Init PROVE TypeOK
    OBVIOUS
<1>1. crashes \in 0..MaxCrashes
    BY CrashAssumption DEF Init
<1>2. \A id \in Ids : worker[id] = "none" /\ id \notin cancelTxs
    BY DEF Init
<1> QED
    BY <1>1, <1>2 DEF Init, TypeOK

LEMMA TypeStep ==
    ASSUME TypeOK, [Next]_vars
    PROVE  TypeOK'
<1> USE DEF TypeOK
<1>1. ASSUME NEW id \in Ids, SpawnIndexTask(id) PROVE TypeOK'
    BY <1>1 DEF SpawnIndexTask, TaskStatus
<1>2. ASSUME NEW id \in Ids, SpawnRefused(id) PROVE TypeOK'
    BY <1>2 DEF SpawnRefused
<1>3. ASSUME NEW id \in Ids, NEW r \in {"full", "skipped", "aborted", "panic"}, WalkEnds(id, r)
      PROVE  TypeOK'
    BY <1>3 DEF WalkEnds
<1>4. ASSUME NEW id \in Ids, DropSender(id) PROVE TypeOK'
    BY <1>4 DEF DropSender
<1>5. ASSUME NEW id \in Ids, CheckCancelled(id) PROVE TypeOK'
    BY <1>5 DEF CheckCancelled
<1>6. ASSUME NEW id \in Ids, Settle(id) PROVE TypeOK'
    <2>1. tasks' \in [Ids -> TaskStatus \cup {NoTask}]
        BY <1>6 DEF Settle, Outcome, TaskStatus
    <2> QED
        BY <1>6, <2>1 DEF Settle
<1>7. ASSUME NEW id \in Ids, MonitorPoll(id) PROVE TypeOK'
    BY <1>7 DEF MonitorPoll
<1>8. ASSUME NEW id \in Ids, NEW to \in ClientTargets, ClientUpdate(id, to) PROVE TypeOK'
    BY <1>8, TargetsAssumption DEF ClientUpdate
<1>9. ASSUME NEW id \in Ids, ClientCancel(id) PROVE TypeOK'
    BY <1>9 DEF ClientCancel, Cancel, TaskStatus
<1>10. CASE Crash
    BY <1>10, CrashAssumption DEF Crash
<1>11. CASE UNCHANGED vars
    BY <1>11 DEF vars
<1> QED
    BY <1>1, <1>2, <1>3, <1>4, <1>5, <1>6, <1>7, <1>8, <1>9, <1>10, <1>11
    DEF Next, WorkerNext, WalkFinishes, WalkSkips, WalkAborts, WalkPanics

\* The types of the indexer, among them that only a running worker has a sender.
THEOREM TypeCorrect == Spec => []TypeOK
    BY TypeInit, TypeStep, PTL DEF Spec

-----------------------------------------------------------------------------
\* An id that is not used yet has left no trace, a raised flag means a cancel,
\* and a walk has a result only once it has ended.
FlagOf(id) ==
    /\ worker[id] = "none" => tasks[id] = NoTask /\ ~flag[id] /\ result[id] = "none"
    /\ Present(id) /\ flag[id] => tasks[id] = "cancelled"
    /\ Present(id) /\ result[id] = "aborted" => tasks[id] = "cancelled"
    /\ worker[id] = "walking" => result[id] = "none"

FlagInv == \A id \in Ids : FlagOf(id)


\* Nothing that Next does to the task of another id, but for a crash.
LEMMA OthersKept ==
    ASSUME TypeOK, NEW id \in Ids, NEW d \in Ids, d # id,
           \/ SpawnIndexTask(id) \/ SpawnRefused(id) \/ WorkerNext(id) \/ MonitorPoll(id)
           \/ (\E to \in ClientTargets : ClientUpdate(id, to)) \/ ClientCancel(id)
    PROVE  /\ tasks'[d] = tasks[d] /\ worker'[d] = worker[d]
           /\ result'[d] = result[d] /\ flag'[d] = flag[d]
           /\ monitor'[d] = monitor[d]
<1> USE DEF TypeOK
<1>1. CASE WorkerNext(id)
    BY <1>1 DEF WorkerNext, WalkFinishes, WalkSkips, WalkAborts, WalkPanics, WalkEnds, DropSender,
                CheckCancelled, Settle
<1>2. CASE SpawnIndexTask(id) \/ SpawnRefused(id) \/ MonitorPoll(id)
    BY <1>2 DEF SpawnIndexTask, SpawnRefused, MonitorPoll
<1>3. CASE (\E to \in ClientTargets : ClientUpdate(id, to)) \/ ClientCancel(id)
    BY <1>3 DEF ClientUpdate, ClientCancel
<1> QED
    BY <1>1, <1>2, <1>3

\* An id in use, with a result that agrees with the store, after a step that
\* has not taken back a cancel.
LEMMA FlagFrame ==
    ASSUME NEW id \in Ids, FlagOf(id), worker[id] # "none", worker'[id] # "none",
           worker'[id] = "walking" => worker[id] = "walking" /\ result'[id] = result[id],
           Present(id)' => Present(id),
           Present(id)' /\ tasks[id] = "cancelled" => tasks'[id] = "cancelled",
           flag'[id] = flag[id] \/ tasks[id] = "cancelled",
           result'[id] = result[id] \/ result'[id] # "aborted" \/ flag[id]
    PROVE  FlagOf(id)'
    BY DEF FlagOf

LEMMA FlagStep ==
    ASSUME TypeOK, FlagInv, [Next]_vars
    PROVE  FlagInv'
<1> SUFFICES ASSUME NEW d \in Ids PROVE FlagOf(d)'
    BY DEF FlagInv
<1>0. FlagOf(d)
    BY DEF FlagInv
<1> USE DEF TypeOK
<1>1. CASE SpawnIndexTask(d)
    BY <1>0, <1>1 DEF SpawnIndexTask, FlagOf, Present
<1>2. CASE SpawnRefused(d)
    BY <1>0, <1>2 DEF SpawnRefused, FlagOf, Present
<1>3. ASSUME NEW r \in {"full", "skipped", "aborted", "panic"}, WalkEnds(d, r),
             r = "aborted" => flag[d]
      PROVE  FlagOf(d)'
    BY <1>0, <1>3, FlagFrame DEF WalkEnds, Present
<1>4. CASE DropSender(d)
    BY <1>0, <1>4, FlagFrame DEF DropSender, Present
<1>5. CASE CheckCancelled(d)
    BY <1>0, <1>5, FlagFrame DEF CheckCancelled, Present
<1>6. CASE Settle(d)
    <2>1. tasks[d] = "cancelled" => tasks'[d] = "cancelled"
        BY <1>6 DEF Settle, CanTransitionTo
    <2> QED
        BY <1>0, <1>6, <2>1, FlagFrame DEF Settle, Present
<1>7. CASE MonitorPoll(d)
    <2>1. worker'[d] = worker[d] /\ result'[d] = result[d] /\ tasks'[d] = tasks[d]
          /\ (flag'[d] = flag[d] \/ tasks[d] = "cancelled")
        BY <1>7 DEF MonitorPoll
    <2>2. CASE worker[d] = "none"
        BY <1>0, <2>1, <2>2 DEF FlagOf, Present, NoTask
    <2>3. CASE worker[d] # "none"
        BY <1>0, <2>1, <2>3, FlagFrame DEF Present
    <2> QED
        BY <2>2, <2>3
<1>8. ASSUME NEW to \in ClientTargets, ClientUpdate(d, to) PROVE FlagOf(d)'
    <2>1. tasks[d] \notin {NoTask, "cancelled"}
        BY <1>8 DEF ClientUpdate, CanTransitionTo, NoTask
    <2>2. worker[d] # "none"
        BY <1>0, <2>1 DEF FlagOf
    <2> QED
        BY <1>0, <1>8, <2>1, <2>2, FlagFrame DEF ClientUpdate, Present
<1>9. CASE ClientCancel(d)
    <2>1. worker[d] # "none"
        BY <1>0, <1>9 DEF ClientCancel, FlagOf
    <2>2. tasks[d] = "cancelled" => tasks'[d] = "cancelled"
        BY <1>9 DEF ClientCancel, Cancel, IsTerminal, Terminal
    <2> QED
        BY <1>0, <1>9, <2>1, <2>2, FlagFrame DEF ClientCancel, Present
<1>10. CASE Crash
    BY <1>0, <1>10 DEF Crash, FlagOf, Present
<1>11. CASE UNCHANGED vars
    BY <1>0, <1>11 DEF vars, FlagOf, Present
<1>12. ASSUME NEW id \in Ids, id # d,
              \/ SpawnIndexTask(id) \/ SpawnRefused(id) \/ WorkerNext(id) \/ MonitorPoll(id)
              \/ (\E to \in ClientTargets : ClientUpdate(id, to)) \/ ClientCancel(id)
       PROVE  FlagOf(d)'
    BY <1>0, <1>12, OthersKept DEF FlagOf, Present
<1> QED
    BY <1>1, <1>2, <1>3, <1>4, <1>5, <1>6, <1>7, <1>8, <1>9, <1>10, <1>11, <1>12
    DEF Next, WorkerNext, WalkFinishes, WalkSkips, WalkAborts, WalkPanics

LEMMA FlagAlways == Spec => []FlagInv
<1>1. Init => FlagInv
    BY DEF Init, FlagInv, FlagOf, Present
<1> QED
    BY <1>1, FlagStep, TypeCorrect, PTL DEF Spec

\* A walk that stopped at a raised flag is never reported as completed.
THEOREM AbortedStaysCancelled == Spec => []AbortedNeverCompletes
<1>1. FlagInv => AbortedNeverCompletes
    BY DEF FlagInv, FlagOf, AbortedNeverCompletes
<1> QED
    BY <1>1, FlagAlways, PTL

\* A cancelled task stays cancelled, whatever its worker and the clients do,
\* unless its store is lost.
THEOREM CancelsWin == Spec => CancelWins
<1>1. ASSUME TypeOK, FlagInv, [Next]_vars, NEW d \in Ids, tasks[d] = "cancelled"
      PROVE  tasks'[d] = "cancelled" \/ (~Durable /\ crashes' # crashes)
    <2>1. worker[d] # "none"
        BY <1>1 DEF FlagInv, FlagOf, NoTask
    <2>2. CASE SpawnIndexTask(d) \/ SpawnRefused(d)
        BY <2>1, <2>2 DEF SpawnIndexTask, SpawnRefused
    <2>3. CASE WorkerNext(d) \/ MonitorPoll(d)
        BY <1>1, <2>3 DEF WorkerNext, WalkFinishes, WalkSkips, WalkAborts, WalkPanics, WalkEnds, DropSender,
                    CheckCancelled, Settle, MonitorPoll, CanTransitionTo
    <2>4. CASE \E to \in ClientTargets : ClientUpdate(d, to)
        BY <1>1, <2>4 DEF ClientUpdate, CanTransitionTo
    <2>5. CASE ClientCancel(d)
        BY <1>1, <2>5 DEF ClientCancel, Cancel, IsTerminal, Terminal, TypeOK
    <2>6. CASE Crash
        BY <1>1, <2>6 DEF Crash, TypeOK
    <2>7. CASE UNCHANGED vars
        BY <1>1, <2>7 DEF vars
    <2>8. ASSUME NEW id \in Ids, id # d,
                 \/ SpawnIndexTask(id) \/ SpawnRefused(id) \/ WorkerNext(id) \/ MonitorPoll(id)
                 \/ (\E to \in ClientTargets : ClientUpdate(id, to)) \/ ClientCancel(id)
          PROVE  tasks'[d] = "cancelled"
        BY <1>1, <2>8, OthersKept
    <2> QED
        BY <1>1, <2>2, <2>3, <2>4, <2>5, <2>6, <2>7, <2>8 DEF Next
<1>2. TypeOK /\ FlagInv /\ [Next]_vars =>
        [\A id \in Ids : tasks[id] = "cancelled" =>
            tasks'[id] = "cancelled" \/ (~Durable /\ crashes' # crashes)]_vars
    BY <1>1
<1> QED
    BY <1>2, TypeCorrect, FlagAlways, PTL DEF Spec, CancelWins

-----------------------------------------------------------------------------
\* Clients leave it to the worker to complete a task or to fail it.
ClientsDoNotSettle == ClientTargets \cap {"completed", "failed"} = {}

\* A completed or failed task has seen its worker out, which leaves the result.
OutcomeOf(id) ==
    /\ tasks[id] \in {"completed", "failed"} => worker[id] \in {"exited", "lost"}
    /\ tasks[id] = "completed" => result[id] \in {"full", "skipped"}
    /\ tasks[id] = "failed" => result[id] = "panic"

OutcomeInv == \A id \in Ids : OutcomeOf(id)

LEMMA OutcomeStep ==
    ASSUME ClientsDoNotSettle, TypeOK, FlagInv, OutcomeInv, [Next]_vars
    PROVE  OutcomeInv'
<1> SUFFICES ASSUME NEW d \in Ids PROVE OutcomeOf(d)'
    BY DEF OutcomeInv
<1>0. OutcomeOf(d) /\ FlagOf(d)
    BY DEF OutcomeInv, FlagInv
<1>1. CASE SpawnIndexTask(d)
    BY <1>1 DEF SpawnIndexTask, OutcomeOf, TypeOK
<1>2. CASE SpawnRefused(d)
    BY <1>0, <1>2 DEF SpawnRefused, OutcomeOf, TypeOK
<1>3. ASSUME NEW r \in {"full", "skipped", "aborted", "panic"}, WalkEnds(d, r)
      PROVE  OutcomeOf(d)'
    BY <1>0, <1>3 DEF WalkEnds, OutcomeOf, TypeOK
<1>4. CASE DropSender(d) \/ CheckCancelled(d)
    BY <1>0, <1>4 DEF DropSender, CheckCancelled, OutcomeOf, TypeOK
<1>5. CASE Settle(d)
    <2>1. worker[d] = "settle" /\ worker'[d] = "exited" /\ result'[d] = result[d]
        BY <1>5 DEF Settle, TypeOK
    <2>2. CASE CanTransitionTo(tasks[d], Outcome(d)) /\ tasks'[d] = Outcome(d)
        <3>1. result[d] \in {"full", "skipped", "panic"}
            BY <1>0, <2>1, <2>2 DEF FlagOf, Present, CanTransitionTo, TypeOK
        <3> QED
            BY <2>1, <2>2, <3>1 DEF OutcomeOf, Outcome
    <2>3. CASE tasks'[d] = tasks[d]
        BY <1>0, <2>1, <2>3 DEF OutcomeOf
    <2> QED
        BY <1>5, <2>2, <2>3 DEF Settle, TypeOK
<1>6. CASE MonitorPoll(d)
    BY <1>0, <1>6 DEF MonitorPoll, OutcomeOf
<1>7. ASSUME NEW to \in ClientTargets, ClientUpdate(d, to) PROVE OutcomeOf(d)'
    BY <1>7 DEF ClientUpdate, ClientsDoNotSettle, OutcomeOf, TypeOK
<1>8. CASE ClientCancel(d)
    BY <1>0, <1>8 DEF ClientCancel, Cancel, IsTerminal, Terminal, OutcomeOf, TypeOK
<1>9. CASE Crash
    BY <1>0, <1>9 DEF Crash, OutcomeOf, NoTask, TypeOK
<1>10. CASE UNCHANGED vars
    BY <1>0, <1>10 DEF vars, OutcomeOf
<1>11. ASSUME NEW id \in Ids, id # d,
              \/ SpawnIndexTask(id) \/ SpawnRefused(id) \/ WorkerNext(id) \/ MonitorPoll(id)
              \/ (\E to \in ClientTargets : ClientUpdate(id, to)) \/ ClientCancel(id)
       PROVE  OutcomeOf(d)'
    BY <1>0, <1>11, OthersKept DEF OutcomeOf
<1> QED
    BY <1>1, <1>2, <1>3, <1>4, <1>5, <1>6, <1>7, <1>8, <1>9, <1>10, <1>11
    DEF Next, WorkerNext, WalkFinishes, WalkSkips, WalkAborts, WalkPanics

\* Unless clients settle tasks themselves, only a walk that came to its end
\* completes a task and only a panic fails it, through faults, crashes and
\* cancels.
THEOREM OutcomesMatch ==
    ASSUME ClientsDoNotSettle
    PROVE  Spec => []OutcomeMatchesWalk
<1>1. Init => OutcomeInv
    BY DEF Init, OutcomeInv, OutcomeOf, NoTask
<1>2. TypeOK /\ FlagInv /\ OutcomeInv /\ [Next]_vars => OutcomeInv'
    BY OutcomeStep
<1>3. OutcomeInv => OutcomeMatchesWalk
    BY DEF OutcomeInv, OutcomeOf, OutcomeMatchesWalk
<1> QED
    BY <1>1, <1>2, <1>3, TypeCorrect, FlagAlways, PTL DEF Spec

-----------------------------------------------------------------------------
\* Nothing fails, nothing dies, and clients only poll and cancel.
Undisturbed == ~StoreFaults /\ MaxCrashes = 0 /\ ClientTargets = {}

LiveOf(id) ==
    /\ tasks[id] # "inputRequired"
    /\ tasks[id] = "working" => worker[id] \in {"walking", "cleanup", "check", "settle"}

LiveInv == \A id \in Ids : LiveOf(id)

LEMMA LiveStep ==
    ASSUME Undisturbed, TypeOK, FlagInv, LiveInv, [Next]_vars
    PROVE  LiveInv'
<1> SUFFICES ASSUME NEW d \in Ids PROVE LiveOf(d)'
    BY DEF LiveInv
<1>0. LiveOf(d) /\ FlagOf(d)
    BY DEF LiveInv, FlagInv
<1> USE DEF TypeOK
<1>1. CASE SpawnIndexTask(d)
    BY <1>1 DEF SpawnIndexTask, LiveOf
<1>2. ASSUME NEW r \in {"full", "skipped", "aborted", "panic"}, WalkEnds(d, r)
      PROVE  LiveOf(d)'
    BY <1>0, <1>2 DEF WalkEnds, LiveOf
<1>3. CASE DropSender(d) \/ CheckCancelled(d)
    BY <1>0, <1>3 DEF DropSender, CheckCancelled, LiveOf
<1>4. CASE Settle(d)
    <2>1. Outcome(d) \in {"completed", "failed"}
        BY DEF Outcome
    <2>2. tasks[d] = "working" => CanTransitionTo(tasks[d], Outcome(d))
        BY <2>1 DEF CanTransitionTo
    <2> QED
        BY <1>0, <1>4, <2>1, <2>2 DEF Settle, LiveOf, Undisturbed
<1>5. CASE MonitorPoll(d)
    BY <1>0, <1>5 DEF MonitorPoll, LiveOf
<1>6. CASE ClientCancel(d)
    BY <1>0, <1>6 DEF ClientCancel, Cancel, IsTerminal, Terminal, LiveOf
<1>7. ~Crash /\ ~SpawnRefused(d) /\ ~(\E to \in ClientTargets : ClientUpdate(d, to))
    BY DEF Crash, SpawnRefused, Undisturbed
<1>8. CASE UNCHANGED vars
    BY <1>0, <1>8 DEF vars, LiveOf
<1>9. ASSUME NEW id \in Ids, id # d,
             \/ SpawnIndexTask(id) \/ SpawnRefused(id) \/ WorkerNext(id) \/ MonitorPoll(id)
             \/ (\E to \in ClientTargets : ClientUpdate(id, to)) \/ ClientCancel(id)
      PROVE  LiveOf(d)'
    BY <1>0, <1>9, OthersKept DEF LiveOf
<1> QED
    BY <1>1, <1>2, <1>3, <1>4, <1>5, <1>6, <1>7, <1>8, <1>9
    DEF Next, WorkerNext, WalkFinishes, WalkSkips, WalkAborts, WalkPanics

\* Where nothing fails and clients only poll and cancel, a task that a poll
\* shows as live has a worker.
THEOREM LiveHasWorker ==
    ASSUME Undisturbed
    PROVE  Spec => []LiveTaskHasWorker
<1>1. Init => LiveInv
    BY DEF Init, LiveInv, LiveOf, NoTask
<1>2. TypeOK /\ FlagInv /\ LiveInv /\ [Next]_vars => LiveInv'
    BY LiveStep
<1>3. LiveInv => LiveTaskHasWorker
    BY DEF LiveInv, LiveOf, LiveTaskHasWorker
<1> QED
    BY <1>1, <1>2, <1>3, TypeCorrect, FlagAlways, PTL DEF Spec

-----------------------------------------------------------------------------
\* No poll fails.  Where another server can cancel a task that has ended, clients
\* do not end it under the walk: its monitor would have left already.
MonitorsStay == ~StoreFaults /\ (SharedFile => ClientsDoNotSettle)

\* A walk without a monitor and without a raised flag is one of an ended task.
WatchOf(id) ==
    worker[id] = "walking" =>
        flag[id] \/ monitor[id] = "polling" \/ tasks[id] \in {"completed", "failed"}

WatchInv ==
    /\ SharedFile => OutcomeInv
    /\ \A id \in Ids : WatchOf(id)

LEMMA WatchStep ==
    ASSUME MonitorsStay, TypeOK, FlagInv, WatchInv, [Next]_vars
    PROVE  WatchInv'
<1>0. ASSUME SharedFile PROVE OutcomeInv'
    BY <1>0, OutcomeStep DEF MonitorsStay, WatchInv
<1> SUFFICES ASSUME NEW d \in Ids PROVE WatchOf(d)'
    BY <1>0 DEF WatchInv
<1>1. WatchOf(d) /\ (SharedFile => OutcomeOf(d))
    BY DEF WatchInv, OutcomeInv
<1>2. CASE SpawnIndexTask(d) \/ SpawnRefused(d)
    BY <1>1, <1>2 DEF SpawnIndexTask, SpawnRefused, WatchOf, TypeOK
<1>3. CASE WorkerNext(d)
    BY <1>1, <1>3 DEF WorkerNext, WalkFinishes, WalkSkips, WalkAborts, WalkPanics, WalkEnds, DropSender,
                      CheckCancelled, Settle, WatchOf, TypeOK
<1>4. CASE MonitorPoll(d)
    BY <1>1, <1>4 DEF MonitorPoll, MonitorsStay, IsTerminal, Terminal, WatchOf, TypeOK
<1>5. ASSUME NEW to \in ClientTargets, ClientUpdate(d, to) PROVE WatchOf(d)'
    BY <1>1, <1>5 DEF ClientUpdate, CanTransitionTo, WatchOf, TypeOK
<1>6. CASE ClientCancel(d)
    <2>1. /\ worker'[d] = worker[d] /\ flag'[d] = flag[d] /\ monitor'[d] = monitor[d]
          /\ tasks'[d] = Cancel(tasks[d]) \/ SharedFile
        BY <1>6 DEF ClientCancel, TypeOK
    <2>2. tasks[d] \in {"completed", "failed"} /\ worker[d] = "walking" =>
              tasks'[d] = tasks[d]
        BY <1>1, <2>1 DEF Cancel, IsTerminal, Terminal, OutcomeOf
    <2> QED
        BY <1>1, <2>1, <2>2 DEF WatchOf
<1>7. CASE Crash
    BY <1>7 DEF Crash, WatchOf, TypeOK
<1>8. CASE UNCHANGED vars
    BY <1>1, <1>8 DEF vars, WatchOf
<1>9. ASSUME NEW id \in Ids, id # d,
             \/ SpawnIndexTask(id) \/ SpawnRefused(id) \/ WorkerNext(id) \/ MonitorPoll(id)
             \/ (\E to \in ClientTargets : ClientUpdate(id, to)) \/ ClientCancel(id)
      PROVE  WatchOf(d)'
    BY <1>1, <1>9, OthersKept DEF WatchOf
<1> QED
    BY <1>2, <1>3, <1>4, <1>5, <1>6, <1>7, <1>8, <1>9 DEF Next

LEMMA WatchAlways ==
    ASSUME MonitorsStay
    PROVE  Spec => []WatchInv
<1>1. Init => WatchInv
    BY DEF Init, WatchInv, WatchOf, OutcomeInv, OutcomeOf, NoTask
<1>2. TypeOK /\ FlagInv /\ WatchInv /\ [Next]_vars => WatchInv'
    BY WatchStep
<1> QED
    BY <1>1, <1>2, TypeCorrect, FlagAlways, PTL DEF Spec

\* While polls do not fail, a cancelled walk has somebody on the way to stop it,
\* through crashes, on either kind of store.
THEOREM CancelsAreWatched ==
    ASSUME MonitorsStay
    PROVE  Spec => []CancelHasWatcher
<1>1. WatchInv => CancelHasWatcher
    BY DEF WatchInv, WatchOf, CancelHasWatcher
<1> QED
    BY <1>1, WatchAlways, PTL

-----------------------------------------------------------------------------
\* The store works and clients do not pause tasks.
NoPauses == ~StoreFaults /\ "inputRequired" \notin ClientTargets

\* A task with a worker is stored, can be completed and has, or had, a monitor;
\* and a worker that exits leaves it ended.
SettledOf(id) ==
    /\ Present(id) => tasks[id] \notin {NoTask, "inputRequired"} /\ monitor[id] # "none"
    /\ worker[id] = "exited" => IsTerminal(tasks[id])

SettledInv == \A id \in Ids : SettledOf(id)

LEMMA SettledStep ==
    ASSUME NoPauses, TypeOK, SettledInv, [Next]_vars
    PROVE  SettledInv'
<1> SUFFICES ASSUME NEW d \in Ids PROVE SettledOf(d)'
    BY DEF SettledInv
<1>0. SettledOf(d)
    BY DEF SettledInv
<1> USE DEF TypeOK
<1>1. CASE SpawnIndexTask(d)
    BY <1>1 DEF SpawnIndexTask, SettledOf, Present, NoTask
<1>2. CASE SpawnRefused(d)
    BY <1>2 DEF SpawnRefused, SettledOf, Present
<1>3. ASSUME NEW r \in {"full", "skipped", "aborted", "panic"}, WalkEnds(d, r)
      PROVE  SettledOf(d)'
    BY <1>0, <1>3 DEF WalkEnds, SettledOf, Present
<1>4. CASE DropSender(d)
    BY <1>0, <1>4 DEF DropSender, SettledOf, Present
<1>5. CASE CheckCancelled(d)
    BY <1>0, <1>5 DEF CheckCancelled, SettledOf, Present, IsTerminal, Terminal
<1>6. CASE Settle(d)
    <2>1. /\ worker[d] = "settle" /\ worker'[d] = "exited" /\ monitor'[d] = monitor[d]
          /\ Outcome(d) \in {"completed", "failed"}
        BY <1>6 DEF Settle, Outcome
    <2>2. tasks[d] = "working" \/ IsTerminal(tasks[d])
        BY <1>0, <2>1 DEF SettledOf, Present, IsTerminal, Terminal, TaskStatus
    <2>3. IsTerminal(tasks'[d])
        BY <1>6, <2>1, <2>2 DEF Settle, NoPauses, CanTransitionTo, IsTerminal, Terminal
    <2> QED
        BY <2>1, <2>3, <1>0 DEF SettledOf, Present, IsTerminal, Terminal, NoTask
<1>7. CASE MonitorPoll(d)
    BY <1>0, <1>7 DEF MonitorPoll, SettledOf, Present
<1>8. ASSUME NEW to \in ClientTargets, ClientUpdate(d, to) PROVE SettledOf(d)'
    <2>1. /\ tasks'[d] \in TaskStatus \ {"inputRequired"} /\ ~IsTerminal(tasks[d])
          /\ worker'[d] = worker[d] /\ monitor'[d] = monitor[d]
        BY <1>8 DEF ClientUpdate, CanTransitionTo, NoPauses, IsTerminal, Terminal, TaskStatus
    <2> QED
        BY <1>0, <2>1 DEF SettledOf, Present, TaskStatus, NoTask
<1>9. CASE ClientCancel(d)
    <2>1. /\ tasks'[d] \in Terminal
          /\ worker'[d] = worker[d] /\ monitor'[d] = monitor[d]
        BY <1>9 DEF ClientCancel, Cancel, IsTerminal, Terminal
    <2> QED
        BY <1>0, <2>1 DEF SettledOf, Present, IsTerminal, Terminal, NoTask
<1>10. CASE Crash
    BY <1>10 DEF Crash, SettledOf, Present
<1>11. CASE UNCHANGED vars
    BY <1>0, <1>11 DEF vars, SettledOf, Present
<1>12. ASSUME NEW id \in Ids, id # d,
              \/ SpawnIndexTask(id) \/ SpawnRefused(id) \/ WorkerNext(id) \/ MonitorPoll(id)
              \/ (\E to \in ClientTargets : ClientUpdate(id, to)) \/ ClientCancel(id)
       PROVE  SettledOf(d)'
    BY <1>0, <1>12, OthersKept DEF SettledOf, Present
<1> QED
    BY <1>1, <1>2, <1>3, <1>4, <1>5, <1>6, <1>7, <1>8, <1>9, <1>10, <1>11, <1>12
    DEF Next, WorkerNext, WalkFinishes, WalkSkips, WalkAborts, WalkPanics

LEMMA SettledAlways ==
    ASSUME NoPauses
    PROVE  Spec => []SettledInv
<1>1. Init => SettledInv
    BY DEF Init, SettledInv, SettledOf, Present
<1> QED
    BY <1>1, SettledStep, TypeCorrect, PTL DEF Spec

\* A worker leaves its task completed, failed or cancelled when it exits, as
\* long as no statement fails and nobody pauses the task under it.
THEOREM ExitsSettle ==
    ASSUME NoPauses
    PROVE  Spec => []WorkerExitSettles
<1>1. SettledInv => WorkerExitSettles
    BY DEF SettledInv, SettledOf, WorkerExitSettles
<1> QED
    BY <1>1, SettledAlways, PTL

-----------------------------------------------------------------------------
(* Liveness.  The provers cannot evaluate ENABLED: what the runtime owes the   *)
(* threads of a task is weak fairness with the guard of each action in place   *)
(* of ENABLED, which is what ENABLED says of it.                               *)

CanPoll(id)    == monitor[id] = "polling" /\ (IsTerminal(tasks[id]) \/ StoreFaults)
CanAbort(id)   == worker[id] = "walking" /\ flag[id]
CanEnd(id)     == worker[id] \in {"cleanup", "check", "settle"}
WorkerEnds(id) == DropSender(id) \/ CheckCancelled(id) \/ Settle(id)

FairTo(id) ==
    /\ []<>~CanPoll(id) \/ []<><<MonitorPoll(id)>>_vars
    /\ []<>~CanAbort(id) \/ []<><<WalkAborts(id)>>_vars
    /\ []<>~CanEnd(id) \/ []<><<WorkerEnds(id)>>_vars

\* Where a worker can be after a step.
LEMMA WorkerMoves ==
    ASSUME TypeOK, [Next]_vars, NEW d \in Ids
    PROVE  /\ worker[d] = "walking" =>
                /\ worker'[d] \in {"walking", "cleanup", "lost"}
                /\ flag[d] => flag'[d]
                /\ tasks[d] = "cancelled" => tasks'[d] = "cancelled" \/ worker'[d] = "lost"
           /\ worker[d] = "cleanup" => worker'[d] \in {"cleanup", "check", "settle", "lost"}
           /\ worker[d] = "check" => worker'[d] \in {"check", "settle", "exited", "lost"}
           /\ worker[d] = "settle" => worker'[d] \in {"settle", "exited", "lost"}
           /\ worker[d] = "exited" /\ monitor[d] = "polling" =>
                \/ worker'[d] = "exited" /\ monitor'[d] = "polling"
                \/ monitor'[d] = "stopped"
<1> USE DEF TypeOK
<1>1. CASE SpawnIndexTask(d) \/ SpawnRefused(d)
    BY <1>1 DEF SpawnIndexTask, SpawnRefused
<1>2. CASE WorkerNext(d)
    BY <1>2 DEF WorkerNext, WalkFinishes, WalkSkips, WalkAborts, WalkPanics, WalkEnds, DropSender,
                CheckCancelled, Settle
<1>3. CASE MonitorPoll(d)
    BY <1>3 DEF MonitorPoll
<1>4. ASSUME NEW to \in ClientTargets, ClientUpdate(d, to)
      PROVE  /\ worker'[d] = worker[d] /\ flag'[d] = flag[d] /\ tasks[d] # "cancelled"
             /\ monitor'[d] = monitor[d]
    BY <1>4 DEF ClientUpdate, CanTransitionTo
<1>5. CASE ClientCancel(d)
    BY <1>5 DEF ClientCancel, Cancel, IsTerminal, Terminal
<1>6. CASE Crash
    BY <1>6 DEF Crash
<1>7. CASE UNCHANGED vars
    BY <1>7 DEF vars
<1>8. ASSUME NEW id \in Ids, id # d,
             \/ SpawnIndexTask(id) \/ SpawnRefused(id) \/ WorkerNext(id) \/ MonitorPoll(id)
             \/ (\E to \in ClientTargets : ClientUpdate(id, to)) \/ ClientCancel(id)
      PROVE  /\ tasks'[d] = tasks[d] /\ worker'[d] = worker[d] /\ flag'[d] = flag[d]
             /\ monitor'[d] = monitor[d]
    BY <1>8, OthersKept
<1> QED
    BY <1>1, <1>2, <1>3, <1>4, <1>5, <1>6, <1>7, <1>8 DEF Next

\* A walk that has ended lets its worker exit, whatever becomes of the task.
LEMMA WorkersExit ==
    ASSUME NEW id \in Ids
    PROVE  Spec /\ FairTo(id) => (CanEnd(id) ~> worker[id] \in {"exited", "lost"})
<1> DEFINE At(w) == worker[id] = w
           Out == worker[id] \in {"exited", "lost"}
<1>1. TypeOK /\ [Next]_vars /\ At("cleanup") => At("cleanup")' \/ At("check")' \/ At("settle")' \/ Out'
    BY WorkerMoves
<1>2. TypeOK /\ [Next]_vars /\ At("check") => At("check")' \/ At("settle")' \/ Out'
    BY WorkerMoves
<1>3. TypeOK /\ [Next]_vars /\ At("settle") => At("settle")' \/ Out'
    BY WorkerMoves
<1>4. TypeOK /\ At("cleanup") /\ <<WorkerEnds(id)>>_vars => At("check")' \/ At("settle")'
    BY DEF TypeOK, WorkerEnds, DropSender, CheckCancelled, Settle
<1>5. TypeOK /\ At("check") /\ <<WorkerEnds(id)>>_vars => At("settle")' \/ Out'
    BY DEF TypeOK, WorkerEnds, DropSender, CheckCancelled, Settle
<1>6. TypeOK /\ At("settle") /\ <<WorkerEnds(id)>>_vars => Out'
    BY DEF TypeOK, WorkerEnds, DropSender, CheckCancelled, Settle
<1>7. CanEnd(id) <=> At("cleanup") \/ At("check") \/ At("settle")
    BY DEF CanEnd
<1> HIDE DEF At, Out
<1>8. Spec /\ FairTo(id) => (At("settle") ~> Out)
    BY <1>3, <1>6, <1>7, TypeCorrect, PTL DEF Spec, FairTo
<1>9. Spec /\ FairTo(id) => (At("check") ~> Out)
    BY <1>2, <1>5, <1>7, <1>8, TypeCorrect, PTL DEF Spec, FairTo
<1>10. Spec /\ FairTo(id) => (At("cleanup") ~> Out)
    BY <1>1, <1>4, <1>7, <1>8, <1>9, TypeCorrect, PTL DEF Spec, FairTo
<1>11. Spec /\ FairTo(id) => (CanEnd(id) ~> Out)
    BY <1>7, <1>8, <1>9, <1>10, PTL
<1> QED
    BY <1>11 DEF Out

\* The walk of a cancelled task ends: its monitor is there until it has raised
\* the flag, and nothing takes the flag or the cancel back.
THEOREM CancelsStopWorkers ==
    ASSUME MonitorsStay
    PROVE  Spec /\ (\A id \in Ids : FairTo(id)) => CancelStopsWorker
<1> SUFFICES ASSUME NEW id \in Ids
             PROVE  Spec /\ FairTo(id) =>
                        (tasks[id] = "cancelled" ~> worker[id] \in {"exited", "lost"})
    BY DEF CancelStopsWorker
<1> DEFINE Cancelled == tasks[id] = "cancelled"
           Unflagged == Cancelled /\ worker[id] = "walking" /\ ~flag[id]
           Flagged == Cancelled /\ worker[id] = "walking" /\ flag[id]
           Ended == worker[id] = "cleanup"
           Out == worker[id] \in {"exited", "lost"}
<1>1. Cancelled /\ TypeOK /\ FlagInv => Unflagged \/ Flagged \/ CanEnd(id) \/ Out
    BY DEF TypeOK, FlagInv, FlagOf, CanEnd, NoTask
<1>2. TypeOK /\ [Next]_vars /\ Unflagged => Unflagged' \/ Flagged' \/ Ended' \/ Out'
    BY WorkerMoves DEF TypeOK
<1>3. TypeOK /\ [Next]_vars /\ Flagged => Flagged' \/ Ended' \/ Out'
    BY WorkerMoves DEF TypeOK
<1>4. TypeOK /\ Unflagged /\ <<MonitorPoll(id)>>_vars => ~Unflagged'
    BY DEF TypeOK, MonitorPoll, MonitorsStay
<1>5. TypeOK /\ Flagged /\ <<WalkAborts(id)>>_vars => ~Flagged'
    BY DEF TypeOK, WalkAborts, WalkEnds
<1>6. WatchInv /\ Unflagged => CanPoll(id)
    BY DEF WatchInv, WatchOf, CanPoll, IsTerminal, Terminal
<1>7. Flagged => CanAbort(id)
    BY DEF CanAbort
<1>8. Ended => CanEnd(id)
    BY DEF CanEnd
<1>9. Spec /\ FairTo(id) => (CanEnd(id) ~> Out)
    BY WorkersExit
<1> HIDE DEF Unflagged, Flagged, Ended, Out
<1>10. Spec /\ FairTo(id) => (Flagged ~> Out)
    BY <1>3, <1>5, <1>7, <1>8, <1>9, TypeCorrect, PTL DEF Spec, FairTo
<1>11. Spec /\ FairTo(id) => (Unflagged ~> Out)
    BY <1>2, <1>4, <1>6, <1>8, <1>9, <1>10, TypeCorrect, WatchAlways, PTL DEF Spec, FairTo
<1>12. Spec /\ FairTo(id) => (Cancelled ~> Out)
    BY <1>1, <1>9, <1>10, <1>11, TypeCorrect, FlagAlways, PTL DEF Spec
<1> QED
    BY <1>12 DEF Out

\* A walk that has ended, in whichever way, ends its task, unless the process
\* dies first.
THEOREM EndedWalksSettle ==
    ASSUME NoPauses
    PROVE  Spec /\ (\A id \in Ids : FairTo(id)) => EndedWalkSettles
<1> SUFFICES ASSUME NEW id \in Ids
             PROVE  Spec /\ FairTo(id) =>
                        (worker[id] = "cleanup" ~> IsTerminal(tasks[id]) \/ worker[id] = "lost")
    BY DEF EndedWalkSettles
<1> DEFINE Ended == worker[id] = "cleanup"
           Out == worker[id] \in {"exited", "lost"}
           Settled == IsTerminal(tasks[id]) \/ worker[id] = "lost"
<1>1. Ended => CanEnd(id)
    BY DEF CanEnd
<1>2. SettledInv /\ Out => Settled
    BY DEF SettledInv, SettledOf
<1>3. Spec /\ FairTo(id) => (CanEnd(id) ~> Out)
    BY WorkersExit
<1> HIDE DEF Ended, Out, Settled
<1>4. Spec /\ FairTo(id) => (Ended ~> Settled)
    BY <1>1, <1>2, <1>3, SettledAlways, PTL
<1> QED
    BY <1>4 DEF Ended, Settled

\* No monitor goes on polling for a worker that has exited.
THEOREM MonitorsEnd ==
    ASSUME NoPauses
    PROVE  Spec /\ (\A id \in Ids : FairTo(id)) => MonitorEnds
<1> SUFFICES ASSUME NEW id \in Ids
             PROVE  Spec /\ FairTo(id) =>
                        (worker[id] = "exited" ~> monitor[id] = "stopped")
    BY DEF MonitorEnds
<1> DEFINE Exited == worker[id] = "exited"
           Polls == worker[id] = "exited" /\ monitor[id] = "polling"
           Stopped == monitor[id] = "stopped"
<1>1. TypeOK /\ SettledInv /\ Exited => Polls \/ Stopped
    BY DEF TypeOK, SettledInv, SettledOf, Present
<1>2. SettledInv /\ Polls => CanPoll(id)
    BY DEF SettledInv, SettledOf, CanPoll
<1>3. TypeOK /\ [Next]_vars /\ Polls => Polls' \/ Stopped'
    BY WorkerMoves
<1>4. TypeOK /\ <<MonitorPoll(id)>>_vars => Stopped'
    BY DEF TypeOK, MonitorPoll
<1> HIDE DEF Exited, Polls, Stopped
<1>5. Spec /\ FairTo(id) => (Exited ~> Stopped)
    BY <1>1, <1>2, <1>3, <1>4, SettledAlways, TypeCorrect, PTL DEF Spec, FairTo
<1> QED
    BY <1>5 DEF Exited, Stopped
=============================================================================
