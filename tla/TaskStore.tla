------------------------------ MODULE TaskStore ------------------------------
(***************************************************************************)
(* What a TaskStore promises: every operation takes effect at one instant  *)
(* between its call and its return.  MemoryStore is written this way (the  *)
(* whole method runs under one mutex); SqliteStore is shown to implement   *)
(* it when all callers share one connection.                               *)
(*                                                                         *)
(* With SharedFile the tasks are also used through other stores, whose     *)
(* writes can fall between the look a method takes at a task and its own   *)
(* write.  This is what SqliteStore promises then: a cancel can hit a task *)
(* that has ended, and an update can be refused that was legal by the      *)
(* status it is refused with; nothing else.                                *)
(*                                                                         *)
(* told is a history variable: the terminal statuses callers have been     *)
(* told for the task currently stored under each id.                       *)
(***************************************************************************)
EXTENDS StoreInterface

CONSTANTS Callers,     \* the threads that call the store
          SharedFile   \* whether the same tasks are used through other stores

VARIABLES tasks,   \* the stored status of each id, or NoTask
          phase,   \* of each caller: idle, called (not yet performed), done
          req,     \* what each caller asked for
          reply,   \* what each caller is about to be given
          told

vars == <<tasks, phase, req, reply, told>>

TypeOK ==
    /\ tasks \in [TaskIds -> TaskStatus \cup {NoTask}]
    /\ phase \in [Callers -> {"idle", "called", "done"}]
    /\ req \in [Callers -> Request \cup {NoRequest}]
    /\ \A c \in Callers : phase[c] = "called" => req[c] \in Request
    /\ reply \in [Callers -> Reply \cup {NoReply}]
    /\ told \in [TaskIds -> SUBSET Terminal]

Init ==
    /\ tasks = [id \in TaskIds |-> NoTask]
    /\ phase = [c \in Callers |-> "idle"]
    /\ req = [c \in Callers |-> NoRequest]
    /\ reply = [c \in Callers |-> NoReply]
    /\ told = [id \in TaskIds |-> {}]

Invoke(c, r) ==
    /\ phase[c] = "idle"
    /\ phase' = [phase EXCEPT ![c] = "called"]
    /\ req' = [req EXCEPT ![c] = r]
    /\ UNCHANGED <<tasks, reply, told>>

\* The operation of caller c ends with result r.
Finish(c, r) ==
    /\ phase' = [phase EXCEPT ![c] = "done"]
    /\ req' = [req EXCEPT ![c] = NoRequest]
    /\ reply' = [reply EXCEPT ![c] = r]

Tell(id, r) == told' = [told EXCEPT ![id] = @ \cup Told(r)]

PerformGet(c, id) ==
    /\ UNCHANGED tasks
    /\ LET r == IF tasks[id] = NoTask THEN NotFound ELSE Ok(tasks[id])
       IN  Finish(c, r) /\ Tell(id, r)

PerformInsert(c, id) ==
    /\ tasks' = [tasks EXCEPT ![id] = req[c].to]
    /\ told' = [told EXCEPT ![id] = {}]
    /\ Finish(c, Inserted)

PerformUpdate(c, id) ==
    LET to == req[c].to IN
    \/ /\ CanTransitionTo(tasks[id], to)
       /\ tasks' = [tasks EXCEPT ![id] = to]
       /\ Finish(c, Ok(to)) /\ Tell(id, Ok(to))
    \/ /\ ~CanTransitionTo(tasks[id], to) \/ SharedFile
       /\ UNCHANGED tasks
       /\ LET r == IF tasks[id] = NoTask THEN NotFound ELSE Illegal(tasks[id], to)
          IN  Finish(c, r) /\ Tell(id, r)

PerformCancel(c, id) ==
    \/ /\ tasks[id] # NoTask
       /\ \E status \in {Cancel(tasks[id])} \cup IF SharedFile THEN {"cancelled"} ELSE {} :
            /\ tasks' = [tasks EXCEPT ![id] = status]
            /\ Finish(c, Ok(status)) /\ Tell(id, Ok(status))
    \/ /\ tasks[id] = NoTask
       /\ UNCHANGED tasks
       /\ Finish(c, NotFound) /\ Tell(id, NotFound)

Perform(c) ==
    /\ phase[c] = "called"
    /\ \/ req[c].op = "get"    /\ PerformGet(c, req[c].id)
       \/ req[c].op = "insert" /\ PerformInsert(c, req[c].id)
       \/ req[c].op = "update" /\ PerformUpdate(c, req[c].id)
       \/ req[c].op = "cancel" /\ PerformCancel(c, req[c].id)

\* An operation may fail in the backend; then it has had no effect.
Fail(c) ==
    /\ phase[c] = "called"
    /\ Finish(c, SqliteError)
    /\ UNCHANGED <<tasks, told>>

Return(c) ==
    /\ phase[c] = "done"
    /\ phase' = [phase EXCEPT ![c] = "idle"]
    /\ reply' = [reply EXCEPT ![c] = NoReply]
    /\ UNCHANGED <<tasks, req, told>>

\* The process the callers in S run in dies; what it stored survives.
Abandon(S) ==
    /\ phase' = [c \in Callers |-> IF c \in S THEN "idle" ELSE phase[c]]
    /\ req' = [c \in Callers |-> IF c \in S THEN NoRequest ELSE req[c]]
    /\ reply' = [c \in Callers |-> IF c \in S THEN NoReply ELSE reply[c]]
    /\ UNCHANGED <<tasks, told>>

Next ==
    \/ \E c \in Callers :
        \/ \E r \in Request : Invoke(c, r)
        \/ Perform(c)
        \/ Fail(c)
        \/ Return(c)
    \/ \E S \in SUBSET Callers : Abandon(S)

Spec == Init /\ [][Next]_vars

-----------------------------------------------------------------------------
(* What follows for the callers, whether or not the tasks are shared.      *)

\* A task a caller was told is cancelled stays cancelled.
CancelAckPersists ==
    \A id \in TaskIds : "cancelled" \in told[id] => tasks[id] = "cancelled"

\* No two callers are told opposite outcomes of the same task.
NoContradictoryOutcome ==
    \A id \in TaskIds : ~({"completed", "failed"} \subseteq told[id])

\* Caller c has just replaced the task of this id.
Replaces(c, id) == req[c].op = "insert" /\ req[c].id = id /\ reply'[c] = Inserted

\* Only a cancel can move a task against the lifecycle.
UpdatesFollowLifecycle ==
    [][\A id \in TaskIds :
        \/ tasks'[id] = tasks[id]
        \/ CanTransitionTo(tasks[id], tasks'[id])
        \/ tasks'[id] = "cancelled"
        \/ \E c \in Callers : Replaces(c, id)]_vars

-----------------------------------------------------------------------------
(* What follows when nobody else uses the tasks (~SharedFile).             *)

\* A finished task changes only when another is inserted under its id.
TerminalAbsorbing ==
    [][\A id \in TaskIds : IsTerminal(tasks[id]) =>
        tasks'[id] = tasks[id] \/ \E c \in Callers : Replaces(c, id)]_vars

\* The terminal status a caller has been told is the one the store holds.
ReportsAgree == \A id \in TaskIds : told[id] \subseteq {tasks[id]}

\* A caller told its transition is illegal did ask for an illegal one.
IllegalRepliesAreIllegal ==
    \A c \in Callers : reply[c].kind = "illegal" =>
        ~CanTransitionTo(reply[c].status, reply[c].to)
=============================================================================
