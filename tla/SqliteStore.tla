---------------------------- MODULE SqliteStore ----------------------------
(***************************************************************************)
(* SqliteStore of longhaul-server/src/store.rs, one action per SQL         *)
(* statement.                                                              *)
(*                                                                         *)
(* An instance is one SqliteStore: a Mutex<Connection>.  The callers of an *)
(* instance exclude each other for the whole of a method; the callers of   *)
(* different instances share only the database file, whose statements each *)
(* run in a transaction of their own.  So what update and cancel read in   *)
(* their first statement can be out of date by their second.               *)
(***************************************************************************)
EXTENDS StoreInterface

CONSTANTS Callers,     \* the threads that call a store
          Instances,   \* the SqliteStores opened on the database file
          Home,        \* the instance each caller uses
          NoCaller     \* the holder of a free mutex

ASSUME HomeAssumption == Home \in [Callers -> Instances]
ASSUME NoCallerAssumption == NoCaller \notin Callers

VARIABLES db,      \* the tasks table: the status of each id, or NoTask
          lock,    \* who holds the mutex of each instance
          pc,      \* the next step of each caller
          req,     \* the call each caller is in
          seen,    \* the status the first statement of the call has read
          reply,   \* the result each caller is about to be given
          told     \* history: the terminal statuses told for the task now
                   \* stored under each id

vars == <<db, lock, pc, req, seen, reply, told>>

TypeOK ==
    /\ db \in [TaskIds -> TaskStatus \cup {NoTask}]
    /\ lock \in [Instances -> Callers \cup {NoCaller}]
    /\ pc \in [Callers -> {"idle", "called", "write", "reread", "done"}]
    /\ req \in [Callers -> Request \cup {NoRequest}]
    /\ seen \in [Callers -> TaskStatus \cup {NoTask}]
    /\ reply \in [Callers -> Reply \cup {NoReply}]
    /\ told \in [TaskIds -> SUBSET Terminal]
    /\ \A c \in Callers :
        /\ pc[c] \in {"called", "write", "reread"} => req[c] \in Request
        /\ pc[c] = "write" => req[c].op \in {"update", "cancel"} /\ seen[c] # NoTask
        /\ pc[c] = "reread" => req[c].op = "update"

Init ==
    /\ db = [id \in TaskIds |-> NoTask]
    /\ lock = [i \in Instances |-> NoCaller]
    /\ pc = [c \in Callers |-> "idle"]
    /\ req = [c \in Callers |-> NoRequest]
    /\ seen = [c \in Callers |-> NoTask]
    /\ reply = [c \in Callers |-> NoReply]
    /\ told = [id \in TaskIds |-> {}]

-----------------------------------------------------------------------------
Invoke(c, r) ==
    /\ pc[c] = "idle"
    /\ pc' = [pc EXCEPT ![c] = "called"]
    /\ req' = [req EXCEPT ![c] = r]
    /\ UNCHANGED <<db, lock, seen, reply, told>>

\* Caller c, in a call of op, can take the mutex of its instance.
MayStart(c, op) ==
    /\ pc[c] = "called"
    /\ req[c].op = op
    /\ lock[Home[c]] = NoCaller

\* Mutant: a method that returns early leaves the mutex locked.
AnswerLocked(c, r) ==
    /\ pc' = [pc EXCEPT ![c] = "done"]
    /\ req' = [req EXCEPT ![c] = NoRequest]
    /\ seen' = [seen EXCEPT ![c] = NoTask]
    /\ reply' = [reply EXCEPT ![c] = r]
    /\ UNCHANGED lock

\* The method of caller c returns r; its guard is dropped.
Answer(c, r) ==
    /\ pc' = [pc EXCEPT ![c] = "done"]
    /\ req' = [req EXCEPT ![c] = NoRequest]
    /\ seen' = [seen EXCEPT ![c] = NoTask]
    /\ reply' = [reply EXCEPT ![c] = r]
    /\ lock' = [lock EXCEPT ![Home[c]] = NoCaller]

Tell(id, r) == told' = [told EXCEPT ![id] = @ \cup Told(r)]

\* Mutant: the mutex is taken per statement, not for the whole method.
GoOnUnlocked(c, step) ==
    /\ pc' = [pc EXCEPT ![c] = step]
    /\ seen' = [seen EXCEPT ![c] = db[req[c].id]]
    /\ UNCHANGED <<db, lock, req, reply, told>>

\* The method of caller c has read the task and keeps the mutex for a second
\* statement.
GoOn(c, step) ==
    /\ pc' = [pc EXCEPT ![c] = step]
    /\ seen' = [seen EXCEPT ![c] = db[req[c].id]]
    /\ lock' = [lock EXCEPT ![Home[c]] = c]
    /\ UNCHANGED <<db, req, reply, told>>

-----------------------------------------------------------------------------
\* SELECT: the whole of get.
Get(c) ==
    /\ MayStart(c, "get")
    /\ LET id == req[c].id
           r  == IF db[id] = NoTask THEN NotFound ELSE Ok(db[id])
       IN  Answer(c, r) /\ Tell(id, r)
    /\ UNCHANGED db

\* Mutant: INSERT OR IGNORE.
InsertOrIgnore(c) ==
    /\ MayStart(c, "insert")
    /\ LET id == req[c].id
       IN  /\ db' = [db EXCEPT ![id] = IF @ = NoTask THEN req[c].to ELSE @]
           /\ told' = [told EXCEPT ![id] = {}]
    /\ Answer(c, Inserted)

\* INSERT OR REPLACE: a task stored under the same id is lost, and what was
\* told of it no longer binds.
Insert(c) ==
    /\ MayStart(c, "insert")
    /\ LET id == req[c].id
       IN  /\ db' = [db EXCEPT ![id] = req[c].to]
           /\ told' = [told EXCEPT ![id] = {}]
    /\ Answer(c, Inserted)

\* update: SELECT, then the lifecycle check.
UpdateRead(c) ==
    /\ MayStart(c, "update")
    /\ LET id == req[c].id IN
       \/ /\ db[id] = NoTask
          /\ Answer(c, NotFound)
          /\ UNCHANGED <<db, told>>
       \/ /\ db[id] # NoTask
          /\ ~CanTransitionTo(db[id], req[c].to)
          /\ Answer(c, Illegal(db[id], req[c].to))
          /\ Tell(id, Illegal(db[id], req[c].to))
          /\ UNCHANGED db
       \/ /\ db[id] # NoTask
          /\ CanTransitionTo(db[id], req[c].to)
          /\ GoOn(c, "write")

\* Mutant: UPDATE without AND status = ?3.
UpdateWriteUnguarded(c) ==
    /\ pc[c] = "write"
    /\ req[c].op = "update"
    /\ LET id == req[c].id IN
          /\ db' = [db EXCEPT ![id] = req[c].to]
          /\ Answer(c, Ok(req[c].to))
          /\ Tell(id, Ok(req[c].to))

\* Mutant: the number of changed rows is not looked at.
UpdateWriteUncounted(c) ==
    /\ pc[c] = "write"
    /\ req[c].op = "update"
    /\ LET id == req[c].id IN
          /\ db' = IF db[id] = seen[c] THEN [db EXCEPT ![id] = req[c].to] ELSE db
          /\ Answer(c, Ok(req[c].to))
          /\ Tell(id, Ok(req[c].to))

\* update: UPDATE ... WHERE id = ?2 AND status = ?3.  Another instance may
\* have changed the row since the SELECT; then nothing is written.
UpdateWrite(c) ==
    /\ pc[c] = "write"
    /\ req[c].op = "update"
    /\ LET id == req[c].id IN
       \/ /\ db[id] = seen[c]
          /\ db' = [db EXCEPT ![id] = req[c].to]
          /\ Answer(c, Ok(req[c].to))
          /\ Tell(id, Ok(req[c].to))
       \/ /\ db[id] # seen[c]
          /\ pc' = [pc EXCEPT ![c] = "reread"]
          /\ UNCHANGED <<db, lock, req, seen, reply, told>>

\* update: the second SELECT, which only words the error.
UpdateReread(c) ==
    /\ pc[c] = "reread"
    /\ LET id == req[c].id
           r  == IF db[id] = NoTask THEN NotFound ELSE Illegal(db[id], req[c].to)
       IN  Answer(c, r) /\ Tell(id, r)
    /\ UNCHANGED db

\* Mutant: a missing task is not told from a live one.
CancelReadBlind(c) ==
    /\ MayStart(c, "cancel")
    /\ LET id == req[c].id IN
       \/ /\ IsTerminal(db[id])
          /\ Answer(c, Ok(db[id]))
          /\ Tell(id, Ok(db[id]))
          /\ UNCHANGED db
       \/ /\ ~IsTerminal(db[id])
          /\ GoOn(c, "write")

\* cancel: SELECT, then Task::cancel, which leaves a terminal task alone.
CancelRead(c) ==
    /\ MayStart(c, "cancel")
    /\ LET id == req[c].id IN
       \/ /\ db[id] = NoTask
          /\ Answer(c, NotFound)
          /\ UNCHANGED <<db, told>>
       \/ /\ db[id] # NoTask
          /\ Cancel(db[id]) = db[id]
          /\ Answer(c, Ok(db[id]))
          /\ Tell(id, Ok(db[id]))
          /\ UNCHANGED db
       \/ /\ db[id] # NoTask
          /\ Cancel(db[id]) # db[id]
          /\ GoOn(c, "write")

\* cancel: UPDATE ... WHERE id = ?1, whatever the row's status is by now.
CancelWrite(c) ==
    /\ pc[c] = "write"
    /\ req[c].op = "cancel"
    /\ db' = [db EXCEPT ![req[c].id] = "cancelled"]
    /\ Answer(c, Ok("cancelled"))
    /\ Tell(req[c].id, Ok("cancelled"))

\* Any statement can fail (SQLITE_BUSY, SQLITE_IOERR, an unreadable status):
\* it has no effect and the method returns the error.
StatementError(c) ==
    /\ \/ pc[c] = "called" /\ lock[Home[c]] = NoCaller
       \/ pc[c] \in {"write", "reread"}
    /\ Answer(c, SqliteError)
    /\ UNCHANGED <<db, told>>

Return(c) ==
    /\ pc[c] = "done"
    /\ pc' = [pc EXCEPT ![c] = "idle"]
    /\ reply' = [reply EXCEPT ![c] = NoReply]
    /\ UNCHANGED <<db, lock, req, seen, told>>

\* The process of instance i dies and starts again: its calls are gone, its
\* mutex is new, and every statement that ran is in the database.
Crash(i) ==
    /\ pc' = [c \in Callers |-> IF Home[c] = i THEN "idle" ELSE pc[c]]
    /\ req' = [c \in Callers |-> IF Home[c] = i THEN NoRequest ELSE req[c]]
    /\ seen' = [c \in Callers |-> IF Home[c] = i THEN NoTask ELSE seen[c]]
    /\ reply' = [c \in Callers |-> IF Home[c] = i THEN NoReply ELSE reply[c]]
    /\ lock' = [lock EXCEPT ![i] = NoCaller]
    /\ UNCHANGED <<db, told>>

Next ==
    \/ \E c \in Callers :
        \/ \E r \in Request : Invoke(c, r)
        \/ Get(c)
        \/ Insert(c)
        \/ UpdateRead(c)
        \/ UpdateWrite(c)
        \/ UpdateReread(c)
        \/ CancelRead(c)
        \/ CancelWrite(c)
        \/ StatementError(c)
        \/ Return(c)
    \/ \E i \in Instances : Crash(i)

Spec == Init /\ [][Next]_vars

-----------------------------------------------------------------------------
(* What holds however many instances share the database.                   *)

\* A mutex is held only by a caller of its own instance that is between two
\* statements, so an early return or a failed statement never leaves a store
\* locked.
LockHeldInMethod ==
    \A i \in Instances : lock[i] # NoCaller =>
        Home[lock[i]] = i /\ pc[lock[i]] \in {"write", "reread"}

\* A task a caller was told is cancelled stays cancelled: no update that read
\* the task before the cancel overwrites it after (the guarded UPDATE).
CancelAckPersists ==
    \A id \in TaskIds : "cancelled" \in told[id] => db[id] = "cancelled"

\* No two callers are told opposite outcomes of the same task.
NoContradictoryOutcome ==
    \A id \in TaskIds : ~({"completed", "failed"} \subseteq told[id])

\* Caller c has just replaced the task of this id.
Replaces(c, id) == req[c].op = "insert" /\ req[c].id = id /\ reply'[c] = Inserted

\* Only a cancel can move a task against the lifecycle; an update moves it
\* along can_transition_to even when it read the task long before it wrote.
UpdatesFollowLifecycle ==
    [][\A id \in TaskIds :
        \/ db'[id] = db[id]
        \/ CanTransitionTo(db[id], db'[id])
        \/ db'[id] = "cancelled"
        \/ \E c \in Callers : Replaces(c, id)]_vars

-----------------------------------------------------------------------------
(* What holds when all callers share one instance.                         *)

\* Terminal states are absorbing: nothing but an insert under the same id
\* changes a finished task.
TerminalAbsorbing ==
    [][\A id \in TaskIds : IsTerminal(db[id]) =>
        db'[id] = db[id] \/ \E c \in Callers : Replaces(c, id)]_vars

\* The terminal status a caller has been told is the one the store holds, so
\* all later answers agree with it.
ReportsAgree == \A id \in TaskIds : told[id] \subseteq {db[id]}

\* A caller told its transition is illegal did ask for an illegal one.
IllegalRepliesAreIllegal ==
    \A c \in Callers : reply[c].kind = "illegal" =>
        ~CanTransitionTo(reply[c].status, reply[c].to)

-----------------------------------------------------------------------------
(* What SqliteStore promises its callers.                                  *)

Phase == [c \in Callers |->
    IF pc[c] \in {"idle", "done"} THEN pc[c] ELSE "called"]

Store(shared) == INSTANCE TaskStore WITH tasks <- db, phase <- Phase, SharedFile <- shared

\* One instance: every operation takes effect at one instant between its call
\* and its return.
ImplementsTaskStore == Store(FALSE)!Init /\ [][Store(FALSE)!Next]_(Store(FALSE)!vars)

\* However many instances: that is still so, and all that the others can do to
\* a method is to make a cancel hit a task that has ended and an update be
\* refused.  No write is lost and no answer is made up.
ImplementsSharedStore == Store(TRUE)!Init /\ [][Store(TRUE)!Next]_(Store(TRUE)!vars)
=============================================================================
