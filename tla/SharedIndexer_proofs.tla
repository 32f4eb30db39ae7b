------------------------ MODULE SharedIndexer_proofs ------------------------
(***************************************************************************)
(* SharedIndexer implements Indexer, and tells outcomes as walked, for any *)
(* tasks, any servers on the file and any clients.                         *)
(***************************************************************************)
EXTENDS SharedIndexer, SqliteStore_proofs

Busy(c) == pc[c] \in {"called", "write", "reread"}

-----------------------------------------------------------------------------
\* What a statement does.  It leads on to the next one, or it gives the reply r.

GoesOn(c) ==
    /\ req[c].op \in {"update", "cancel"}
    /\ \/ pc' = [pc EXCEPT ![c] = "write"] /\ db[req[c].id] # NoTask
       \/ pc' = [pc EXCEPT ![c] = "reread"]
    /\ UNCHANGED <<db, req, reply>>

\* No effect: a read, a refusal or a failure.
Reads(c, r) ==
    /\ UNCHANGED db
    /\ req[c].op = "insert" => r = SqliteError
    /\ req[c].op = "update" => r.kind # "ok"
    /\ r.kind = "ok" => r = Ok(db[req[c].id])

Stores(c, r) ==
    /\ req[c].op = "insert"
    /\ r = Inserted
    /\ db' = [db EXCEPT ![req[c].id] = "working"]

Moves(c, r) ==
    /\ req[c].op = "update"
    /\ r = Ok(req[c].to)
    /\ CanTransitionTo(db[req[c].id], req[c].to)
    /\ db' = [db EXCEPT ![req[c].id] = req[c].to]

Cancels(c, r) ==
    /\ req[c].op = "cancel"
    /\ pc[c] = "write"
    /\ r = Ok("cancelled")
    /\ db' = [db EXCEPT ![req[c].id] = "cancelled"]

Replies(c) ==
    /\ pc' = [pc EXCEPT ![c] = "done"]
    /\ req' = [req EXCEPT ![c] = NoRequest]
    /\ \E r \in Reply :
        /\ reply' = [reply EXCEPT ![c] = r]
        /\ Reads(c, r) \/ Stores(c, r) \/ Moves(c, r) \/ Cancels(c, r)

LEMMA ReplyKinds ==
    /\ \A s : Ok(s).kind = "ok" /\ Ok(s).status = s
    /\ \A s, t : Illegal(s, t).kind = "illegal"
    /\ NotFound.kind = "notFound" /\ SqliteError.kind = "sqlite"
    /\ NoReply.kind = "none"
    BY DEF Ok, Illegal, NotFound, SqliteError, NoReply

LEMMA StatementCases ==
    ASSUME TypeOK, Checked, NEW c \in Callers, Statement(c)
    PROVE  /\ Busy(c) /\ req[c].id \in TaskIds
           /\ GoesOn(c) \/ Replies(c)
<1>1. ASSUME NEW op, MayStart(c, op)
      PROVE  Busy(c) /\ req[c] \in Request /\ req[c].op = op
    BY <1>1 DEF MayStart, Busy, TypeOK
<1>2. ASSUME NEW r \in Reply, Answer(c, r),
             Reads(c, r) \/ Stores(c, r) \/ Moves(c, r) \/ Cancels(c, r)
      PROVE  Replies(c)
    BY <1>2 DEF Answer, Replies
<1>3. CASE Get(c)
    <2> DEFINE r == IF db[req[c].id] = NoTask THEN NotFound ELSE Ok(db[req[c].id])
    <2>1. Busy(c) /\ req[c] \in Request /\ req[c].op = "get"
        BY <1>1, <1>3 DEF Get
    <2>2. Answer(c, r) /\ UNCHANGED db
        BY <1>3 DEF Get
    <2>3. r \in Reply /\ (r.kind = "ok" => r = Ok(db[req[c].id]))
        BY <2>1, RequestTyped, ReplyTyped, ReplyKinds DEF TypeOK
    <2> HIDE DEF r
    <2>4. Reads(c, r)
        BY <2>1, <2>2, <2>3 DEF Reads
    <2> QED
        BY <1>2, <2>1, <2>2, <2>3, <2>4, RequestTyped
<1>4. CASE Insert(c)
    <2>1. Busy(c) /\ req[c] \in Request /\ req[c].op = "insert"
        BY <1>1, <1>4 DEF Insert
    <2>2. req[c].to = "working"
        BY <2>1 DEF Request
    <2>3. Stores(c, Inserted) /\ Answer(c, Inserted)
        BY <1>4, <2>1, <2>2 DEF Insert, Stores
    <2> QED
        BY <1>2, <2>1, <2>3, RequestTyped, ReplyTyped DEF Inserted
<1>5. CASE UpdateRead(c)
    <2>1. Busy(c) /\ req[c] \in Request /\ req[c].op = "update"
        BY <1>1, <1>5 DEF UpdateRead
    <2>2. CASE Answer(c, NotFound) /\ UNCHANGED db
        BY <1>2, <2>1, <2>2, ReplyKinds, RequestTyped, ReplyTyped DEF Reads
    <2>3. CASE /\ db[req[c].id] # NoTask
               /\ Answer(c, Illegal(db[req[c].id], req[c].to)) /\ UNCHANGED db
        <3>1. Illegal(db[req[c].id], req[c].to) \in Reply
            BY <2>1, <2>3, RequestTyped, ReplyTyped DEF TypeOK
        <3> QED
            BY <1>2, <2>1, <2>3, <3>1, ReplyKinds, RequestTyped DEF Reads
    <2>4. CASE db[req[c].id] # NoTask /\ GoOn(c, "write")
        BY <2>1, <2>4, RequestTyped DEF GoOn, GoesOn
    <2> QED
        BY <1>5, <2>2, <2>3, <2>4 DEF UpdateRead
<1>6. CASE UpdateWrite(c)
    <2>1. Busy(c) /\ req[c] \in Request /\ req[c].op = "update"
          /\ CanTransitionTo(seen[c], req[c].to)
        BY <1>6 DEF UpdateWrite, Busy, TypeOK, Checked
    <2>2. CASE /\ db[req[c].id] = seen[c]
               /\ db' = [db EXCEPT ![req[c].id] = req[c].to]
               /\ Answer(c, Ok(req[c].to))
        <3>1. Ok(req[c].to) \in Reply
            BY <2>1, RequestTyped, ReplyTyped
        <3>2. Moves(c, Ok(req[c].to))
            BY <2>1, <2>2 DEF Moves
        <3> QED
            BY <1>2, <2>1, <2>2, <3>1, <3>2, RequestTyped
    <2>3. CASE pc' = [pc EXCEPT ![c] = "reread"] /\ UNCHANGED <<db, req, reply>>
        BY <2>1, <2>3, RequestTyped DEF GoesOn
    <2> QED
        BY <1>6, <2>2, <2>3 DEF UpdateWrite
<1>7. CASE UpdateReread(c)
    <2> DEFINE r == IF db[req[c].id] = NoTask THEN NotFound
                    ELSE Illegal(db[req[c].id], req[c].to)
    <2>1. Busy(c) /\ req[c] \in Request /\ req[c].op = "update"
        BY <1>7 DEF UpdateReread, Busy, TypeOK
    <2>2. Answer(c, r) /\ UNCHANGED db
        BY <1>7 DEF UpdateReread
    <2>3. r \in Reply /\ r.kind # "ok"
        BY <2>1, RequestTyped, ReplyTyped, ReplyKinds DEF TypeOK
    <2> HIDE DEF r
    <2> QED
        BY <1>2, <2>1, <2>2, <2>3, RequestTyped DEF Reads
<1>8. CASE CancelRead(c)
    <2>1. Busy(c) /\ req[c] \in Request /\ req[c].op = "cancel"
        BY <1>1, <1>8 DEF CancelRead
    <2>2. CASE Answer(c, NotFound) /\ UNCHANGED db
        BY <1>2, <2>1, <2>2, ReplyKinds, RequestTyped, ReplyTyped DEF Reads
    <2>3. CASE db[req[c].id] # NoTask /\ Answer(c, Ok(db[req[c].id])) /\ UNCHANGED db
        <3>1. Ok(db[req[c].id]) \in Reply
            BY <2>1, <2>3, RequestTyped, ReplyTyped DEF TypeOK
        <3> QED
            BY <1>2, <2>1, <2>3, <3>1, RequestTyped DEF Reads
    <2>4. CASE db[req[c].id] # NoTask /\ GoOn(c, "write")
        BY <2>1, <2>4, RequestTyped DEF GoOn, GoesOn
    <2> QED
        BY <1>8, <2>2, <2>3, <2>4 DEF CancelRead
<1>9. CASE CancelWrite(c)
    <2>1. Busy(c) /\ req[c] \in Request /\ req[c].op = "cancel" /\ pc[c] = "write"
        BY <1>9 DEF CancelWrite, Busy, TypeOK
    <2>2. Cancels(c, Ok("cancelled")) /\ Answer(c, Ok("cancelled"))
        BY <1>9, <2>1 DEF CancelWrite, Cancels
    <2>3. Ok("cancelled") \in Reply
        BY ReplyTyped DEF TaskStatus
    <2> QED
        BY <1>2, <2>1, <2>2, <2>3, RequestTyped
<1>10. CASE StatementError(c)
    <2>1. Busy(c) /\ req[c] \in Request
        BY <1>10 DEF StatementError, Busy, TypeOK
    <2>2. Answer(c, SqliteError) /\ UNCHANGED db
        BY <1>10 DEF StatementError
    <2> QED
        BY <1>2, <2>1, <2>2, ReplyKinds, RequestTyped, ReplyTyped DEF Reads
<1> QED
    BY <1>3, <1>4, <1>5, <1>6, <1>7, <1>8, <1>9, <1>10 DEF Statement

-----------------------------------------------------------------------------
\* The calls of the tool and of the clients are calls of the store: every step
\* of the system is one of SqliteStore or leaves the store alone.

LEMMA OutcomeTyped ==
    \A id : Outcome(id) \in {"completed", "failed"} /\ Outcome(id) \in TaskStatus
    BY DEF Outcome, TaskStatus

LEMMA AskedTyped ==
    ASSUME NEW id \in TaskIds
    PROVE  /\ [op |-> "insert", id |-> id, to |-> "working"] \in Request
           /\ [op |-> "get", id |-> id, to |-> "none"] \in Request
           /\ [op |-> "update", id |-> id, to |-> Outcome(id)] \in Request
    BY OutcomeTyped DEF Request

LEMMA ThreadsTyped ==
    ASSUME NEW id \in TaskIds
    PROVE  /\ WorkerOf[id] \in Callers /\ MonitorOf[id] \in Callers
           /\ WorkerOf[id] \in Threads /\ MonitorOf[id] \in Threads
           /\ Home[WorkerOf[id]] = Here /\ Home[MonitorOf[id]] = Here
    BY ThreadsAssumption DEF Threads

LEMMA StoreStep == [SystemNext]_systemVars => [Next]_vars
<1> SUFFICES ASSUME [SystemNext]_systemVars PROVE [Next]_vars
    OBVIOUS
<1>1. ASSUME NEW c \in Callers, NEW r \in Request, Invoke(c, r) PROVE Next
    BY <1>1 DEF Next
<1>2. ASSUME NEW c \in Callers, Return(c) PROVE Next
    BY <1>2 DEF Next
<1>3. ASSUME NEW id \in TaskIds, ToolNext(id) PROVE [Next]_vars
    <2>1. CASE SpawnIndexTask(id) \/ CheckCancelled(id) \/ Settle(id) \/ Poll(id)
        BY <1>1, <2>1, AskedTyped, ThreadsTyped DEF SpawnIndexTask, CheckCancelled, Settle, Poll
    <2>2. CASE SpawnReturns(id) \/ CheckReturns(id) \/ SettleReturns(id) \/ PollReturns(id)
        BY <1>2, <2>2, ThreadsTyped DEF SpawnReturns, CheckReturns, SettleReturns, PollReturns
    <2>3. CASE Walk(id) \/ DropSender(id)
        BY <2>3 DEF Walk, DropSender
    <2> QED
        BY <1>3, <2>1, <2>2, <2>3 DEF ToolNext
<1>4. ASSUME NEW c \in Callers, Statement(c) PROVE Next
    BY <1>4 DEF Statement, Next
<1>5. ASSUME NEW c \in Callers, ClientRequest(c) \/ ClientReturn(c) PROVE Next
    BY <1>1, <1>2, <1>5 DEF ClientRequest, ClientReturn
<1>6. CASE CrashHere
    BY <1>6, HereAssumption DEF CrashHere, Next
<1>7. ASSUME NEW i \in Instances, CrashElsewhere(i) PROVE Next
    BY <1>7 DEF CrashElsewhere, Next
<1>8. CASE UNCHANGED systemVars
    BY <1>8 DEF systemVars
<1> QED
    BY <1>3, <1>4, <1>5, <1>6, <1>7, <1>8 DEF SystemNext

\* Behind the tool the store is a SqliteStore with all that is proved of it.
THEOREM UsesSqliteStore == SystemSpec => Spec
<1>1. SystemInit => Init
    BY DEF SystemInit
<1> QED
    BY <1>1, StoreStep, PTL DEF SystemSpec, Spec

-----------------------------------------------------------------------------
\* Type correctness.

LEMMA SystemTypeStep == SystemTypeOK /\ TypeOK' /\ [SystemNext]_systemVars => SystemTypeOK'
<1> SUFFICES ASSUME SystemTypeOK, TypeOK', [SystemNext]_systemVars PROVE SystemTypeOK'
    OBVIOUS
<1>0. TypeOK
    BY DEF SystemTypeOK
<1>a. \A id, d \in TaskIds :
        /\ WorkerOf[id] # MonitorOf[d]
        /\ d # id => WorkerOf[id] # WorkerOf[d] /\ MonitorOf[id] # MonitorOf[d]
    BY ThreadsAssumption
<1>1. ASSUME NEW id \in TaskIds, SpawnIndexTask(id) \/ CheckCancelled(id) \/ Settle(id)
      PROVE  SystemTypeOK'
    <2>1. \A c \in Callers : c # WorkerOf[id] => pc'[c] = pc[c]
        BY <1>0, <1>1, ThreadsTyped DEF SpawnIndexTask, CheckCancelled, Settle, Invoke, TypeOK
    <2>2. worker'[id] \in {"inserting", "check", "settle"}
        BY <1>1 DEF SpawnIndexTask, CheckCancelled, Settle, Goto, toolVars, SystemTypeOK
    <2>3. /\ worker' \in [TaskIds -> {"none", "inserting", "walking", "cleanup", "check",
                                      "settle", "exited", "lost"}]
          /\ \A d \in TaskIds : d # id => worker'[d] = worker[d]
          /\ UNCHANGED <<result, flag, monitor, cancelTxs, crashes>>
        BY <1>1 DEF SpawnIndexTask, CheckCancelled, Settle, Goto, toolVars, SystemTypeOK
    <2> QED
        BY <1>a, <2>1, <2>2, <2>3, ThreadsTyped DEF SystemTypeOK
<1>2. ASSUME NEW id \in TaskIds, SpawnReturns(id) \/ CheckReturns(id) \/ SettleReturns(id)
      PROVE  SystemTypeOK'
    <2>1. pc'[WorkerOf[id]] = "idle" /\ \A c \in Callers : c # WorkerOf[id] => pc'[c] = pc[c]
        BY <1>0, <1>2, ThreadsTyped DEF SpawnReturns, CheckReturns, SettleReturns, Return, TypeOK
    <2>2. /\ worker' \in [TaskIds -> {"none", "inserting", "walking", "cleanup", "check",
                                      "settle", "exited", "lost"}]
          /\ \A d \in TaskIds : d # id => worker'[d] = worker[d] /\ monitor'[d] = monitor[d]
          /\ monitor' \in [TaskIds -> {"none", "polling", "stopped"}]
          /\ monitor'[id] \in {"polling", monitor[id]}
          /\ cancelTxs' \subseteq TaskIds
          /\ UNCHANGED <<result, flag, crashes>>
        BY <1>2 DEF SpawnReturns, CheckReturns, SettleReturns, Goto, SystemTypeOK
    <2> QED
        BY <1>a, <2>1, <2>2, ThreadsTyped DEF SystemTypeOK
<1>3. ASSUME NEW id \in TaskIds, Walk(id) \/ DropSender(id) PROVE SystemTypeOK'
    <2>1. pc[WorkerOf[id]] = "idle" /\ UNCHANGED pc
        BY <1>3 DEF Walk, DropSender, vars, SystemTypeOK
    <2>2. /\ worker' \in [TaskIds -> {"none", "inserting", "walking", "cleanup", "check",
                                      "settle", "exited", "lost"}]
          /\ \A d \in TaskIds : d # id => worker'[d] = worker[d]
          /\ result' \in [TaskIds -> {"none", "full", "skipped", "aborted", "panic"}]
          /\ cancelTxs' \subseteq TaskIds
          /\ UNCHANGED <<flag, monitor, crashes>>
        BY <1>3 DEF Walk, DropSender, Goto, SystemTypeOK
    <2> QED
        BY <2>1, <2>2 DEF SystemTypeOK
<1>4. ASSUME NEW id \in TaskIds, Poll(id) PROVE SystemTypeOK'
    <2>1. \A c \in Callers : c # MonitorOf[id] => pc'[c] = pc[c]
        BY <1>0, <1>4, ThreadsTyped DEF Poll, Invoke, TypeOK
    <2>2. monitor[id] = "polling" /\ UNCHANGED <<worker, result, flag, monitor, cancelTxs, crashes>>
        BY <1>4 DEF Poll, toolVars
    <2> QED
        BY <1>a, <2>1, <2>2, ThreadsTyped DEF SystemTypeOK
<1>5. ASSUME NEW id \in TaskIds, PollReturns(id) PROVE SystemTypeOK'
    <2>1. pc'[MonitorOf[id]] = "idle" /\ \A c \in Callers : c # MonitorOf[id] => pc'[c] = pc[c]
        BY <1>0, <1>5, ThreadsTyped DEF PollReturns, Return, TypeOK
    <2>2. /\ flag' \in [TaskIds -> BOOLEAN]
          /\ monitor' \in [TaskIds -> {"none", "polling", "stopped"}]
          /\ \A d \in TaskIds : d # id => monitor'[d] = monitor[d]
          /\ UNCHANGED <<worker, result, cancelTxs, crashes>>
        BY <1>5 DEF PollReturns, SystemTypeOK
    <2> QED
        BY <1>a, <2>1, <2>2, ThreadsTyped DEF SystemTypeOK
<1>6. ASSUME NEW c \in Callers, Statement(c) /\ UNCHANGED toolVars PROVE SystemTypeOK'
    <2>1. \A d \in Callers : pc'[d] # "idle" => pc[d] # "idle"
        BY <1>0, <1>6 DEF Statement, Get, Insert, UpdateRead, UpdateWrite, UpdateReread,
                          CancelRead, CancelWrite, StatementError, MayStart, Answer, GoOn, TypeOK
    <2> QED
        BY <1>6, <2>1, ThreadsTyped DEF toolVars, SystemTypeOK
<1>7. ASSUME NEW c \in Callers, ClientRequest(c) \/ ClientReturn(c) PROVE SystemTypeOK'
    <2>1. c \notin Threads /\ UNCHANGED toolVars
        BY <1>7 DEF ClientRequest, ClientReturn
    <2>2. \A d \in Callers : d # c => pc'[d] = pc[d]
        BY <1>0, <1>7 DEF ClientRequest, ClientReturn, Invoke, Return, TypeOK
    <2> QED
        BY <2>1, <2>2, ThreadsTyped DEF toolVars, SystemTypeOK
<1>8. CASE CrashHere
    <2>1. \A id \in TaskIds : pc'[WorkerOf[id]] = "idle" /\ pc'[MonitorOf[id]] = "idle"
        BY <1>8, ThreadsTyped DEF CrashHere, Crash
    <2> QED
        BY <1>8, <2>1, CrashAssumption DEF CrashHere, SystemTypeOK
<1>9. ASSUME NEW i \in Instances, CrashElsewhere(i) PROVE SystemTypeOK'
    <2>1. \A d \in Callers : pc'[d] # "idle" => pc'[d] = pc[d]
        BY <1>9 DEF CrashElsewhere, Crash
    <2> QED
        BY <1>9, <2>1, ThreadsTyped DEF CrashElsewhere, toolVars, SystemTypeOK
<1>10. CASE UNCHANGED systemVars
    BY <1>10 DEF systemVars, vars, toolVars, SystemTypeOK
<1> QED
    BY <1>1, <1>2, <1>3, <1>4, <1>5, <1>6, <1>7, <1>8, <1>9, <1>10 DEF SystemNext, ToolNext

\* The types; the worker and the monitor of a task are in a call only where their
\* code makes one.
THEOREM SystemTypeCorrect == SystemSpec => []SystemTypeOK
<1>1. SystemInit /\ TypeOK => SystemTypeOK
    BY CrashAssumption, ThreadsTyped DEF SystemInit, Init, SystemTypeOK
<1>2. SystemTypeOK /\ TypeOK' /\ [SystemNext]_systemVars => SystemTypeOK'
    BY SystemTypeStep
<1> QED
    BY <1>1, <1>2, UsesSqliteStore, TypeCorrect, PTL DEF SystemSpec

-----------------------------------------------------------------------------
\* What a thread of the tool has asked the store, and what it knows of the row.

\* The worker's thread asks what its place in the code says.
WorkerAsks(id) ==
    Busy(WorkerOf[id]) =>
        /\ req[WorkerOf[id]].id = id
        /\ worker[id] = "inserting" => req[WorkerOf[id]].op = "insert"
        /\ worker[id] = "check" => req[WorkerOf[id]].op = "get"
        /\ worker[id] = "settle" =>
            req[WorkerOf[id]].op = "update" /\ req[WorkerOf[id]].to = Outcome(id)

MonitorAsks(id) ==
    Busy(MonitorOf[id]) => req[MonitorOf[id]].id = id /\ req[MonitorOf[id]].op = "get"

\* The row is there exactly from the INSERT on.
RowOf(id) ==
    /\ worker[id] = "none" => db[id] = NoTask
    /\ worker[id] = "inserting" =>
        /\ pc[WorkerOf[id]] # "idle"
        /\ Busy(WorkerOf[id]) => db[id] = NoTask
        /\ pc[WorkerOf[id]] = "done" => (db[id] # NoTask <=> reply[WorkerOf[id]] = Inserted)
    /\ worker[id] \in {"walking", "cleanup", "check", "settle", "exited"} =>
        db[id] # NoTask /\ monitor[id] # "none"
    /\ monitor[id] # "none" => db[id] # NoTask /\ worker[id] \notin {"none", "inserting"}

\* A cancel that a thread has been told of is still there.
CancelOf(id) ==
    /\ reply[WorkerOf[id]] = Ok("cancelled") => db[id] = "cancelled"
    /\ reply[MonitorOf[id]] = Ok("cancelled") => db[id] = "cancelled"

ThreadInv == \A id \in TaskIds :
    WorkerAsks(id) /\ MonitorAsks(id) /\ RowOf(id) /\ CancelOf(id)

\* No request handler inserts, and a row that a cancel or an update has found is
\* not gone by the time it writes.
CallerInv == \A c \in Callers :
    /\ pc[c] # "done" => reply[c] = NoReply
    /\ pc[c] = "write" => db[req[c].id] # NoTask
    /\ c \notin Threads /\ Busy(c) =>
        /\ req[c].op # "insert"
        /\ req[c].op = "update" => req[c].to \in ClientTargets

CallsInv == SystemTypeOK /\ Checked /\ ThreadInv /\ CallerInv

\* Who inserts: the worker's thread of that very task, once.
LEMMA WhoInserts ==
    ASSUME CallsInv, NEW c \in Callers, Busy(c), req[c].op = "insert"
    PROVE  /\ req[c].id \in TaskIds /\ c = WorkerOf[req[c].id]
           /\ worker[req[c].id] = "inserting" /\ db[req[c].id] = NoTask
<1>1. c \in Threads
    BY DEF CallsInv, CallerInv
<1>2. \A id \in TaskIds : c # MonitorOf[id]
    BY DEF CallsInv, ThreadInv, MonitorAsks
<1>3. PICK id \in TaskIds : c = WorkerOf[id]
    BY <1>1, <1>2 DEF Threads
<1>4. worker[id] \in {"inserting", "check", "settle"}
    BY <1>3 DEF CallsInv, SystemTypeOK, Busy
<1>5. req[c].id = id /\ worker[id] = "inserting"
    BY <1>3, <1>4 DEF CallsInv, ThreadInv, WorkerAsks
<1> QED
    BY <1>3, <1>5 DEF CallsInv, ThreadInv, RowOf

\* What a statement does to the rows: none goes, no cancel is undone, and a row
\* appears only by its worker's insert.
LEMMA RowsKept ==
    ASSUME CallsInv, NEW c \in Callers, Statement(c), NEW id \in TaskIds
    PROVE  /\ db[id] # NoTask => db'[id] # NoTask
           /\ db[id] = "cancelled" => db'[id] = "cancelled"
           /\ db[id] = NoTask /\ db'[id] # NoTask => c = WorkerOf[id] /\ worker[id] = "inserting"
<1>1. Busy(c) /\ req[c].id \in TaskIds /\ (GoesOn(c) \/ Replies(c))
    BY StatementCases DEF CallsInv, SystemTypeOK
<1>2. CASE UNCHANGED db
    BY <1>2
<1>3. ASSUME NEW r, Stores(c, r) PROVE c = WorkerOf[req[c].id] /\ worker[req[c].id] = "inserting"
                                       /\ db[req[c].id] = NoTask
    BY <1>1, <1>3, WhoInserts DEF Stores
<1>4. ASSUME NEW r, Stores(c, r)
      PROVE  /\ db' = [db EXCEPT ![req[c].id] = "working"]
             /\ c = WorkerOf[req[c].id] /\ worker[req[c].id] = "inserting"
             /\ db[req[c].id] = NoTask
    BY <1>3, <1>4 DEF Stores
<1>5. ASSUME NEW r, Moves(c, r)
      PROVE  /\ db' = [db EXCEPT ![req[c].id] = req[c].to]
             /\ req[c].to # NoTask
             /\ db[req[c].id] \notin {NoTask, "cancelled"}
    BY <1>5 DEF Moves, CanTransitionTo, NoTask
<1>6. ASSUME NEW r, Cancels(c, r)
      PROVE  /\ db' = [db EXCEPT ![req[c].id] = "cancelled"]
             /\ db[req[c].id] # NoTask
    BY <1>6 DEF Cancels, CallsInv, CallerInv
<1> QED
    BY <1>1, <1>2, <1>4, <1>5, <1>6 DEF GoesOn, Replies, Reads, CallsInv, SystemTypeOK, TypeOK, NoTask

\* What a statement does to the caller that runs it.
LEMMA StatementFrame ==
    ASSUME TypeOK, Checked, NEW c \in Callers, Statement(c), NEW d \in Callers, d # c
    PROVE  pc'[d] = pc[d] /\ req'[d] = req[d] /\ reply'[d] = reply[d]
    BY StatementCases DEF GoesOn, Replies, TypeOK

LEMMA StatementMine ==
    ASSUME TypeOK, Checked, NEW c \in Callers, Statement(c)
    PROVE  /\ Busy(c)
           /\ \/ /\ pc'[c] \in {"write", "reread"}
                 /\ req'[c] = req[c] /\ reply'[c] = reply[c]
                 /\ pc'[c] = "write" => db[req[c].id] # NoTask
                 /\ req[c].op \in {"update", "cancel"}
                 /\ UNCHANGED db
              \/ /\ pc'[c] = "done"
                 /\ Reads(c, reply'[c]) \/ Stores(c, reply'[c]) \/ Moves(c, reply'[c])
                        \/ Cancels(c, reply'[c])
<1>1. Busy(c) /\ (GoesOn(c) \/ Replies(c))
    BY StatementCases
<1>2. CASE GoesOn(c)
    BY <1>1, <1>2 DEF GoesOn, TypeOK
<1>3. CASE Replies(c)
    <2>1. PICK r \in Reply : /\ reply' = [reply EXCEPT ![c] = r]
                             /\ Reads(c, r) \/ Stores(c, r) \/ Moves(c, r) \/ Cancels(c, r)
        BY <1>3 DEF Replies
    <2>2. reply'[c] = r
        BY <2>1 DEF TypeOK
    <2> QED
        BY <1>1, <1>3, <2>1, <2>2 DEF Replies, TypeOK
<1> QED
    BY <1>1, <1>2, <1>3

\* A thread's part of the invariant, when a step leaves it and its row alone, or
\* touches the row only as others may.
LEMMA ThreadFrame ==
    ASSUME NEW id \in TaskIds, WorkerAsks(id), MonitorAsks(id), RowOf(id), CancelOf(id),
           pc'[WorkerOf[id]] = pc[WorkerOf[id]], pc'[MonitorOf[id]] = pc[MonitorOf[id]],
           req'[WorkerOf[id]] = req[WorkerOf[id]], req'[MonitorOf[id]] = req[MonitorOf[id]],
           reply'[WorkerOf[id]] = reply[WorkerOf[id]],
           reply'[MonitorOf[id]] = reply[MonitorOf[id]],
           worker'[id] = worker[id], result'[id] = result[id], monitor'[id] = monitor[id],
           db[id] = NoTask <=> db'[id] = NoTask,
           db[id] = "cancelled" => db'[id] = "cancelled"
    PROVE  WorkerAsks(id)' /\ MonitorAsks(id)' /\ RowOf(id)' /\ CancelOf(id)'
    BY DEF WorkerAsks, MonitorAsks, RowOf, CancelOf, Busy, Outcome

LEMMA StatementKeepsThreads ==
    ASSUME CallsInv, NEW c \in Callers, Statement(c), UNCHANGED toolVars
    PROVE  ThreadInv'
<1> SUFFICES ASSUME NEW id \in TaskIds
             PROVE  WorkerAsks(id)' /\ MonitorAsks(id)' /\ RowOf(id)' /\ CancelOf(id)'
    BY DEF ThreadInv
<1>0. WorkerAsks(id) /\ MonitorAsks(id) /\ RowOf(id) /\ CancelOf(id)
    BY DEF CallsInv, ThreadInv
<1>t. TypeOK /\ Checked /\ WorkerOf[id] \in Callers /\ MonitorOf[id] \in Callers
      /\ WorkerOf[id] # MonitorOf[id]
    BY ThreadsTyped, ThreadsAssumption DEF CallsInv, SystemTypeOK
<1>u. /\ worker'[id] = worker[id] /\ result'[id] = result[id] /\ monitor'[id] = monitor[id]
    BY DEF toolVars
<1>r. /\ db[id] # NoTask => db'[id] # NoTask
      /\ db[id] = "cancelled" => db'[id] = "cancelled"
      /\ db[id] = NoTask /\ db'[id] # NoTask => c = WorkerOf[id] /\ worker[id] = "inserting"
    BY RowsKept
<1>m. Busy(c) /\
      \/ /\ pc'[c] \in {"write", "reread"}
         /\ req'[c] = req[c] /\ reply'[c] = reply[c]
         /\ req[c].op \in {"update", "cancel"}
         /\ UNCHANGED db
      \/ /\ pc'[c] = "done"
         /\ Reads(c, reply'[c]) \/ Stores(c, reply'[c]) \/ Moves(c, reply'[c])
                \/ Cancels(c, reply'[c])
    BY <1>t, StatementMine
<1>1. CASE c # WorkerOf[id] /\ c # MonitorOf[id]
    BY <1>0, <1>1, <1>r, <1>t, <1>u, ThreadFrame, StatementFrame
<1>2. CASE c = MonitorOf[id]
    <2>1. req[c].id = id /\ req[c].op = "get"
        BY <1>0, <1>2, <1>m DEF MonitorAsks
    <2>2. pc'[c] = "done" /\ Reads(c, reply'[c])
        BY <1>m, <2>1 DEF Stores, Moves, Cancels
    <2>3. reply'[c] = Ok("cancelled") => db'[id] = "cancelled"
        BY <2>1, <2>2, ReplyKinds DEF Reads
    <2>4. /\ pc'[WorkerOf[id]] = pc[WorkerOf[id]] /\ req'[WorkerOf[id]] = req[WorkerOf[id]]
          /\ reply'[WorkerOf[id]] = reply[WorkerOf[id]]
          /\ db' = db
        BY <1>2, <1>t, <2>2, StatementFrame DEF Reads
    <2> QED
        BY <1>0, <1>2, <1>u, <2>2, <2>3, <2>4
        DEF WorkerAsks, MonitorAsks, RowOf, CancelOf, Busy, Outcome
<1>3. CASE c = WorkerOf[id]
    <2>0. /\ pc'[MonitorOf[id]] = pc[MonitorOf[id]] /\ req'[MonitorOf[id]] = req[MonitorOf[id]]
          /\ reply'[MonitorOf[id]] = reply[MonitorOf[id]]
        BY <1>3, <1>t, StatementFrame
    <2>1. req[c].id = id /\ worker[id] \in {"inserting", "check", "settle"}
        BY <1>0, <1>3, <1>m DEF WorkerAsks, CallsInv, SystemTypeOK, Busy
    <2>2. MonitorAsks(id)'
        BY <1>0, <2>0 DEF MonitorAsks, Busy
    <2>3. CASE pc'[c] \in {"write", "reread"} /\ req'[c] = req[c] /\ reply'[c] = reply[c]
               /\ req[c].op \in {"update", "cancel"} /\ UNCHANGED db
        BY <1>0, <1>3, <1>m, <1>u, <2>0, <2>2, <2>3
        DEF WorkerAsks, RowOf, CancelOf, Busy, Outcome
    <2>4. CASE pc'[c] = "done" /\ Reads(c, reply'[c])
        <3>1. reply'[c] = Ok("cancelled") => db'[id] = "cancelled"
            BY <2>1, <2>4, ReplyKinds DEF Reads
        <3>2. worker[id] = "inserting" => reply'[c] # Inserted /\ db[id] = NoTask
            BY <1>0, <1>3, <1>m, <2>4, ReplyKinds DEF WorkerAsks, RowOf, Reads, Inserted
        <3> QED
            BY <1>0, <1>3, <1>u, <2>0, <2>2, <2>4, <3>1, <3>2
            DEF WorkerAsks, RowOf, CancelOf, Busy, Reads
    <2>5. CASE pc'[c] = "done" /\ Stores(c, reply'[c])
        <3>1. worker[id] = "inserting" /\ db[id] = NoTask
            BY <1>3, <1>m, <2>1, <2>5, WhoInserts DEF Stores
        <3>2. db'[id] = "working" /\ reply'[c] = Inserted
            BY <1>t, <2>1, <2>5 DEF Stores, TypeOK
        <3>3. reply[MonitorOf[id]] # Ok("cancelled")
            BY <1>0, <3>1 DEF CancelOf, NoTask
        <3>4. Inserted # Ok("cancelled") /\ "working" # NoTask
            BY DEF Inserted, Ok, NoTask
        <3> QED
            BY <1>0, <1>3, <1>u, <2>0, <2>2, <2>5, <3>1, <3>2, <3>3, <3>4
            DEF WorkerAsks, RowOf, CancelOf, Busy
    <2>6. CASE pc'[c] = "done" /\ Moves(c, reply'[c])
        <3>1. worker[id] = "settle" /\ req[c].to = Outcome(id)
            BY <1>0, <1>3, <1>m, <2>1, <2>6 DEF WorkerAsks, Moves
        <3>2. reply'[c] # Ok("cancelled")
            BY <2>6, <3>1, OutcomeTyped, ReplyKinds DEF Moves
        <3> QED
            BY <1>0, <1>3, <1>r, <1>u, <2>0, <2>2, <2>6, <3>1, <3>2
            DEF WorkerAsks, RowOf, CancelOf, Busy
    <2>7. ~Cancels(c, reply'[c])
        BY <1>0, <1>3, <1>m, <2>1 DEF WorkerAsks, Cancels
    <2> QED
        BY <1>m, <2>3, <2>4, <2>5, <2>6, <2>7
<1> QED
    BY <1>1, <1>2, <1>3

LEMMA StatementKeepsCallers ==
    ASSUME CallsInv, NEW c \in Callers, Statement(c), UNCHANGED toolVars
    PROVE  CallerInv'
<1> SUFFICES ASSUME NEW d \in Callers
             PROVE  /\ pc'[d] # "done" => reply'[d] = NoReply
                    /\ pc'[d] = "write" => db'[req'[d].id] # NoTask
                    /\ d \notin Threads /\ Busy(d)' =>
                        /\ req'[d].op # "insert"
                        /\ req'[d].op = "update" => req'[d].to \in ClientTargets
    BY DEF CallerInv, Threads
<1>t. TypeOK /\ Checked
    BY DEF CallsInv, SystemTypeOK
<1>1. CASE d # c
    <2>1. pc'[d] = pc[d] /\ req'[d] = req[d] /\ reply'[d] = reply[d]
        BY <1>1, <1>t, StatementFrame
    <2>2. pc[d] = "write" => req[d].id \in TaskIds
        BY <1>t, RequestTyped DEF TypeOK
    <2> QED
        BY <2>1, <2>2, RowsKept DEF CallsInv, CallerInv, Busy
<1>2. CASE d = c
    BY <1>2, <1>t, StatementMine DEF CallsInv, CallerInv, Busy
<1> QED
    BY <1>1, <1>2

\* A step of task id's own threads leaves the parts of the other tasks alone.
LEMMA OthersKeep ==
    ASSUME CallsInv, NEW id \in TaskIds, NEW d \in TaskIds, d # id,
           \A c \in Callers : c \notin {WorkerOf[id], MonitorOf[id]} =>
                pc'[c] = pc[c] /\ req'[c] = req[c] /\ reply'[c] = reply[c],
           worker'[d] = worker[d], result'[d] = result[d], monitor'[d] = monitor[d],
           UNCHANGED db
    PROVE  WorkerAsks(d)' /\ MonitorAsks(d)' /\ RowOf(d)' /\ CancelOf(d)'
<1>1. /\ WorkerOf[d] \in Callers /\ WorkerOf[d] \notin {WorkerOf[id], MonitorOf[id]}
      /\ MonitorOf[d] \in Callers /\ MonitorOf[d] \notin {WorkerOf[id], MonitorOf[id]}
    BY ThreadsAssumption
<1>2. WorkerAsks(d) /\ MonitorAsks(d) /\ RowOf(d) /\ CancelOf(d)
    BY DEF CallsInv, ThreadInv
<1> QED
    BY <1>1, <1>2, ThreadFrame

LEMMA InvokeKeepsCallers ==
    ASSUME CallsInv, NEW c \in Callers, NEW r \in Request, Invoke(c, r),
           c \notin Threads => /\ r.op # "insert"
                               /\ r.op = "update" => r.to \in ClientTargets
    PROVE  /\ CallerInv'
           /\ pc[c] = "idle" /\ pc'[c] = "called" /\ req'[c] = r /\ reply'[c] = NoReply
           /\ \A d \in Callers : d # c => pc'[d] = pc[d] /\ req'[d] = req[d]
           /\ UNCHANGED <<db, reply>>
<1>1. /\ pc[c] = "idle" /\ pc'[c] = "called" /\ req'[c] = r /\ reply'[c] = NoReply
      /\ \A d \in Callers : d # c => pc'[d] = pc[d] /\ req'[d] = req[d]
      /\ UNCHANGED <<db, reply>>
    BY DEF Invoke, CallsInv, SystemTypeOK, TypeOK, CallerInv
<1>2. \A d \in Callers : pc'[d] = "write" => db'[req'[d].id] # NoTask
    BY <1>1 DEF CallsInv, CallerInv
<1>3. \A d \in Callers : pc'[d] # "done" => reply'[d] = NoReply
    BY <1>1 DEF CallsInv, CallerInv
<1>4. ASSUME NEW d \in Callers, d \notin Threads, Busy(d)'
      PROVE  req'[d].op # "insert" /\ (req'[d].op = "update" => req'[d].to \in ClientTargets)
    BY <1>1, <1>4 DEF CallsInv, CallerInv, Busy
<1> QED
    BY <1>1, <1>2, <1>3, <1>4 DEF CallerInv, Threads

LEMMA ReturnKeepsCallers ==
    ASSUME CallsInv, NEW c \in Callers, Return(c)
    PROVE  /\ CallerInv'
           /\ pc[c] = "done" /\ pc'[c] = "idle" /\ reply'[c] = NoReply
           /\ \A d \in Callers : d # c => pc'[d] = pc[d] /\ reply'[d] = reply[d]
           /\ UNCHANGED <<db, req>>
<1>1. /\ pc[c] = "done" /\ pc'[c] = "idle" /\ reply'[c] = NoReply
      /\ \A d \in Callers : d # c => pc'[d] = pc[d] /\ reply'[d] = reply[d]
      /\ UNCHANGED <<db, req>>
    BY DEF Return, CallsInv, SystemTypeOK, TypeOK
<1>2. \A d \in Callers : /\ pc'[d] = "write" => db'[req'[d].id] # NoTask
                         /\ pc'[d] # "done" => reply'[d] = NoReply
    BY <1>1 DEF CallsInv, CallerInv
<1>3. ASSUME NEW d \in Callers, d \notin Threads, Busy(d)'
      PROVE  req'[d].op # "insert" /\ (req'[d].op = "update" => req'[d].to \in ClientTargets)
    BY <1>1, <1>3 DEF CallsInv, CallerInv, Busy
<1> QED
    BY <1>1, <1>2, <1>3 DEF CallerInv, Threads

LEMMA NoReplyIsNoCancel == NoReply # Ok("cancelled") /\ NoReply # Inserted
    BY DEF NoReply, Ok, Inserted

\* The steps of the tool's threads keep the invariant.
LEMMA ToolKeepsCalls ==
    ASSUME CallsInv, NEW id \in TaskIds, ToolNext(id)
    PROVE  ThreadInv' /\ CallerInv'
<1>0. WorkerAsks(id) /\ MonitorAsks(id) /\ RowOf(id) /\ CancelOf(id)
    BY DEF CallsInv, ThreadInv
<1>t. /\ TypeOK /\ WorkerOf[id] \in Callers /\ MonitorOf[id] \in Callers
      /\ WorkerOf[id] \in Threads /\ MonitorOf[id] \in Threads
      /\ WorkerOf[id] # MonitorOf[id]
    BY ThreadsTyped, ThreadsAssumption DEF CallsInv, SystemTypeOK
<1>w. /\ worker \in [TaskIds -> {"none", "inserting", "walking", "cleanup", "check",
                                 "settle", "exited", "lost"}]
      /\ result \in [TaskIds -> {"none", "full", "skipped", "aborted", "panic"}]
      /\ monitor \in [TaskIds -> {"none", "polling", "stopped"}]
      /\ pc[WorkerOf[id]] # "idle" => worker[id] \in {"inserting", "check", "settle"}
      /\ pc[MonitorOf[id]] # "idle" => monitor[id] = "polling"
    BY DEF CallsInv, SystemTypeOK
<1>1. ASSUME SpawnIndexTask(id) \/ CheckCancelled(id) \/ Settle(id)
      PROVE  ThreadInv' /\ CallerInv'
    <2>1. PICK r \in Request :
            /\ Invoke(WorkerOf[id], r)
            /\ r.id = id
            /\ worker'[id] = "inserting" => r.op = "insert"
            /\ worker'[id] = "check" => r.op = "get"
            /\ worker'[id] = "settle" => r.op = "update" /\ r.to = Outcome(id)
        BY <1>1, <1>w, AskedTyped DEF SpawnIndexTask, CheckCancelled, Settle, toolVars, Goto
    <2>2. /\ CallerInv'
          /\ pc[WorkerOf[id]] = "idle" /\ pc'[WorkerOf[id]] = "called"
          /\ req'[WorkerOf[id]] = r /\ reply'[WorkerOf[id]] = NoReply
          /\ \A d \in Callers : d # WorkerOf[id] => pc'[d] = pc[d] /\ req'[d] = req[d]
          /\ UNCHANGED <<db, reply>>
        BY <1>t, <2>1, InvokeKeepsCallers
    <2>3. /\ worker'[id] \in {"inserting", "check", "settle"}
          /\ worker'[id] = "inserting" => worker[id] = "none"
          /\ worker'[id] # "inserting" => worker'[id] = worker[id]
          /\ UNCHANGED <<result, flag, monitor, cancelTxs, crashes>>
          /\ \A d \in TaskIds : d # id => worker'[d] = worker[d]
        BY <1>1, <1>w DEF SpawnIndexTask, CheckCancelled, Settle, toolVars, Goto
    <2>4. WorkerAsks(id)' /\ MonitorAsks(id)'
        BY <1>0, <1>t, <2>1, <2>2, <2>3 DEF WorkerAsks, MonitorAsks, Busy, Outcome
    <2>5. RowOf(id)' /\ CancelOf(id)'
        BY <1>0, <1>t, <2>2, <2>3, NoReplyIsNoCancel DEF RowOf, CancelOf, Busy
    <2>6. \A d \in TaskIds : d # id =>
            WorkerAsks(d)' /\ MonitorAsks(d)' /\ RowOf(d)' /\ CancelOf(d)'
        BY <2>2, <2>3, OthersKeep
    <2> QED
        BY <2>2, <2>4, <2>5, <2>6 DEF ThreadInv
<1>2. ASSUME SpawnReturns(id) \/ CheckReturns(id) \/ SettleReturns(id)
      PROVE  ThreadInv' /\ CallerInv'
    <2>2. /\ CallerInv'
          /\ pc[WorkerOf[id]] = "done" /\ pc'[WorkerOf[id]] = "idle"
          /\ reply'[WorkerOf[id]] = NoReply
          /\ \A d \in Callers : d # WorkerOf[id] => pc'[d] = pc[d] /\ reply'[d] = reply[d]
          /\ UNCHANGED <<db, req>>
        BY <1>2, <1>t, ReturnKeepsCallers DEF SpawnReturns, CheckReturns, SettleReturns
    <2>3. /\ UNCHANGED result
          /\ \A d \in TaskIds : d # id => worker'[d] = worker[d] /\ monitor'[d] = monitor[d]
        BY <1>2, <1>w DEF SpawnReturns, CheckReturns, SettleReturns, Goto
    <2>4. MonitorAsks(id)' /\ WorkerAsks(id)' /\ CancelOf(id)'
        BY <1>0, <1>t, <2>2, NoReplyIsNoCancel DEF WorkerAsks, MonitorAsks, CancelOf, Busy
    <2>5. \/ worker[id] = "inserting" /\ reply[WorkerOf[id]] = Inserted
             /\ worker'[id] = "walking" /\ monitor'[id] = "polling"
          \/ worker[id] = "inserting" /\ worker'[id] = "lost" /\ monitor'[id] = monitor[id]
          \/ worker[id] \in {"check", "settle"} /\ worker'[id] \in {"exited", "settle"}
             /\ monitor'[id] = monitor[id]
        BY <1>2, <1>w DEF SpawnReturns, CheckReturns, SettleReturns, Goto
    <2>6. RowOf(id)'
        BY <1>0, <2>2, <2>5 DEF RowOf, Busy
    <2>7. \A d \in TaskIds : d # id =>
            WorkerAsks(d)' /\ MonitorAsks(d)' /\ RowOf(d)' /\ CancelOf(d)'
        BY <2>2, <2>3, OthersKeep
    <2> QED
        BY <2>2, <2>4, <2>6, <2>7 DEF ThreadInv
<1>3. ASSUME Walk(id) \/ DropSender(id) PROVE ThreadInv' /\ CallerInv'
    <2>1. pc[WorkerOf[id]] = "idle" /\ UNCHANGED vars /\ UNCHANGED monitor
        BY <1>3, <1>w DEF Walk, DropSender
    <2>2. /\ worker[id] \in {"walking", "cleanup"}
          /\ worker'[id] \in {"cleanup", "check", "settle"}
          /\ \A d \in TaskIds : d # id => worker'[d] = worker[d] /\ result'[d] = result[d]
        BY <1>3, <1>w DEF Walk, DropSender, Goto
    <2>3. CallerInv'
        BY <2>1 DEF CallsInv, CallerInv, vars, Busy
    <2>4. WorkerAsks(id)' /\ MonitorAsks(id)' /\ RowOf(id)' /\ CancelOf(id)'
        BY <1>0, <2>1, <2>2 DEF WorkerAsks, MonitorAsks, RowOf, CancelOf, Busy, vars
    <2>5. \A d \in TaskIds : d # id =>
            WorkerAsks(d)' /\ MonitorAsks(d)' /\ RowOf(d)' /\ CancelOf(d)'
        BY <2>1, <2>2, OthersKeep DEF vars
    <2> QED
        BY <2>3, <2>4, <2>5 DEF ThreadInv
<1>4. ASSUME Poll(id) PROVE ThreadInv' /\ CallerInv'
    <2> DEFINE r == [op |-> "get", id |-> id, to |-> "none"]
    <2>1. Invoke(MonitorOf[id], r) /\ r \in Request /\ UNCHANGED toolVars
        BY <1>4, AskedTyped DEF Poll
    <2>2. /\ CallerInv'
          /\ pc[MonitorOf[id]] = "idle" /\ pc'[MonitorOf[id]] = "called"
          /\ req'[MonitorOf[id]] = r /\ reply'[MonitorOf[id]] = NoReply
          /\ \A d \in Callers : d # MonitorOf[id] => pc'[d] = pc[d] /\ req'[d] = req[d]
          /\ UNCHANGED <<db, reply>>
        BY <1>t, <2>1, InvokeKeepsCallers
    <2>3. WorkerAsks(id)' /\ MonitorAsks(id)' /\ RowOf(id)' /\ CancelOf(id)'
        BY <1>0, <1>t, <2>1, <2>2
        DEF WorkerAsks, MonitorAsks, RowOf, CancelOf, Busy, Outcome, toolVars
    <2>4. \A d \in TaskIds : d # id =>
            WorkerAsks(d)' /\ MonitorAsks(d)' /\ RowOf(d)' /\ CancelOf(d)'
        BY <2>1, <2>2, OthersKeep DEF toolVars
    <2> QED
        BY <2>2, <2>3, <2>4 DEF ThreadInv
<1>5. ASSUME PollReturns(id) PROVE ThreadInv' /\ CallerInv'
    <2>2. /\ CallerInv'
          /\ pc[MonitorOf[id]] = "done" /\ pc'[MonitorOf[id]] = "idle"
          /\ reply'[MonitorOf[id]] = NoReply
          /\ \A d \in Callers : d # MonitorOf[id] => pc'[d] = pc[d] /\ reply'[d] = reply[d]
          /\ UNCHANGED <<db, req>>
        BY <1>5, <1>t, ReturnKeepsCallers DEF PollReturns
    <2>3. /\ UNCHANGED <<worker, result>>
          /\ monitor[id] = "polling" /\ monitor'[id] # "none"
          /\ \A d \in TaskIds : d # id => monitor'[d] = monitor[d]
        BY <1>5, <1>w DEF PollReturns
    <2>4. WorkerAsks(id)' /\ MonitorAsks(id)' /\ CancelOf(id)'
        BY <1>0, <1>t, <2>2, <2>3, NoReplyIsNoCancel
        DEF WorkerAsks, MonitorAsks, CancelOf, Busy, Outcome
    <2>5. RowOf(id)'
        BY <1>0, <1>t, <2>2, <2>3 DEF RowOf, Busy
    <2>6. \A d \in TaskIds : d # id =>
            WorkerAsks(d)' /\ MonitorAsks(d)' /\ RowOf(d)' /\ CancelOf(d)'
        BY <2>2, <2>3, OthersKeep
    <2> QED
        BY <2>2, <2>4, <2>5, <2>6 DEF ThreadInv
<1> QED
    BY <1>1, <1>2, <1>3, <1>4, <1>5 DEF ToolNext

\* Requests and crashes keep it too.
LEMMA OutsideKeepsCalls ==
    ASSUME CallsInv,
           \/ \E c \in Callers : ClientRequest(c) \/ ClientReturn(c)
           \/ CrashHere
           \/ \E i \in Instances : CrashElsewhere(i)
           \/ UNCHANGED systemVars
    PROVE  ThreadInv' /\ CallerInv'
<1>t. \A id \in TaskIds :
        /\ WorkerOf[id] \in Callers /\ MonitorOf[id] \in Callers
        /\ WorkerOf[id] \in Threads /\ MonitorOf[id] \in Threads
        /\ Home[WorkerOf[id]] = Here /\ Home[MonitorOf[id]] = Here
    BY ThreadsTyped
<1>1. ASSUME NEW c \in Callers, ClientRequest(c) \/ ClientReturn(c)
      PROVE  ThreadInv' /\ CallerInv'
    <2>1. c \notin Threads /\ UNCHANGED toolVars
        BY <1>1 DEF ClientRequest, ClientReturn
    <2>2. /\ CallerInv' /\ UNCHANGED db
          /\ \A d \in Callers : d # c =>
                pc'[d] = pc[d] /\ req'[d] = req[d] /\ reply'[d] = reply[d]
        BY <1>1, InvokeKeepsCallers, ReturnKeepsCallers DEF ClientRequest, ClientReturn
    <2>3. ASSUME NEW id \in TaskIds
          PROVE  WorkerAsks(id)' /\ MonitorAsks(id)' /\ RowOf(id)' /\ CancelOf(id)'
        BY <1>t, <2>1, <2>2, ThreadFrame DEF toolVars, CallsInv, ThreadInv
    <2> QED
        BY <2>2, <2>3 DEF ThreadInv
<1>2. CASE CrashHere
    <2>1. ASSUME NEW id \in TaskIds
          PROVE  WorkerAsks(id)' /\ MonitorAsks(id)' /\ RowOf(id)' /\ CancelOf(id)'
        <3>0. RowOf(id)
            BY DEF CallsInv, ThreadInv
        <3>1. /\ pc'[WorkerOf[id]] = "idle" /\ pc'[MonitorOf[id]] = "idle"
              /\ reply'[WorkerOf[id]] = NoReply /\ reply'[MonitorOf[id]] = NoReply
              /\ UNCHANGED db
            BY <1>2, <1>t DEF CrashHere, Crash
        <3>2. /\ worker'[id] = IF worker[id] = "none" THEN "none" ELSE "lost"
              /\ monitor'[id] = IF monitor[id] = "none" THEN "none" ELSE "stopped"
            BY <1>2 DEF CrashHere
        <3> QED
            BY <3>0, <3>1, <3>2, NoReplyIsNoCancel
            DEF WorkerAsks, MonitorAsks, RowOf, CancelOf, Busy
    <2>2. \A d \in Callers :
            \/ pc'[d] = "idle" /\ reply'[d] = NoReply
            \/ pc'[d] = pc[d] /\ req'[d] = req[d] /\ reply'[d] = reply[d]
        BY <1>2 DEF CrashHere, Crash
    <2>3. CallerInv'
        BY <1>2, <2>2 DEF CallsInv, CallerInv, Busy, CrashHere, Crash, Threads
    <2> QED
        BY <2>1, <2>3 DEF ThreadInv
<1>3. ASSUME NEW i \in Instances, CrashElsewhere(i) PROVE ThreadInv' /\ CallerInv'
    <2>1. i # Here /\ UNCHANGED toolVars /\ UNCHANGED db
        BY <1>3 DEF CrashElsewhere, Crash
    <2>2. \A d \in Callers :
            \/ Home[d] = i /\ pc'[d] = "idle" /\ reply'[d] = NoReply
            \/ pc'[d] = pc[d] /\ req'[d] = req[d] /\ reply'[d] = reply[d]
        BY <1>3 DEF CrashElsewhere, Crash
    <2>3. CallerInv'
        BY <2>1, <2>2 DEF CallsInv, CallerInv, Busy, Threads
    <2>4. ASSUME NEW id \in TaskIds
          PROVE  WorkerAsks(id)' /\ MonitorAsks(id)' /\ RowOf(id)' /\ CancelOf(id)'
        BY <1>t, <2>1, <2>2, ThreadFrame DEF toolVars, CallsInv, ThreadInv
    <2> QED
        BY <2>3, <2>4 DEF ThreadInv
<1>4. CASE UNCHANGED systemVars
    BY <1>4 DEF systemVars, vars, toolVars, CallsInv, ThreadInv, CallerInv, WorkerAsks,
                MonitorAsks, RowOf, CancelOf, Busy, Outcome
<1> QED
    BY <1>1, <1>2, <1>3, <1>4

\* The invariant that the refinement rests on.
THEOREM CallsCorrect == SystemSpec => []CallsInv
<1>1. SystemInit => ThreadInv /\ CallerInv
    <2> SUFFICES ASSUME SystemInit PROVE ThreadInv /\ CallerInv
        OBVIOUS
    <2>1. \A c \in Callers : pc[c] = "idle" /\ reply[c] = NoReply
        BY DEF SystemInit, Init
    <2>2. CallerInv
        BY <2>1 DEF CallerInv, Busy
    <2>3. ASSUME NEW id \in TaskIds
          PROVE  WorkerAsks(id) /\ MonitorAsks(id) /\ RowOf(id) /\ CancelOf(id)
        BY <2>1, ThreadsTyped, NoReplyIsNoCancel
        DEF SystemInit, Init, WorkerAsks, MonitorAsks, RowOf, CancelOf, Busy
    <2> QED
        BY <2>2, <2>3 DEF ThreadInv
<1>2. SystemTypeOK /\ MethodInv /\ ThreadInv /\ CallerInv /\ [SystemNext]_systemVars
        => (ThreadInv /\ CallerInv)'
    <2> SUFFICES ASSUME SystemTypeOK, MethodInv, ThreadInv, CallerInv, [SystemNext]_systemVars
                 PROVE  ThreadInv' /\ CallerInv'
        OBVIOUS
    <2>1. CallsInv
        BY DEF CallsInv, MethodInv
    <2>2. ASSUME NEW c \in Callers, Statement(c), UNCHANGED toolVars
          PROVE  ThreadInv' /\ CallerInv'
        BY <2>1, <2>2, StatementKeepsThreads, StatementKeepsCallers
    <2> QED
        BY <2>1, <2>2, ToolKeepsCalls, OutsideKeepsCalls DEF SystemNext
<1>3. SystemTypeOK /\ MethodInv /\ ThreadInv /\ CallerInv => CallsInv
    BY DEF CallsInv, MethodInv
<1> QED
    BY <1>1, <1>2, <1>3, SystemTypeCorrect, UsesSqliteStore, MethodCorrect, PTL DEF SystemSpec

-----------------------------------------------------------------------------
\* The refinement.

WorkerSeen == [id \in TaskIds |-> WorkerSeenOf(id)]
MonitorSeen == [id \in TaskIds |-> MonitorSeenOf(id)]
SeenVars == <<db, WorkerSeen, result, flag, MonitorSeen, CancelTxsSeen, crashes>>

\* The tool looks the same for task d after a step.
SameFor(d) ==
    /\ WorkerSeenOf(d)' = WorkerSeenOf(d)
    /\ MonitorSeenOf(d)' = MonitorSeenOf(d)
    /\ d \in CancelTxsSeen' <=> d \in CancelTxsSeen

LEMMA SeenFrame ==
    ASSUME NEW d \in TaskIds,
           worker'[d] = worker[d], monitor'[d] = monitor[d],
           d \in cancelTxs' <=> d \in cancelTxs,
           db'[d] = NoTask <=> db[d] = NoTask,
           worker[d] = "settle" =>
                (reply'[WorkerOf[d]].kind = "ok" <=> reply[WorkerOf[d]].kind = "ok")
    PROVE  SameFor(d)
    BY DEF SameFor, WorkerSeenOf, MonitorSeenOf, CancelTxsSeen

\* What one task looks like decides what the functions look like.
LEMMA SeenFunctions ==
    ASSUME NEW id \in TaskIds, \A d \in TaskIds : d # id => SameFor(d)
    PROVE  /\ WorkerSeen' = [WorkerSeen EXCEPT ![id] = WorkerSeenOf(id)']
           /\ MonitorSeen' = [MonitorSeen EXCEPT ![id] = MonitorSeenOf(id)']
           /\ WorkerSeen[id] = WorkerSeenOf(id) /\ MonitorSeen[id] = MonitorSeenOf(id)
           /\ MonitorSeenOf(id)' = MonitorSeenOf(id) => UNCHANGED MonitorSeen
           /\ WorkerSeenOf(id)' = WorkerSeenOf(id) => UNCHANGED WorkerSeen
    BY DEF SameFor, WorkerSeen, MonitorSeen

LEMMA SeenUnchanged ==
    ASSUME \A d \in TaskIds : SameFor(d), CallsInv, SystemTypeOK'
    PROVE  UNCHANGED <<WorkerSeen, MonitorSeen, CancelTxsSeen>>
<1>1. UNCHANGED <<WorkerSeen, MonitorSeen>>
    BY DEF SameFor, WorkerSeen, MonitorSeen
<1>2. CancelTxsSeen \subseteq TaskIds /\ CancelTxsSeen' \subseteq TaskIds
    BY DEF CancelTxsSeen, CallsInv, SystemTypeOK
<1> QED
    BY <1>1, <1>2 DEF SameFor

LEMMA InitImplements == SystemInit => Tool!Init
    BY DEF SystemInit, Init, Tool!Init, WorkerSeenOf, MonitorSeenOf, CancelTxsSeen, NoTask, Tool!NoTask

LEMMA SameLifecycle ==
    /\ Tool!NoTask = NoTask
    /\ \A s, t : Tool!CanTransitionTo(s, t) <=> CanTransitionTo(s, t)
    /\ \A s : Tool!IsTerminal(s) <=> IsTerminal(s)
    /\ \A id : Tool!Outcome(id) = Outcome(id)
    BY DEF Tool!NoTask, NoTask, Tool!CanTransitionTo, CanTransitionTo, Tool!IsTerminal,
           IsTerminal, Tool!Terminal, Terminal, Tool!Outcome, Outcome

\* The calls and returns that Indexer does not have, a walk, and what the worker
\* and the monitor make of the answers.
LEMMA ToolImplements ==
    ASSUME CallsInv, SystemTypeOK', NEW id \in TaskIds, ToolNext(id)
    PROVE  Tool!Next \/ UNCHANGED SeenVars
<1>0. WorkerAsks(id) /\ MonitorAsks(id) /\ RowOf(id) /\ CancelOf(id)
    BY DEF CallsInv, ThreadInv
<1>t. /\ TypeOK /\ WorkerOf[id] \in Callers /\ MonitorOf[id] \in Callers
      /\ WorkerOf[id] # MonitorOf[id]
      /\ \A d \in TaskIds : d # id => WorkerOf[d] # WorkerOf[id]
      /\ \A d \in TaskIds : WorkerOf[d] # MonitorOf[id] /\ WorkerOf[d] \in Callers
    BY ThreadsTyped, ThreadsAssumption DEF CallsInv, SystemTypeOK
<1>w. /\ worker \in [TaskIds -> {"none", "inserting", "walking", "cleanup", "check",
                                 "settle", "exited", "lost"}]
      /\ result \in [TaskIds -> {"none", "full", "skipped", "aborted", "panic"}]
      /\ flag \in [TaskIds -> BOOLEAN]
      /\ monitor \in [TaskIds -> {"none", "polling", "stopped"}]
      /\ cancelTxs \subseteq TaskIds
      /\ pc[WorkerOf[id]] # "idle" => worker[id] \in {"inserting", "check", "settle"}
      /\ pc[MonitorOf[id]] # "idle" => monitor[id] = "polling"
    BY DEF CallsInv, SystemTypeOK
<1>r. pc[WorkerOf[id]] # "done" => reply[WorkerOf[id]] = NoReply
    BY <1>t DEF CallsInv, CallerInv
<1>1. ASSUME SpawnIndexTask(id) PROVE UNCHANGED SeenVars
    <2>1. /\ worker[id] = "none" /\ worker' = [worker EXCEPT ![id] = "inserting"]
          /\ UNCHANGED <<db, reply, result, flag, monitor, cancelTxs, crashes>>
        BY <1>1 DEF SpawnIndexTask, Goto, Invoke
    <2>2. \A d \in TaskIds : d # id => SameFor(d)
        BY <2>1, <1>w, SeenFrame
    <2>3. SameFor(id)
        BY <1>0, <1>w, <2>1 DEF RowOf, SameFor, WorkerSeenOf, MonitorSeenOf, CancelTxsSeen
    <2> QED
        BY <2>1, <2>2, <2>3, SeenUnchanged DEF SeenVars
<1>2. ASSUME SpawnReturns(id) PROVE UNCHANGED SeenVars
    <2>1. /\ worker[id] = "inserting" /\ pc[WorkerOf[id]] = "done"
          /\ \A d \in TaskIds : d # id =>
                worker'[d] = worker[d] /\ monitor'[d] = monitor[d]
                /\ reply'[WorkerOf[d]] = reply[WorkerOf[d]]
                /\ (d \in cancelTxs' <=> d \in cancelTxs)
          /\ UNCHANGED <<db, result, flag, crashes>>
        BY <1>2, <1>t, <1>w DEF SpawnReturns, Goto, Return, TypeOK
    <2>2. \A d \in TaskIds : d # id => SameFor(d)
        BY <2>1, SeenFrame
    <2>3. \/ /\ db[id] # NoTask /\ worker'[id] = "walking" /\ monitor'[id] = "polling"
             /\ id \in cancelTxs'
          \/ db[id] = NoTask /\ worker'[id] = "lost" /\ UNCHANGED <<monitor, cancelTxs>>
        BY <1>0, <1>2, <1>w, <2>1 DEF SpawnReturns, Goto, RowOf
    <2>4. SameFor(id)
        BY <1>0, <1>w, <2>1, <2>3 DEF RowOf, SameFor, WorkerSeenOf, MonitorSeenOf, CancelTxsSeen
    <2> QED
        BY <2>1, <2>2, <2>4, SeenUnchanged DEF SeenVars
<1>3. ASSUME Walk(id) PROVE Tool!Next
    <2>1. PICK r \in {"full", "skipped", "aborted", "panic"} :
            /\ r = "aborted" => flag[id]
            /\ result' = [result EXCEPT ![id] = r]
        BY <1>3 DEF Walk
    <2>2. /\ worker[id] = "walking" /\ worker' = [worker EXCEPT ![id] = "cleanup"]
          /\ UNCHANGED <<db, reply, flag, monitor, cancelTxs, crashes>>
        BY <1>3 DEF Walk, Goto, vars
    <2>3. \A d \in TaskIds : d # id => SameFor(d)
        BY <1>w, <2>2, SeenFrame
    <2>4. /\ WorkerSeenOf(id) = "walking" /\ WorkerSeenOf(id)' = "cleanup"
          /\ MonitorSeenOf(id)' = MonitorSeenOf(id)
        BY <1>0, <1>w, <2>2 DEF RowOf, WorkerSeenOf, MonitorSeenOf
    <2>5. UNCHANGED CancelTxsSeen
        BY <1>w, <2>2 DEF CancelTxsSeen
    <2>6. Tool!WalkEnds(id, r)
        BY <2>1, <2>2, <2>3, <2>4, <2>5, SeenFunctions
        DEF Tool!WalkEnds, WorkerSeen, MonitorSeen
    <2> QED
        BY <2>1, <2>6 DEF Tool!Next, Tool!WorkerNext, Tool!WalkFinishes, Tool!WalkSkips, Tool!WalkAborts,
                          Tool!WalkPanics
<1>4. ASSUME DropSender(id) PROVE Tool!Next
    <2>1. /\ worker[id] = "cleanup"
          /\ worker' = [worker EXCEPT ![id] = IF result[id] = "panic" THEN "settle" ELSE "check"]
          /\ cancelTxs' = cancelTxs \ {id}
          /\ UNCHANGED <<db, reply, result, flag, monitor, crashes>>
        BY <1>4 DEF DropSender, Goto, vars
    <2>2. reply[WorkerOf[id]] = NoReply
        BY <1>r, <1>w, <2>1
    <2>3. \A d \in TaskIds : d # id => SameFor(d)
        BY <1>w, <2>1, SeenFrame
    <2>4. /\ WorkerSeenOf(id) = "cleanup"
          /\ WorkerSeenOf(id)' = IF result[id] = "panic" THEN "settle" ELSE "check"
          /\ MonitorSeenOf(id)' = MonitorSeenOf(id)
        BY <1>0, <1>w, <2>1, <2>2, ReplyKinds DEF RowOf, WorkerSeenOf, MonitorSeenOf
    <2>5. CancelTxsSeen' = CancelTxsSeen \ {id}
        BY <1>w, <2>1 DEF CancelTxsSeen
    <2>6. Tool!DropSender(id)
        BY <2>1, <2>3, <2>4, <2>5, SeenFunctions DEF Tool!DropSender, WorkerSeen, MonitorSeen
    <2> QED
        BY <2>6 DEF Tool!Next, Tool!WorkerNext
<1>5. ASSUME CheckCancelled(id) \/ Settle(id) \/ Poll(id) PROVE UNCHANGED SeenVars
    <2>1. UNCHANGED <<db, reply, worker, result, flag, monitor, cancelTxs, crashes>>
        BY <1>5 DEF CheckCancelled, Settle, Poll, Invoke, toolVars
    <2> QED
        BY <2>1, SeenFrame, SeenUnchanged DEF SeenVars
<1>6. ASSUME CheckReturns(id) PROVE Tool!Next
    <2>1. /\ worker[id] = "check"
          /\ worker' = [worker EXCEPT ![id] =
                IF reply[WorkerOf[id]] = Ok("cancelled") THEN "exited" ELSE "settle"]
          /\ reply'[WorkerOf[id]] = NoReply
          /\ \A d \in TaskIds : d # id => reply'[WorkerOf[d]] = reply[WorkerOf[d]]
          /\ UNCHANGED <<db, result, flag, monitor, cancelTxs, crashes>>
        BY <1>6, <1>t DEF CheckReturns, Goto, Return, TypeOK
    <2>2. \A d \in TaskIds : d # id => SameFor(d)
        BY <1>w, <2>1, SeenFrame
    <2>3. /\ WorkerSeenOf(id) = "check"
          /\ WorkerSeenOf(id)' =
                IF reply[WorkerOf[id]] = Ok("cancelled") THEN "exited" ELSE "settle"
          /\ MonitorSeenOf(id)' = MonitorSeenOf(id)
        BY <1>0, <1>w, <2>1, ReplyKinds DEF RowOf, WorkerSeenOf, MonitorSeenOf
    <2>4. UNCHANGED CancelTxsSeen
        BY <1>w, <2>1 DEF CancelTxsSeen
    <2>5. Tool!CheckCancelled(id)
        BY <1>0, <2>1, <2>2, <2>3, <2>4, SeenFunctions
        DEF Tool!CheckCancelled, WorkerSeen, MonitorSeen, CancelOf
    <2> QED
        BY <2>5 DEF Tool!Next, Tool!WorkerNext
<1>7. ASSUME SettleReturns(id) PROVE Tool!Next \/ UNCHANGED SeenVars
    <2>1. /\ worker[id] = "settle"
          /\ worker' = [worker EXCEPT ![id] = "exited"]
          /\ \A d \in TaskIds : d # id => reply'[WorkerOf[d]] = reply[WorkerOf[d]]
          /\ UNCHANGED <<db, result, flag, monitor, cancelTxs, crashes>>
        BY <1>7, <1>t DEF SettleReturns, Goto, Return, TypeOK
    <2>2. \A d \in TaskIds : d # id => SameFor(d)
        BY <1>w, <2>1, SeenFrame
    <2>3. /\ WorkerSeenOf(id)' = "exited" /\ MonitorSeenOf(id)' = MonitorSeenOf(id)
          /\ WorkerSeenOf(id) \in {"settle", "exited"}
        BY <1>0, <1>w, <2>1 DEF RowOf, WorkerSeenOf, MonitorSeenOf
    <2>4. UNCHANGED CancelTxsSeen
        BY <1>w, <2>1 DEF CancelTxsSeen
    <2>5. CASE WorkerSeenOf(id) = "exited"
        BY <2>1, <2>2, <2>3, <2>4, <2>5, SeenFunctions DEF SeenVars
    <2>6. CASE WorkerSeenOf(id) = "settle"
        <3>1. Tool!Settle(id)
            BY <2>1, <2>2, <2>3, <2>4, <2>6, SeenFunctions
            DEF Tool!Settle, WorkerSeen, MonitorSeen
        <3> QED
            BY <3>1 DEF Tool!Next, Tool!WorkerNext
    <2> QED
        BY <2>3, <2>5, <2>6
<1>8. ASSUME PollReturns(id) PROVE Tool!Next \/ UNCHANGED SeenVars
    <2> DEFINE r == reply[MonitorOf[id]]
    <2>1. /\ monitor[id] = "polling"
          /\ flag' = [flag EXCEPT ![id] = r = Ok("cancelled") \/ @]
          /\ monitor' = [monitor EXCEPT ![id] =
                IF r.kind = "ok" /\ ~IsTerminal(r.status) THEN @ ELSE "stopped"]
          /\ \A d \in TaskIds : reply'[WorkerOf[d]] = reply[WorkerOf[d]]
          /\ UNCHANGED <<db, worker, result, cancelTxs, crashes>>
        BY <1>8, <1>t DEF PollReturns, Return, TypeOK
    <2>2. \A d \in TaskIds : d # id => SameFor(d)
        BY <1>w, <2>1, SeenFrame
    <2>3. /\ MonitorSeenOf(id) = "polling" /\ MonitorSeenOf(id)' = monitor'[id]
          /\ WorkerSeenOf(id)' = WorkerSeenOf(id)
        BY <1>0, <1>w, <2>1 DEF RowOf, WorkerSeenOf, MonitorSeenOf
    <2>4. UNCHANGED CancelTxsSeen
        BY <1>w, <2>1 DEF CancelTxsSeen
    <2>5. CASE r.kind = "ok" /\ ~IsTerminal(r.status)
        <3>1. r # Ok("cancelled")
            BY <2>5, ReplyKinds DEF IsTerminal, Terminal
        <3>2. UNCHANGED <<flag, monitor>>
            BY <1>w, <2>1, <2>5, <3>1
        <3> QED
            BY <2>1, <2>2, <2>3, <2>4, <3>2, SeenFunctions DEF SeenVars
    <2>6. CASE ~(r.kind = "ok" /\ ~IsTerminal(r.status))
        <3>1. monitor'[id] = "stopped"
            BY <1>w, <2>1, <2>6
        <3>2. /\ r = Ok("cancelled") => db[id] = "cancelled" /\ flag' = [flag EXCEPT ![id] = TRUE]
              /\ r # Ok("cancelled") => UNCHANGED flag
            BY <1>0, <1>w, <2>1 DEF CancelOf
        <3>3. Tool!MonitorPoll(id)
            BY <2>1, <2>2, <2>3, <2>4, <3>1, <3>2, SeenFunctions
            DEF Tool!MonitorPoll, WorkerSeen, MonitorSeen
        <3> QED
            BY <3>3 DEF Tool!Next
    <2> QED
        BY <2>5, <2>6
<1> QED
    BY <1>1, <1>2, <1>3, <1>4, <1>5, <1>6, <1>7, <1>8 DEF ToolNext

\* A row is what one statement makes of it: the INSERT is the spawn, the UPDATE is
\* the worker's end or a client's update, and the UPDATE of a cancel is the cancel.
LEMMA StatementImplements ==
    ASSUME CallsInv, SystemTypeOK', NEW c \in Callers, Statement(c), UNCHANGED toolVars
    PROVE  Tool!Next \/ UNCHANGED SeenVars
<1>t. /\ TypeOK /\ Checked /\ req[c].id \in TaskIds
      /\ \A d \in TaskIds : WorkerOf[d] \in Callers /\ MonitorOf[d] \in Callers
      /\ \A d, e \in TaskIds : d # e => WorkerOf[d] # WorkerOf[e]
    BY ThreadsTyped, ThreadsAssumption, StatementCases DEF CallsInv, SystemTypeOK
<1>u. /\ UNCHANGED <<worker, result, flag, monitor, cancelTxs, crashes>>
    BY DEF toolVars
<1>k. /\ worker \in [TaskIds -> {"none", "inserting", "walking", "cleanup", "check",
                                 "settle", "exited", "lost"}]
      /\ cancelTxs \subseteq TaskIds
      /\ db \in [TaskIds -> TaskStatus \cup {NoTask}]
    BY DEF CallsInv, SystemTypeOK, TypeOK
<1>o. \A d \in TaskIds : c # WorkerOf[d] => reply'[WorkerOf[d]] = reply[WorkerOf[d]]
    BY <1>t, StatementFrame
<1>b. Busy(c) /\ reply[c] = NoReply
    BY <1>t, StatementMine DEF CallsInv, CallerInv, Busy
<1>m. \/ reply'[c] = reply[c] /\ UNCHANGED db
      \/ /\ pc'[c] = "done"
         /\ Reads(c, reply'[c]) \/ Stores(c, reply'[c]) \/ Moves(c, reply'[c])
                \/ Cancels(c, reply'[c])
    BY <1>t, StatementMine
\* The thread of a worker at its end is in an update of its own task.
<1>e. ASSUME NEW d \in TaskIds, c = WorkerOf[d], req[c].op = "update"
      PROVE  worker[d] = "settle" /\ req[c].id = d /\ req[c].to = Outcome(d)
    BY <1>b, <1>e DEF CallsInv, SystemTypeOK, ThreadInv, WorkerAsks, Busy
<1>s. ASSUME NEW d \in TaskIds, c = WorkerOf[d], worker[d] = "settle"
      PROVE  req[c].op = "update" /\ req[c].id = d
    BY <1>b, <1>s DEF CallsInv, ThreadInv, WorkerAsks
<1>1. CASE reply'[c] = reply[c] /\ UNCHANGED db
    <2>1. \A d \in TaskIds : SameFor(d)
        BY <1>1, <1>o, <1>u, SeenFrame
    <2> QED
        BY <1>1, <1>u, <2>1, SeenUnchanged DEF SeenVars
<1>2. CASE Reads(c, reply'[c])
    <2>1. ASSUME NEW d \in TaskIds, c = WorkerOf[d], worker[d] = "settle"
          PROVE  reply'[c].kind # "ok" /\ reply[c].kind # "ok"
        BY <1>2, <1>b, <1>s, <2>1, ReplyKinds DEF Reads
    <2>2. \A d \in TaskIds : SameFor(d)
        BY <1>2, <1>o, <1>u, <2>1, SeenFrame DEF Reads
    <2> QED
        BY <1>2, <1>u, <2>2, SeenUnchanged DEF SeenVars, Reads
<1>3. CASE Stores(c, reply'[c])
    <2>0. PICK id \in TaskIds : id = req[c].id
        BY <1>t
    <2>1. /\ c = WorkerOf[id] /\ worker[id] = "inserting" /\ db[id] = NoTask
          /\ db' = [db EXCEPT ![id] = "working"]
        BY <2>0, <1>3, <1>b, WhoInserts DEF Stores
    <2>2. \A d \in TaskIds : d # id => SameFor(d)
        BY <2>0, <1>k, <1>o, <1>t, <1>u, <2>1, SeenFrame
    <2>3. monitor[id] = "none"
        BY <2>0, <1>t, <2>1 DEF CallsInv, ThreadInv, RowOf
    <2>4. db'[id] # NoTask
        BY <2>0, <1>k, <1>t, <2>1 DEF NoTask
    <2>5. /\ WorkerSeenOf(id) = "none" /\ WorkerSeenOf(id)' = "walking"
          /\ MonitorSeenOf(id)' = "polling"
        BY <2>0, <1>u, <2>1, <2>3, <2>4 DEF WorkerSeenOf, MonitorSeenOf
    <2>6. CancelTxsSeen' = CancelTxsSeen \cup {id}
        BY <2>0, <1>k, <1>t, <1>u, <2>1, <2>4 DEF CancelTxsSeen
    <2>7. Tool!SpawnIndexTask(id)
        BY <2>0, <1>t, <1>u, <2>1, <2>2, <2>5, <2>6, SeenFunctions
        DEF Tool!SpawnIndexTask, WorkerSeen, MonitorSeen
    <2> QED
        BY <2>0, <1>t, <2>7 DEF Tool!Next
<1>4. CASE Moves(c, reply'[c])
    <2>0. PICK id \in TaskIds : id = req[c].id
        BY <1>t
    <2>1. /\ req[c].op = "update" /\ CanTransitionTo(db[id], req[c].to)
          /\ db' = [db EXCEPT ![id] = req[c].to]
          /\ req[c].to \in TaskStatus /\ reply'[c].kind = "ok"
        BY <2>0, <1>4, <1>b, <1>t, RequestTyped, ReplyKinds DEF Moves, Busy, TypeOK
    <2>2. db[id] # NoTask /\ db'[id] # NoTask
        BY <2>0, <1>k, <1>t, <2>1 DEF CanTransitionTo, NoTask, TaskStatus
    <2>3. CancelTxsSeen' = CancelTxsSeen
        BY <2>0, <1>k, <1>t, <1>u, <2>1, <2>2 DEF CancelTxsSeen
    <2>4. CASE \E d \in TaskIds : c = WorkerOf[d]
        <3>1. c = WorkerOf[id] /\ worker[id] = "settle" /\ req[c].to = Outcome(id)
            BY <2>0, <1>e, <2>1, <2>4
        <3>2. \A d \in TaskIds : d # id => SameFor(d)
            BY <2>0, <1>k, <1>o, <1>t, <1>u, <2>1, <3>1, SeenFrame
        <3>3. /\ WorkerSeenOf(id) = "settle" /\ WorkerSeenOf(id)' = "exited"
              /\ MonitorSeenOf(id)' = MonitorSeenOf(id)
            BY <2>0, <1>b, <1>u, <2>1, <2>2, <3>1, ReplyKinds DEF WorkerSeenOf, MonitorSeenOf
        <3>4. /\ WorkerSeen' = [WorkerSeen EXCEPT ![id] = "exited"]
              /\ WorkerSeen[id] = "settle" /\ UNCHANGED MonitorSeen
            BY <2>0, <1>t, <3>2, <3>3, SeenFunctions
        <3>5. Tool!Settle(id)
            BY <2>0, <1>u, <2>1, <2>3, <3>1, <3>4, SameLifecycle
            DEF Tool!Settle, WorkerSeen, MonitorSeen
        <3> QED
            BY <2>0, <1>t, <3>5 DEF Tool!Next, Tool!WorkerNext
    <2>5. CASE \A d \in TaskIds : c # WorkerOf[d]
        <3>1. c \notin Threads
            BY <2>0, <1>b, <2>1, <2>5 DEF Threads, CallsInv, ThreadInv, MonitorAsks
        <3>2. req[c].to \in ClientTargets
            BY <2>0, <1>b, <2>1, <3>1 DEF CallsInv, CallerInv
        <3>3. \A d \in TaskIds : SameFor(d)
            BY <2>0, <1>k, <1>o, <1>t, <1>u, <2>1, <2>2, <2>5, SeenFrame
        <3>4. UNCHANGED <<WorkerSeen, MonitorSeen>>
            BY <3>3, SeenUnchanged
        <3>5. Tool!ClientUpdate(id, req[c].to)
            BY <2>0, <1>u, <2>1, <2>3, <3>4, SameLifecycle
            DEF Tool!ClientUpdate, WorkerSeen, MonitorSeen
        <3> QED
            BY <2>0, <1>t, <3>2, <3>5 DEF Tool!Next
    <2> QED
        BY <2>4, <2>5
<1>5. CASE Cancels(c, reply'[c])
    <2>0. PICK id \in TaskIds : id = req[c].id
        BY <1>t
    <2>1. /\ req[c].op = "cancel" /\ db[id] # NoTask
          /\ db' = [db EXCEPT ![id] = "cancelled"]
        BY <2>0, <1>5 DEF Cancels, CallsInv, CallerInv
    <2>2. db'[id] # NoTask
        BY <2>0, <1>k, <1>t, <2>1 DEF NoTask
    <2>3. \A d \in TaskIds : c = WorkerOf[d] => worker[d] # "settle"
        BY <2>0, <1>s, <2>1
    <2>4. \A d \in TaskIds : SameFor(d)
        BY <2>0, <1>k, <1>o, <1>t, <1>u, <2>1, <2>2, <2>3, SeenFrame
    <2>5. UNCHANGED <<WorkerSeen, MonitorSeen, CancelTxsSeen>>
        BY <2>4, SeenUnchanged
    <2>6. Tool!ClientCancel(id)
        BY <2>0, <1>u, <2>1, <2>5, SameLifecycle DEF Tool!ClientCancel, WorkerSeen, MonitorSeen
    <2> QED
        BY <2>0, <1>t, <2>6 DEF Tool!Next
<1> QED
    BY <1>m, <1>1, <1>2, <1>3, <1>4, <1>5

LEMMA OutsideImplements ==
    ASSUME CallsInv, SystemTypeOK',
           \/ \E c \in Callers : ClientRequest(c) \/ ClientReturn(c)
           \/ CrashHere
           \/ \E i \in Instances : CrashElsewhere(i)
           \/ UNCHANGED systemVars
    PROVE  Tool!Next \/ UNCHANGED SeenVars
<1>1. ASSUME UNCHANGED <<db, toolVars>>,
             \A d \in TaskIds : reply'[WorkerOf[d]] = reply[WorkerOf[d]]
      PROVE  UNCHANGED SeenVars
    BY <1>1, SeenFrame, SeenUnchanged DEF SeenVars, toolVars
<1>2. ASSUME NEW c \in Callers, ClientRequest(c) \/ ClientReturn(c)
      PROVE  UNCHANGED SeenVars
    <2>1. c \notin Threads /\ UNCHANGED <<db, toolVars>>
        BY <1>2 DEF ClientRequest, ClientReturn, Invoke, Return
    <2>2. \A d \in Callers : d # c => reply'[d] = reply[d]
        BY <1>2 DEF ClientRequest, ClientReturn, Invoke, Return, CallsInv, SystemTypeOK, TypeOK
    <2> QED
        BY <1>1, <2>1, <2>2, ThreadsTyped
<1>3. ASSUME NEW i \in Instances, CrashElsewhere(i) PROVE UNCHANGED SeenVars
    <2>1. UNCHANGED <<db, toolVars>> /\ i # Here
          /\ \A d \in Callers : Home[d] # i => reply'[d] = reply[d]
        BY <1>3 DEF CrashElsewhere, Crash, CallsInv, SystemTypeOK, TypeOK
    <2> QED
        BY <1>1, <2>1, ThreadsTyped
<1>4. CASE UNCHANGED systemVars
    BY <1>1, <1>4 DEF systemVars, vars
<1>5. CASE CrashHere
    <2>1. /\ crashes < MaxCrashes /\ crashes' = crashes + 1
          /\ worker' = [id \in TaskIds |-> IF worker[id] = "none" THEN "none" ELSE "lost"]
          /\ monitor' = [id \in TaskIds |-> IF monitor[id] = "none" THEN "none" ELSE "stopped"]
          /\ cancelTxs' = {}
          /\ UNCHANGED <<db, result, flag>>
        BY <1>5 DEF CrashHere, Crash
    <2>2. ASSUME NEW id \in TaskIds
          PROVE  /\ WorkerSeenOf(id)' = IF WorkerSeenOf(id) = "none" THEN "none" ELSE "lost"
                 /\ MonitorSeenOf(id)' = IF MonitorSeenOf(id) = "none" THEN "none" ELSE "stopped"
        <3>1. RowOf(id)
            BY DEF CallsInv, ThreadInv
        <3>2. /\ worker'[id] = IF worker[id] = "none" THEN "none" ELSE "lost"
              /\ monitor'[id] = IF monitor[id] = "none" THEN "none" ELSE "stopped"
              /\ db'[id] = db[id]
            BY <2>1
        <3>3. CASE db[id] = NoTask
            BY <3>1, <3>2, <3>3 DEF RowOf, WorkerSeenOf, MonitorSeenOf
        <3>4. CASE db[id] # NoTask
            <4>1. worker[id] # "none" /\ worker'[id] = "lost"
                BY <3>1, <3>2, <3>4 DEF RowOf
            <4>2. WorkerSeenOf(id) # "none" /\ WorkerSeenOf(id)' = "lost"
                BY <3>2, <3>4, <4>1 DEF WorkerSeenOf
            <4>3. MonitorSeenOf(id) # "none" /\ MonitorSeenOf(id)' = "stopped"
                BY <3>2, <3>4, <4>1 DEF MonitorSeenOf
            <4> QED
                BY <4>2, <4>3
        <3> QED
            BY <3>3, <3>4
    <2>3. CancelTxsSeen' = {}
        BY <2>1 DEF CancelTxsSeen
    <2>4. Tool!Crash
        BY <2>1, <2>2, <2>3 DEF Tool!Crash
    <2> QED
        BY <2>4 DEF Tool!Next
<1> QED
    BY <1>2, <1>3, <1>4, <1>5

\* Taken apart into statements, and with other servers on the file, the tool does
\* nothing that Indexer does not do.
THEOREM StatementsImplementTool == SystemSpec => ImplementsIndexer
<1>1. SystemInit => Tool!Init
    BY InitImplements
<1>2. CallsInv /\ SystemTypeOK' /\ [SystemNext]_systemVars => [Tool!Next]_SeenVars
    BY ToolImplements, StatementImplements, OutsideImplements DEF SystemNext
<1>3. [Tool!Next]_SeenVars => [Tool!Next]_(Tool!vars)
    BY DEF SeenVars, WorkerSeen, MonitorSeen, Tool!vars
<1> QED
    BY <1>1, <1>2, <1>3, SystemTypeCorrect, CallsCorrect, PTL
    DEF SystemSpec, ImplementsIndexer, Tool!Spec

-----------------------------------------------------------------------------
\* What callers are told of the outcome.

\* The flag, and so a walk that stopped at it, means a cancel; and a walk has
\* given its result before the worker acts on it.
WalkOf(id) ==
    /\ flag[id] \/ result[id] = "aborted" => db[id] = "cancelled"
    /\ worker[id] \in {"none", "inserting", "walking"} => result[id] = "none"
    /\ worker[id] = "check" => result[id] # "panic"
    /\ worker[id] \in {"cleanup", "check", "settle"} => result[id] # "none"

\* An outcome that no client asks for is the walk's, in the row as in the answers.
MatchesWalk(id, s) ==
    s \notin ClientTargets =>
        /\ s = "completed" => result[id] \in {"full", "skipped"}
        /\ s = "failed" => result[id] = "panic"

OutcomeInv == \A id \in TaskIds :
    /\ WalkOf(id)
    /\ \A s \in told[id] \cup {db[id]} : MatchesWalk(id, s)

\* A call tells at most the status that is in the row after its statement.
LEMMA StatementTells ==
    ASSUME TypeOK, NEW c \in Callers, Statement(c), NEW id \in TaskIds
    PROVE  told'[id] \subseteq told[id] \cup {db'[id]}
<1>1. ASSUME NEW j \in TaskIds, NEW r, Tell(j, r), Told(r) \subseteq {db'[j]}
      PROVE  told'[id] \subseteq told[id] \cup {db'[id]}
    BY <1>1 DEF Tell, TypeOK
<1>q. req[c] \in Request => req[c].id \in TaskIds
    BY RequestTyped
<1>2. CASE Get(c)
    <2> DEFINE r == IF db[req[c].id] = NoTask THEN NotFound ELSE Ok(db[req[c].id])
    <2>1. Tell(req[c].id, r) /\ req[c].id \in TaskIds /\ UNCHANGED db
        BY <1>2, <1>q DEF Get, MayStart, TypeOK
    <2>2. Told(r) \subseteq {db[req[c].id]}
        BY ToldByReply
    <2> HIDE DEF r
    <2> QED
        BY <1>1, <2>1, <2>2
<1>3. CASE Insert(c)
    BY <1>3, <1>q DEF Insert, MayStart, TypeOK
<1>4. CASE UpdateRead(c)
    BY <1>1, <1>4, <1>q, ToldByReply DEF UpdateRead, MayStart, GoOn, TypeOK
<1>5. CASE UpdateWrite(c)
    <2>1. req[c].id \in TaskIds
        BY <1>5, <1>q DEF UpdateWrite, TypeOK
    <2>2. CASE db' = [db EXCEPT ![req[c].id] = req[c].to] /\ Tell(req[c].id, Ok(req[c].to))
        <3>1. db'[req[c].id] = req[c].to
            BY <2>1, <2>2 DEF TypeOK
        <3> QED
            BY <1>1, <2>1, <2>2, <3>1, ToldByReply
    <2>3. CASE UNCHANGED told
        BY <2>3
    <2> QED
        BY <1>5, <2>2, <2>3 DEF UpdateWrite
<1>6. CASE UpdateReread(c)
    <2> DEFINE r == IF db[req[c].id] = NoTask THEN NotFound
                    ELSE Illegal(db[req[c].id], req[c].to)
    <2>1. Tell(req[c].id, r) /\ req[c].id \in TaskIds /\ UNCHANGED db
        BY <1>6, <1>q DEF UpdateReread, TypeOK
    <2>2. Told(r) \subseteq {db[req[c].id]}
        BY ToldByReply
    <2> HIDE DEF r
    <2> QED
        BY <1>1, <2>1, <2>2
<1>7. CASE CancelRead(c)
    BY <1>1, <1>7, <1>q, ToldByReply DEF CancelRead, MayStart, GoOn, TypeOK
<1>8. CASE CancelWrite(c)
    <2>1. req[c].id \in TaskIds /\ db' = [db EXCEPT ![req[c].id] = "cancelled"]
          /\ Tell(req[c].id, Ok("cancelled"))
        BY <1>8, <1>q DEF CancelWrite, TypeOK
    <2>2. db'[req[c].id] = "cancelled"
        BY <2>1 DEF TypeOK
    <2> QED
        BY <1>1, <2>1, <2>2, ToldByReply
<1>9. CASE StatementError(c)
    BY <1>9 DEF StatementError
<1> QED
    BY <1>2, <1>3, <1>4, <1>5, <1>6, <1>7, <1>8, <1>9 DEF Statement

\* A statement that changes a row to an outcome that no client asks for is the
\* update of the worker after that outcome.
LEMMA WhoEnds ==
    ASSUME CallsInv, NEW c \in Callers, Statement(c), NEW id \in TaskIds,
           db'[id] # db[id], db'[id] \in {"completed", "failed"}, db'[id] \notin ClientTargets
    PROVE  worker[id] = "settle" /\ db'[id] = Outcome(id) /\ db[id] # "cancelled"
<1>t. /\ TypeOK /\ Checked /\ req[c].id \in TaskIds /\ Busy(c)
      /\ GoesOn(c) \/ Replies(c)
    BY StatementCases DEF CallsInv, SystemTypeOK
<1>1. PICK r : Stores(c, r) \/ Moves(c, r) \/ Cancels(c, r)
    BY <1>t DEF GoesOn, Replies, Reads
<1>2. Moves(c, r) /\ req[c].id = id /\ req[c].to = db'[id]
    BY <1>1, <1>t DEF Stores, Moves, Cancels, TypeOK
<1>3. c \in Threads
    BY <1>2, <1>t DEF CallsInv, CallerInv, Moves
<1>4. PICK d \in TaskIds : c = WorkerOf[d]
    BY <1>2, <1>3, <1>t DEF Threads, CallsInv, ThreadInv, MonitorAsks, Moves
<1>5. worker[d] = "settle" /\ d = id /\ req[c].to = Outcome(id)
    BY <1>2, <1>4, <1>t DEF CallsInv, SystemTypeOK, ThreadInv, WorkerAsks, Moves, Busy
<1> QED
    BY <1>2, <1>5 DEF Moves, CanTransitionTo

LEMMA OutcomeStep ==
    ASSUME CallsInv, OutcomeInv, [SystemNext]_systemVars
    PROVE  OutcomeInv'
<1>t. /\ worker \in [TaskIds -> {"none", "inserting", "walking", "cleanup", "check",
                                 "settle", "exited", "lost"}]
      /\ result \in [TaskIds -> {"none", "full", "skipped", "aborted", "panic"}]
      /\ flag \in [TaskIds -> BOOLEAN]
    BY DEF CallsInv, SystemTypeOK
\* Steps that leave the rows, the answers and the results alone.
<1>f. ASSUME UNCHANGED <<db, told, result>>,
             \A id \in TaskIds : flag'[id] => flag[id] \/ db[id] = "cancelled",
             \A id \in TaskIds :
                \/ worker'[id] \in {worker[id], "exited", "lost"}
                \/ worker[id] = "none" /\ worker'[id] = "inserting"
                \/ worker[id] = "inserting" /\ worker'[id] = "walking"
                \/ worker[id] = "cleanup" /\ worker'[id] = "settle"
                \/ worker[id] = "cleanup" /\ worker'[id] = "check" /\ result[id] # "panic"
                \/ worker[id] = "check" /\ worker'[id] = "settle"
      PROVE  OutcomeInv'
    BY <1>f, <1>t DEF OutcomeInv, WalkOf, MatchesWalk
<1>1. ASSUME NEW id \in TaskIds, ToolNext(id) PROVE OutcomeInv'
    <2>0. RowOf(id) /\ CancelOf(id)
        BY DEF CallsInv, ThreadInv
    <2>1. CASE Walk(id)
        <3>1. PICK r \in {"full", "skipped", "aborted", "panic"} :
                (r = "aborted" => flag[id]) /\ result' = [result EXCEPT ![id] = r]
            BY <2>1 DEF Walk
        <3>2. /\ worker[id] = "walking" /\ worker' = [worker EXCEPT ![id] = "cleanup"]
              /\ UNCHANGED <<db, told, flag>>
            BY <2>1 DEF Walk, Goto, vars
        <3>3. WalkOf(id)' /\ \A s \in told[id] \cup {db[id]} : MatchesWalk(id, s)'
            BY <1>t, <3>1, <3>2 DEF OutcomeInv, WalkOf, MatchesWalk
        <3>4. ASSUME NEW d \in TaskIds, d # id
              PROVE  WalkOf(d)' /\ \A s \in told[d] \cup {db[d]} : MatchesWalk(d, s)'
            BY <1>t, <3>1, <3>2, <3>4 DEF OutcomeInv, WalkOf, MatchesWalk
        <3> QED
            BY <3>2, <3>3, <3>4 DEF OutcomeInv
    <2>2. CASE PollReturns(id)
        <3>1. /\ \A d \in TaskIds : flag'[d] => flag[d] \/ db[d] = "cancelled"
              /\ UNCHANGED <<db, told, result, worker>>
            BY <1>t, <2>0, <2>2 DEF PollReturns, Return, CancelOf
        <3> QED
            BY <1>f, <3>1
    <2>3. CASE SpawnIndexTask(id) \/ SpawnReturns(id) \/ DropSender(id) \/ CheckCancelled(id)
               \/ CheckReturns(id) \/ Settle(id) \/ SettleReturns(id) \/ Poll(id)
        <3>1. UNCHANGED <<db, told, result, flag>>
            BY <2>3 DEF SpawnIndexTask, SpawnReturns, DropSender, CheckCancelled, CheckReturns,
                        Settle, SettleReturns, Poll, Invoke, Return, toolVars, vars
        <3>2. /\ \A d \in TaskIds : d # id => worker'[d] = worker[d]
              /\ \/ worker'[id] \in {worker[id], "exited", "lost"}
                 \/ worker[id] = "none" /\ worker'[id] = "inserting"
                 \/ worker[id] = "inserting" /\ worker'[id] = "walking"
                 \/ worker[id] = "cleanup" /\ worker'[id] = "settle"
                 \/ worker[id] = "cleanup" /\ worker'[id] = "check" /\ result[id] # "panic"
                 \/ worker[id] = "check" /\ worker'[id] = "settle"
            BY <1>t, <2>3 DEF SpawnIndexTask, SpawnReturns, DropSender, CheckCancelled,
                        CheckReturns, Settle, SettleReturns, Poll, Goto, toolVars
        <3> QED
            BY <1>f, <3>1, <3>2
    <2> QED
        BY <1>1, <2>1, <2>2, <2>3 DEF ToolNext
<1>2. ASSUME NEW c \in Callers, Statement(c), UNCHANGED toolVars PROVE OutcomeInv'
    <2> SUFFICES ASSUME NEW id \in TaskIds
                 PROVE  WalkOf(id)' /\ \A s \in told'[id] \cup {db'[id]} : MatchesWalk(id, s)'
        BY DEF OutcomeInv
    <2>u. UNCHANGED <<worker, result, flag>>
        BY <1>2 DEF toolVars
    <2>1. WalkOf(id)'
        BY <1>2, <2>u, RowsKept DEF OutcomeInv, WalkOf
    <2>2. MatchesWalk(id, db'[id])
        <3>1. CASE db'[id] = db[id]
            BY <3>1 DEF OutcomeInv
        <3>2. CASE db'[id] # db[id]
            <4>1. SUFFICES ASSUME db'[id] \in {"completed", "failed"}, db'[id] \notin ClientTargets
                           PROVE  MatchesWalk(id, db'[id])
                BY DEF MatchesWalk
            <4>2. worker[id] = "settle" /\ db'[id] = Outcome(id) /\ db[id] # "cancelled"
                BY <1>2, <3>2, <4>1, WhoEnds
            <4>3. result[id] \in {"full", "skipped", "panic"}
                BY <1>t, <4>2 DEF OutcomeInv, WalkOf
            <4> QED
                BY <4>2, <4>3 DEF MatchesWalk, Outcome
        <3> QED
            BY <3>1, <3>2
    <2>3. told'[id] \subseteq told[id] \cup {db'[id]}
        BY <1>2, StatementTells DEF CallsInv, SystemTypeOK
    <2>4. \A s : MatchesWalk(id, s) => MatchesWalk(id, s)'
        BY <2>u DEF MatchesWalk
    <2> QED
        BY <2>1, <2>2, <2>3, <2>4 DEF OutcomeInv
<1>3. ASSUME NEW c \in Callers, ClientRequest(c) \/ ClientReturn(c) PROVE OutcomeInv'
    <2>1. UNCHANGED <<db, told, result, flag, worker>>
        BY <1>3 DEF ClientRequest, ClientReturn, Invoke, Return, toolVars
    <2> QED
        BY <1>f, <2>1
<1>4. CASE CrashHere
    <2>1. /\ UNCHANGED <<db, told, result, flag>>
          /\ \A id \in TaskIds : worker'[id] \in {worker[id], "lost"}
        BY <1>4 DEF CrashHere, Crash
    <2> QED
        BY <1>f, <2>1
<1>5. ASSUME NEW i \in Instances, CrashElsewhere(i) PROVE OutcomeInv'
    <2>1. UNCHANGED <<db, told, result, flag, worker>>
        BY <1>5 DEF CrashElsewhere, Crash, toolVars
    <2> QED
        BY <1>f, <2>1
<1>6. CASE UNCHANGED systemVars
    <2>1. UNCHANGED <<db, told, result, flag, worker>>
        BY <1>6 DEF systemVars, vars, toolVars
    <2> QED
        BY <1>f, <2>1
<1> QED
    BY <1>1, <1>2, <1>3, <1>4, <1>5, <1>6 DEF SystemNext

\* Nobody is told of an outcome that the walk did not have, unless a client has
\* asked for it.
THEOREM AnswersMatchTheWalk == SystemSpec => []ToldMatchesWalk
<1>1. SystemInit => OutcomeInv
    BY DEF SystemInit, Init, OutcomeInv, WalkOf, MatchesWalk, NoTask
<1>2. CallsInv /\ OutcomeInv /\ [SystemNext]_systemVars => OutcomeInv'
    BY OutcomeStep
<1>3. OutcomeInv => ToldMatchesWalk
    BY DEF OutcomeInv, MatchesWalk, ToldMatchesWalk
<1> QED
    BY <1>1, <1>2, <1>3, CallsCorrect, PTL DEF SystemSpec
-----------------------------------------------------------------------------
\* What holds of Indexer on a store that can fail and that other servers use too
\* holds here, statement by statement.

Indexed == INSTANCE Indexer_proofs WITH
    Ids <- TaskIds, StoreFaults <- TRUE, Durable <- TRUE, SharedFile <- TRUE,
    tasks <- db, cancelTxs <- CancelTxsSeen,
    worker <- [id \in TaskIds |-> WorkerSeenOf(id)],
    monitor <- [id \in TaskIds |-> MonitorSeenOf(id)]

\* The tool that the theorems about Indexer are about.
LEMMA SameTool ==
    /\ Tool!Init <=> Indexed!Init
    /\ [Tool!Next]_(Tool!vars) <=> [Indexed!Next]_(Indexed!vars)
    BY DEF Tool!Init, Indexed!Init, Tool!Next, Indexed!Next,
           Tool!SpawnIndexTask, Indexed!SpawnIndexTask, Tool!SpawnRefused,
           Indexed!SpawnRefused, Tool!WorkerNext, Indexed!WorkerNext,
           Tool!WalkEnds, Indexed!WalkEnds, Tool!WalkFinishes, Tool!WalkSkips,
           Indexed!WalkFinishes, Indexed!WalkSkips, Tool!WalkAborts, Indexed!WalkAborts,
           Tool!WalkPanics, Indexed!WalkPanics, Tool!DropSender,
           Indexed!DropSender, Tool!CheckCancelled, Indexed!CheckCancelled,
           Tool!Outcome, Indexed!Outcome, Tool!Settle, Indexed!Settle,
           Tool!MonitorPoll, Indexed!MonitorPoll, Tool!ClientUpdate,
           Indexed!ClientUpdate, Tool!ClientCancel, Indexed!ClientCancel,
           Tool!Crash, Indexed!Crash, Tool!vars, Indexed!vars,
           Tool!CanTransitionTo, Indexed!CanTransitionTo, Tool!IsTerminal,
           Indexed!IsTerminal, Tool!Terminal, Indexed!Terminal, Tool!Cancel,
           Indexed!Cancel, Tool!NoTask, Indexed!NoTask

LEMMA IndexedCorrect == SystemSpec => Indexed!Spec
    BY StatementsImplementTool, SameTool, PTL DEF ImplementsIndexer, Tool!Spec, Indexed!Spec

\* The assumptions of Indexer hold.
LEMMA IndexedAssumptions ==
    /\ ClientTargets \subseteq Indexed!TaskStatus
    /\ TRUE \in BOOLEAN /\ (TRUE => TRUE)
    /\ MaxCrashes \in Nat
    BY TargetsAssumption, CrashAssumption DEF Indexed!TaskStatus, TaskStatus

\* Whatever statements of whichever server come between, a walk that
\* stopped at a raised flag is never reported as completed.
THEOREM AbortedWalkStaysCancelled == SystemSpec => []Tool!AbortedNeverCompletes
<1>1. Indexed!Spec => []Indexed!AbortedNeverCompletes
    BY IndexedAssumptions, Indexed!AbortedStaysCancelled
<1>2. Indexed!AbortedNeverCompletes <=> Tool!AbortedNeverCompletes
    BY DEF Indexed!AbortedNeverCompletes, Tool!AbortedNeverCompletes, Indexed!Present, Tool!Present
<1> QED
    BY <1>1, <1>2, IndexedCorrect, PTL

\* A task that is cancelled stays cancelled for good, whatever statements of the
\* worker, of clients and of other servers come after.
THEOREM CancelledRowsStay == SystemSpec => Tool!CancelWins
<1> DEFINE Wins == \A id \in TaskIds : db[id] = "cancelled" =>
               db'[id] = "cancelled" \/ (~TRUE /\ crashes' # crashes)
<1>1. Indexed!Spec => Indexed!CancelWins
    BY IndexedAssumptions, Indexed!CancelsWin
<1>2. [Wins]_(Indexed!vars) => [Wins]_(Tool!vars)
    BY DEF Indexed!vars, Tool!vars
<1>3. Indexed!CancelWins => Tool!CancelWins
    BY <1>2, PTL DEF Indexed!CancelWins, Tool!CancelWins
<1> QED
    BY <1>1, <1>3, IndexedCorrect, PTL

\* Unless clients settle tasks themselves, a row says completed only after a walk
\* that came to its end, and failed only after a panic.
THEOREM RowsMatchTheWalk ==
    ASSUME ClientTargets \cap {"completed", "failed"} = {}
    PROVE  SystemSpec => []Tool!OutcomeMatchesWalk
<1>1. Indexed!ClientsDoNotSettle
    BY DEF Indexed!ClientsDoNotSettle
<1>2. Indexed!Spec => []Indexed!OutcomeMatchesWalk
    BY <1>1, IndexedAssumptions, Indexed!OutcomesMatch
<1>3. Indexed!OutcomeMatchesWalk <=> Tool!OutcomeMatchesWalk
    BY DEF Indexed!OutcomeMatchesWalk, Tool!OutcomeMatchesWalk
<1> QED
    BY <1>2, <1>3, IndexedCorrect, PTL
=============================================================================
