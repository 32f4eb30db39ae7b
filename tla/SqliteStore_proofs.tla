------------------------- MODULE SqliteStore_proofs -------------------------
(***************************************************************************)
(* Theorems about SqliteStore, for any set of task ids, any set of calling *)
(* threads and any number of instances on the database file.  Where all    *)
(* callers use the same instance, its mutex makes every method one step    *)
(* (Shared); where they do not, it keeps the promises of TaskStore for a   *)
(* shared file.                                                            *)
(***************************************************************************)
EXTENDS SqliteStore, TLAPS

-----------------------------------------------------------------------------
(* Types.                                                                  *)

\* The replies the methods build are replies.
LEMMA ReplyTyped ==
    /\ NotFound \in Reply /\ SqliteError \in Reply /\ Inserted \in Reply
    /\ \A s \in TaskStatus : Ok(s) \in Reply
    /\ \A s \in TaskStatus, t \in TaskStatus : Illegal(s, t) \in Reply
    BY DEF Reply, NotFound, SqliteError, Inserted, Ok, Illegal

\* What a reply tells is a set of terminal statuses.
LEMMA ToldTyped == \A r : Told(r) \in SUBSET Terminal
    BY DEF Told

\* A request has an id of a task; an insert or an update asks for a status.
LEMMA RequestTyped ==
    \A r \in Request :
        /\ r.id \in TaskIds
        /\ r.op \in {"get", "cancel", "insert", "update"}
        /\ r.op \in {"insert", "update"} => r.to \in TaskStatus
    BY DEF Request, TaskStatus

\* A method that returns a reply keeps the types, whatever it did to the
\* database before.
LEMMA AnswerTyped ==
    ASSUME TypeOK, NEW c \in Callers, NEW r \in Reply, Answer(c, r),
           db' \in [TaskIds -> TaskStatus \cup {NoTask}],
           told' \in [TaskIds -> SUBSET Terminal]
    PROVE  TypeOK'
    BY HomeAssumption DEF TypeOK, Answer

\* Telling keeps the type of told.
LEMMA TellTyped ==
    ASSUME TypeOK, NEW id \in TaskIds, NEW r, Tell(id, r)
    PROVE  told' \in [TaskIds -> SUBSET Terminal]
    BY ToldTyped DEF TypeOK, Tell

\* A read that goes on to a second statement keeps the types.
LEMMA GoOnTyped ==
    ASSUME TypeOK, NEW c \in Callers, pc[c] = "called", GoOn(c, "write"),
           req[c].op \in {"update", "cancel"}, db[req[c].id] # NoTask
    PROVE  TypeOK'
    BY RequestTyped, HomeAssumption DEF TypeOK, GoOn

\* Task::cancel gives a status.
LEMMA CancelTyped == \A s \in TaskStatus : Cancel(s) \in TaskStatus
    BY DEF Cancel, TaskStatus

\* Type correctness: the fields have their types, and a caller between two
\* statements has read a task, in a call that has a second statement.
THEOREM TypeCorrect == Spec => []TypeOK
<1>1. Init => TypeOK
    BY HomeAssumption DEF Init, TypeOK
<1>2. TypeOK /\ [Next]_vars => TypeOK'
    <2> SUFFICES ASSUME TypeOK, [Next]_vars PROVE TypeOK'
        OBVIOUS
    <2> USE DEF TypeOK
    <2>1. ASSUME NEW c \in Callers, NEW r \in Request, Invoke(c, r)
          PROVE  TypeOK'
        BY <2>1 DEF Invoke
    <2>2. ASSUME NEW c \in Callers, Get(c) PROVE TypeOK'
        <3> DEFINE id == req[c].id
                   r  == IF db[id] = NoTask THEN NotFound ELSE Ok(db[id])
        <3>1. id \in TaskIds
            BY <2>2, RequestTyped DEF Get, MayStart
        <3>2. r \in Reply
            BY <3>1, ReplyTyped
        <3>3. Answer(c, r) /\ Tell(id, r) /\ UNCHANGED db
            BY <2>2 DEF Get
        <3> QED
            BY <3>1, <3>2, <3>3, AnswerTyped, TellTyped
    <2>3. ASSUME NEW c \in Callers, Insert(c) PROVE TypeOK'
        <3>1. req[c].id \in TaskIds /\ req[c].to \in TaskStatus
            BY <2>3, RequestTyped DEF Insert, MayStart
        <3>2. /\ db' \in [TaskIds -> TaskStatus \cup {NoTask}]
              /\ told' \in [TaskIds -> SUBSET Terminal]
              /\ Answer(c, Inserted)
            BY <2>3, <3>1 DEF Insert
        <3> QED
            BY <3>2, ReplyTyped, AnswerTyped
    <2>4. ASSUME NEW c \in Callers, UpdateRead(c) PROVE TypeOK'
        <3>1. /\ req[c].id \in TaskIds /\ req[c].to \in TaskStatus
              /\ pc[c] = "called" /\ req[c].op = "update"
            BY <2>4, RequestTyped DEF UpdateRead, MayStart
        <3>2. CASE Answer(c, NotFound) /\ UNCHANGED <<db, told>>
            BY <3>2, ReplyTyped, AnswerTyped
        <3>3. CASE /\ db[req[c].id] # NoTask
                   /\ Answer(c, Illegal(db[req[c].id], req[c].to))
                   /\ Tell(req[c].id, Illegal(db[req[c].id], req[c].to))
                   /\ UNCHANGED db
            BY <3>1, <3>3, ReplyTyped, AnswerTyped, TellTyped
        <3>4. CASE db[req[c].id] # NoTask /\ GoOn(c, "write")
            BY <3>1, <3>4, GoOnTyped
        <3> QED
            BY <2>4, <3>2, <3>3, <3>4 DEF UpdateRead
    <2>5. ASSUME NEW c \in Callers, UpdateWrite(c) PROVE TypeOK'
        <3>1. /\ req[c].id \in TaskIds /\ req[c].to \in TaskStatus
              /\ pc[c] = "write" /\ req[c].op = "update"
            BY <2>5, RequestTyped DEF UpdateWrite
        <3>2. CASE /\ db' = [db EXCEPT ![req[c].id] = req[c].to]
                   /\ Answer(c, Ok(req[c].to))
                   /\ Tell(req[c].id, Ok(req[c].to))
            BY <3>1, <3>2, ReplyTyped, AnswerTyped, TellTyped
        <3>3. CASE /\ pc' = [pc EXCEPT ![c] = "reread"]
                   /\ UNCHANGED <<db, lock, req, seen, reply, told>>
            BY <3>1, <3>3
        <3> QED
            BY <2>5, <3>2, <3>3 DEF UpdateWrite
    <2>6. ASSUME NEW c \in Callers, UpdateReread(c) PROVE TypeOK'
        <3> DEFINE id == req[c].id
                   r  == IF db[id] = NoTask THEN NotFound ELSE Illegal(db[id], req[c].to)
        <3>1. id \in TaskIds /\ req[c].to \in TaskStatus
            BY <2>6, RequestTyped DEF UpdateReread
        <3>2. r \in Reply
            BY <3>1, ReplyTyped
        <3>3. Answer(c, r) /\ Tell(id, r) /\ UNCHANGED db
            BY <2>6 DEF UpdateReread
        <3> QED
            BY <3>1, <3>2, <3>3, AnswerTyped, TellTyped
    <2>7. ASSUME NEW c \in Callers, CancelRead(c) PROVE TypeOK'
        <3>1. req[c].id \in TaskIds /\ pc[c] = "called" /\ req[c].op = "cancel"
            BY <2>7, RequestTyped DEF CancelRead, MayStart
        <3>2. CASE Answer(c, NotFound) /\ UNCHANGED <<db, told>>
            BY <3>2, ReplyTyped, AnswerTyped
        <3>3. CASE /\ db[req[c].id] # NoTask
                   /\ Answer(c, Ok(db[req[c].id]))
                   /\ Tell(req[c].id, Ok(db[req[c].id]))
                   /\ UNCHANGED db
            BY <3>1, <3>3, ReplyTyped, AnswerTyped, TellTyped
        <3>4. CASE db[req[c].id] # NoTask /\ GoOn(c, "write")
            BY <3>1, <3>4, GoOnTyped
        <3> QED
            BY <2>7, <3>2, <3>3, <3>4 DEF CancelRead
    <2>8. ASSUME NEW c \in Callers, CancelWrite(c) PROVE TypeOK'
        <3>1. req[c].id \in TaskIds /\ "cancelled" \in TaskStatus
            BY <2>8, RequestTyped DEF CancelWrite, TaskStatus
        <3>2. /\ db' = [db EXCEPT ![req[c].id] = "cancelled"]
              /\ Answer(c, Ok("cancelled"))
              /\ Tell(req[c].id, Ok("cancelled"))
            BY <2>8 DEF CancelWrite
        <3> QED
            BY <3>1, <3>2, ReplyTyped, AnswerTyped, TellTyped
    <2>9. ASSUME NEW c \in Callers, StatementError(c) PROVE TypeOK'
        BY <2>9, ReplyTyped, AnswerTyped DEF StatementError
    <2>10. ASSUME NEW c \in Callers, Return(c) PROVE TypeOK'
        BY <2>10 DEF Return
    <2>11. ASSUME NEW i \in Instances, Crash(i) PROVE TypeOK'
        BY <2>11 DEF Crash
    <2>12. CASE UNCHANGED vars
        BY <2>12 DEF vars
    <2> QED
        BY <2>1, <2>2, <2>3, <2>4, <2>5, <2>6, <2>7, <2>8, <2>9, <2>10,
           <2>11, <2>12 DEF Next
<1> QED
    BY <1>1, <1>2, PTL DEF Spec

-----------------------------------------------------------------------------
(* Locks: a caller is between two statements exactly when it holds the     *)
(* mutex of its instance.                                                  *)

HoldsLock == \A c \in Callers : pc[c] \in {"write", "reread"} => lock[Home[c]] = c

LockInv == TypeOK /\ LockHeldInMethod /\ HoldsLock

\* A method that answers frees its mutex and no other caller held that one.
LEMMA AnswerFrees ==
    ASSUME LockInv, NEW c \in Callers, NEW r, Answer(c, r),
           \/ pc[c] = "called" /\ lock[Home[c]] = NoCaller
           \/ pc[c] \in {"write", "reread"}
    PROVE  LockHeldInMethod' /\ HoldsLock'
    BY HomeAssumption, NoCallerAssumption
    DEF LockInv, TypeOK, LockHeldInMethod, HoldsLock, Answer

\* A read that goes on takes a free mutex.
LEMMA GoOnTakes ==
    ASSUME LockInv, NEW c \in Callers, pc[c] = "called",
           lock[Home[c]] = NoCaller, GoOn(c, "write")
    PROVE  LockHeldInMethod' /\ HoldsLock'
<1>1. /\ Home[c] \in Instances
      /\ pc' = [pc EXCEPT ![c] = "write"]
      /\ lock' = [lock EXCEPT ![Home[c]] = c]
    BY HomeAssumption DEF GoOn
<1>2. \A d \in Callers : d # c => pc'[d] = pc[d]
    BY <1>1 DEF LockInv, TypeOK
<1>3. pc'[c] = "write" /\ lock'[Home[c]] = c
    BY <1>1 DEF LockInv, TypeOK
<1>4. ASSUME NEW i \in Instances, lock'[i] # NoCaller, i # Home[c]
      PROVE  Home[lock'[i]] = i /\ pc'[lock'[i]] \in {"write", "reread"}
    <2>1. lock'[i] = lock[i]
        BY <1>1, <1>4 DEF LockInv, TypeOK
    <2>2. lock[i] \in Callers /\ Home[lock[i]] = i /\ pc[lock[i]] \in {"write", "reread"}
        BY <1>4, <2>1 DEF LockInv, TypeOK, LockHeldInMethod
    <2> QED
        BY <1>2, <1>4, <2>1, <2>2
<1>5. LockHeldInMethod'
    BY <1>3, <1>4 DEF LockHeldInMethod
<1>6. ASSUME NEW d \in Callers, pc'[d] \in {"write", "reread"}
      PROVE  lock'[Home[d]] = d
    <2>1. CASE d = c
        BY <1>3, <2>1
    <2>2. CASE d # c
        <3>1. lock[Home[d]] = d
            BY <1>2, <1>6, <2>2 DEF LockInv, HoldsLock
        <3>2. Home[d] # Home[c]
            BY <3>1, NoCallerAssumption
        <3> QED
            BY <1>1, <3>1, <3>2, HomeAssumption DEF LockInv, TypeOK
    <2> QED
        BY <2>1, <2>2
<1> QED
    BY <1>5, <1>6 DEF HoldsLock

\* Every step keeps the lock invariant.
LEMMA LockStep ==
    ASSUME LockInv, [Next]_vars
    PROVE  LockHeldInMethod' /\ HoldsLock'
<1>1. ASSUME NEW c \in Callers, NEW r \in Request, Invoke(c, r)
      PROVE  LockHeldInMethod' /\ HoldsLock'
    BY <1>1 DEF LockInv, TypeOK, LockHeldInMethod, HoldsLock, Invoke
<1>2. ASSUME NEW c \in Callers,
             \/ Get(c) \/ Insert(c) \/ UpdateReread(c) \/ CancelWrite(c) \/ StatementError(c)
      PROVE  LockHeldInMethod' /\ HoldsLock'
    <2>1. PICK r : Answer(c, r)
        BY <1>2 DEF Get, Insert, UpdateReread, CancelWrite, StatementError
    <2>2. \/ pc[c] = "called" /\ lock[Home[c]] = NoCaller
          \/ pc[c] \in {"write", "reread"}
        BY <1>2 DEF Get, Insert, UpdateReread, CancelWrite, StatementError, MayStart
    <2> QED
        BY <2>1, <2>2, AnswerFrees
<1>3. ASSUME NEW c \in Callers, UpdateRead(c) \/ CancelRead(c)
      PROVE  LockHeldInMethod' /\ HoldsLock'
    <2>1. pc[c] = "called" /\ lock[Home[c]] = NoCaller
        BY <1>3 DEF UpdateRead, CancelRead, MayStart
    <2>2. (\E r : Answer(c, r)) \/ GoOn(c, "write")
        BY <1>3 DEF UpdateRead, CancelRead
    <2> QED
        BY <2>1, <2>2, AnswerFrees, GoOnTakes
<1>4. ASSUME NEW c \in Callers, UpdateWrite(c)
      PROVE  LockHeldInMethod' /\ HoldsLock'
    <2>1. pc[c] = "write"
        BY <1>4 DEF UpdateWrite
    <2>2. CASE Answer(c, Ok(req[c].to))
        BY <2>1, <2>2, AnswerFrees
    <2>3. CASE pc' = [pc EXCEPT ![c] = "reread"] /\ UNCHANGED lock
        BY <2>1, <2>3 DEF LockInv, TypeOK, LockHeldInMethod, HoldsLock
    <2> QED
        BY <1>4, <2>2, <2>3 DEF UpdateWrite
<1>5. ASSUME NEW c \in Callers, Return(c)
      PROVE  LockHeldInMethod' /\ HoldsLock'
    BY <1>5 DEF LockInv, TypeOK, LockHeldInMethod, HoldsLock, Return
<1>6. ASSUME NEW i \in Instances, Crash(i)
      PROVE  LockHeldInMethod' /\ HoldsLock'
    BY <1>6, HomeAssumption, NoCallerAssumption
    DEF LockInv, TypeOK, LockHeldInMethod, HoldsLock, Crash
<1>7. CASE UNCHANGED vars
    BY <1>7 DEF LockInv, LockHeldInMethod, HoldsLock, vars
<1> QED
    BY <1>1, <1>2, <1>3, <1>4, <1>5, <1>6, <1>7 DEF Next

\* No early return, failed statement or crash leaves a store locked.
THEOREM LockFreedOnReturn == Spec => []LockHeldInMethod
<1>1. Init => LockHeldInMethod /\ HoldsLock
    BY HomeAssumption DEF Init, LockHeldInMethod, HoldsLock
<1>2. TypeOK /\ LockHeldInMethod /\ HoldsLock /\ [Next]_vars
        => (LockHeldInMethod /\ HoldsLock)'
    BY LockStep DEF LockInv
<1> QED
    BY <1>1, <1>2, TypeCorrect, PTL DEF Spec

\* The lock invariant as a whole holds.
THEOREM LockCorrect == Spec => []LockInv
<1>1. Init => LockHeldInMethod /\ HoldsLock
    BY HomeAssumption DEF Init, LockHeldInMethod, HoldsLock
<1>2. TypeOK /\ LockHeldInMethod /\ HoldsLock /\ [Next]_vars
        => (LockHeldInMethod /\ HoldsLock)'
    BY LockStep DEF LockInv
<1>3. LockInv <=> TypeOK /\ LockHeldInMethod /\ HoldsLock
    BY DEF LockInv
<1> QED
    BY <1>1, <1>2, <1>3, TypeCorrect, PTL DEF Spec

-----------------------------------------------------------------------------
(* What a method knows between its statements.                             *)

\* A second statement is only reached for a status the first one let through.
Checked ==
    \A c \in Callers : pc[c] = "write" =>
        /\ req[c].op = "update" => CanTransitionTo(seen[c], req[c].to)
        /\ req[c].op = "cancel" => Cancel(seen[c]) # seen[c]

\* A row that a method has found is there for as long as the method runs.
RowThere == \A c \in Callers : pc[c] \in {"write", "reread"} => db[req[c].id] # NoTask

MethodInv == TypeOK /\ Checked /\ RowThere

\* A caller is between two statements because it was, or because it has just
\* read.
LEMMA WhoGoesOn ==
    ASSUME TypeOK, [Next]_vars, NEW d \in Callers, pc'[d] \in {"write", "reread"}
    PROVE  \/ /\ pc[d] \in {"write", "reread"}
              /\ pc'[d] = "write" => pc[d] = "write"
              /\ req'[d] = req[d] /\ seen'[d] = seen[d]
           \/ UpdateRead(d) \/ CancelRead(d)
<1> DEFINE Goal ==
        \/ /\ pc[d] \in {"write", "reread"}
           /\ pc'[d] = "write" => pc[d] = "write"
           /\ req'[d] = req[d] /\ seen'[d] = seen[d]
        \/ UpdateRead(d) \/ CancelRead(d)
<1>1. ASSUME NEW c \in Callers, NEW r \in Request, Invoke(c, r) PROVE Goal
    BY <1>1 DEF TypeOK, Invoke
<1>2. ASSUME NEW c \in Callers, NEW r, Answer(c, r) PROVE Goal
    BY <1>2 DEF TypeOK, Answer
<1>3. ASSUME NEW c \in Callers, UpdateRead(c) \/ CancelRead(c) PROVE Goal
    <2>1. CASE \E r : Answer(c, r)
        BY <2>1, <1>2
    <2>2. CASE GoOn(c, "write")
        BY <1>3, <2>2 DEF TypeOK, GoOn
    <2> QED
        BY <1>3, <2>1, <2>2 DEF UpdateRead, CancelRead
<1>4. ASSUME NEW c \in Callers, UpdateWrite(c) PROVE Goal
    <2>1. CASE Answer(c, Ok(req[c].to))
        BY <2>1, <1>2
    <2>2. CASE /\ pc[c] = "write" /\ pc' = [pc EXCEPT ![c] = "reread"]
               /\ UNCHANGED <<req, seen>>
        BY <2>2 DEF TypeOK
    <2> QED
        BY <1>4, <2>1, <2>2 DEF UpdateWrite
<1>5. ASSUME NEW c \in Callers,
             \/ Get(c) \/ Insert(c) \/ UpdateReread(c) \/ CancelWrite(c) \/ StatementError(c)
      PROVE  Goal
    BY <1>5, <1>2 DEF Get, Insert, UpdateReread, CancelWrite, StatementError
<1>6. ASSUME NEW c \in Callers, Return(c) PROVE Goal
    BY <1>6 DEF TypeOK, Return
<1>7. ASSUME NEW i \in Instances, Crash(i) PROVE Goal
    BY <1>7 DEF TypeOK, Crash
<1>8. CASE UNCHANGED vars
    BY <1>8 DEF vars
<1> QED
    BY <1>1, <1>3, <1>4, <1>5, <1>6, <1>7, <1>8 DEF Next

\* Who changes the table.
LEMMA WhoStores ==
    ASSUME [Next]_vars
    PROVE  \/ \E c \in Callers : Insert(c) \/ UpdateWrite(c) \/ CancelWrite(c)
           \/ UNCHANGED db
    BY DEF Next, vars, Invoke, Get, UpdateRead, GoOn, UpdateReread,
           CancelRead, StatementError, Return, Crash

LEMMA MethodStep ==
    ASSUME TypeOK, TypeOK', Checked, RowThere, [Next]_vars
    PROVE  Checked' /\ RowThere'
<1>1. ASSUME NEW id \in TaskIds, db[id] # NoTask PROVE db'[id] # NoTask
    <2>1. ASSUME NEW c \in Callers, Insert(c) \/ UpdateWrite(c) \/ CancelWrite(c)
          PROVE  db'[id] # NoTask
        <3>1. req[c].id \in TaskIds /\ req[c].op \in {"insert", "update"} => req[c].to # NoTask
            BY <2>1, RequestTyped
            DEF TypeOK, Insert, MayStart, UpdateWrite, CancelWrite, TaskStatus, NoTask
        <3> QED
            BY <1>1, <2>1, <3>1 DEF TypeOK, Insert, MayStart, UpdateWrite, CancelWrite, NoTask
    <2> QED
        BY <1>1, <2>1, WhoStores
<1>2. ASSUME NEW d \in Callers, pc'[d] \in {"write", "reread"}
      PROVE  /\ req'[d] = req[d] /\ db[req[d].id] # NoTask /\ req[d].id \in TaskIds
             /\ pc'[d] = "write" =>
                    /\ req[d].op = "update" => CanTransitionTo(seen'[d], req[d].to)
                    /\ req[d].op = "cancel" => Cancel(seen'[d]) # seen'[d]
    <2>1. CASE /\ pc[d] \in {"write", "reread"}
               /\ pc'[d] = "write" => pc[d] = "write"
               /\ req'[d] = req[d] /\ seen'[d] = seen[d]
        BY <2>1, RequestTyped DEF Checked, RowThere, TypeOK
    <2>2. CASE UpdateRead(d) \/ CancelRead(d)
        BY <1>2, <2>2, RequestTyped DEF TypeOK, UpdateRead, CancelRead, MayStart, GoOn, Answer
    <2> QED
        BY <1>2, <2>1, <2>2, WhoGoesOn
<1> QED
    BY <1>1, <1>2 DEF Checked, RowThere

\* What a method knows of its task is so, whatever other servers do meanwhile.
LEMMA MethodCorrect == Spec => []MethodInv
<1>1. Init => Checked /\ RowThere
    BY DEF Init, Checked, RowThere
<1>2. TypeOK /\ TypeOK' /\ Checked /\ RowThere /\ [Next]_vars => (Checked /\ RowThere)'
    BY MethodStep
<1>3. MethodInv <=> TypeOK /\ Checked /\ RowThere
    BY DEF MethodInv
<1> QED
    BY <1>1, <1>2, <1>3, TypeCorrect, PTL DEF Spec

-----------------------------------------------------------------------------
(* All callers on one instance.                                            *)

\* All callers share one Mutex<Connection>.
Shared == \A c \in Callers, d \in Callers : Home[c] = Home[d]

\* What a caller between two statements has read is what the row still holds,
\* and the second SELECT of update is never reached.
Fresh ==
    \A c \in Callers :
        /\ pc[c] # "reread"
        /\ pc[c] = "write" => db[req[c].id] = seen[c]

\* Caller c runs a statement in this state.
Acts(c) ==
    \/ pc[c] = "called" /\ lock[Home[c]] = NoCaller
    \/ pc[c] \in {"write", "reread"}

\* While one caller runs a statement no other is between two.
LEMMA Alone ==
    ASSUME Shared, LockInv, NEW c \in Callers, Acts(c)
    PROVE  \A d \in Callers : d # c => pc[d] \notin {"write", "reread"}
    BY NoCallerAssumption DEF Shared, LockInv, HoldsLock, Acts

LEMMA FreshStep ==
    ASSUME Shared, LockInv, Fresh, [Next]_vars
    PROVE  Fresh'
<1> SUFFICES ASSUME NEW d \in Callers, pc'[d] \in {"write", "reread"}
             PROVE  pc'[d] = "write" /\ db'[req'[d].id] = seen'[d]
    BY DEF Fresh
<1>t. TypeOK
    BY DEF LockInv
<1>1. CASE UpdateRead(d) \/ CancelRead(d)
    BY <1>t, <1>1 DEF TypeOK, UpdateRead, CancelRead, GoOn, Answer
<1>2. CASE /\ pc[d] \in {"write", "reread"} /\ req'[d] = req[d] /\ seen'[d] = seen[d]
    <2>1. pc[d] = "write" /\ db[req[d].id] = seen[d]
        BY <1>2 DEF Fresh
    <2>2. ASSUME NEW c \in Callers, Insert(c) \/ UpdateWrite(c) \/ CancelWrite(c)
          PROVE  FALSE
        <3>1. c = d
            BY <1>2, <2>2, Alone DEF Insert, UpdateWrite, CancelWrite, MayStart, Acts
        <3> QED
            BY <1>t, <2>1, <2>2, <3>1
            DEF TypeOK, Insert, UpdateWrite, CancelWrite, MayStart, Answer
    <2>3. UNCHANGED db
        BY <2>2, WhoStores
    <2>4. pc'[d] # "reread"
        BY <1>t, <2>1, <2>2
        DEF TypeOK, Next, vars, Invoke, Get, UpdateRead, UpdateReread, CancelRead,
            StatementError, Return, Crash, GoOn, Answer
    <2> QED
        BY <1>2, <2>1, <2>3, <2>4
<1> QED
    BY <1>t, <1>1, <1>2, WhoGoesOn

\* With one instance nothing comes between the statements of a method.
LEMMA FreshCorrect ==
    ASSUME Shared
    PROVE  Spec => []Fresh
<1>1. Init => Fresh
    BY DEF Init, Fresh
<1>2. LockInv /\ Fresh /\ [Next]_vars => Fresh'
    BY FreshStep
<1> QED
    BY <1>1, <1>2, LockCorrect, PTL DEF Spec

-----------------------------------------------------------------------------
(* SqliteStore implements TaskStore.                                       *)

\* TaskStore's replies, requests and lifecycle are these.
LEMMA SameInterface ==
    \A shared :
        /\ Store(shared)!NotFound = NotFound /\ Store(shared)!SqliteError = SqliteError
        /\ Store(shared)!Inserted = Inserted /\ Store(shared)!NoTask = NoTask
        /\ Store(shared)!NoRequest = NoRequest /\ Store(shared)!NoReply = NoReply
        /\ Store(shared)!Request = Request
        /\ \A s : Store(shared)!Ok(s) = Ok(s) /\ Store(shared)!Cancel(s) = Cancel(s)
        /\ \A s, t : /\ Store(shared)!Illegal(s, t) = Illegal(s, t)
                     /\ Store(shared)!CanTransitionTo(s, t) = CanTransitionTo(s, t)
        /\ \A r : Store(shared)!Told(r) = Told(r)
    BY DEF Store!NotFound, NotFound, Store!SqliteError, SqliteError,
           Store!Inserted, Inserted, Store!NoTask, NoTask,
           Store!NoRequest, NoRequest, Store!NoReply, NoReply,
           Store!Request, Request, Store!Ok, Ok, Store!Cancel, Cancel,
           Store!Illegal, Illegal, Store!CanTransitionTo, CanTransitionTo,
           Store!Told, Told, Store!Terminal, Terminal,
           Store!IsTerminal, IsTerminal, Store!TaskStatus, TaskStatus

\* What the replies of the methods tell.
LEMMA ToldByReply ==
    /\ \A s : Told(Ok(s)) \subseteq {s}
    /\ \A s, t : Told(Illegal(s, t)) \subseteq {s}
    /\ Told(NotFound) = {}
    BY DEF Told, Ok, Illegal, NotFound, Terminal

\* A caller that answers was in a call and its operation finishes.
LEMMA AnswerFinishes ==
    ASSUME NEW shared, TypeOK, NEW c \in Callers, NEW r, Acts(c), Answer(c, r)
    PROVE  Phase[c] = "called" /\ Store(shared)!Finish(c, r)
    BY SameInterface DEF TypeOK, Acts, Answer, Phase, Store!Finish

\* A read that goes on to a second statement is not seen from outside.
LEMMA GoOnStutters ==
    ASSUME NEW shared, TypeOK, NEW c \in Callers, pc[c] = "called", GoOn(c, "write")
    PROVE  UNCHANGED Store(shared)!vars
    BY DEF TypeOK, GoOn, Phase, Store!vars

\* Telling is the same.
LEMMA TellTells ==
    ASSUME NEW shared, NEW id, NEW r, Tell(id, r)
    PROVE  Store(shared)!Tell(id, r)
    BY SameInterface DEF Tell, Store!Tell

\* Every step is a step of TaskStore or leaves its variables alone: always of
\* the store on a shared file, and of the other one when nothing comes between
\* the statements of a method.
LEMMA StepImplements ==
    ASSUME NEW shared \in BOOLEAN, MethodInv, shared \/ Fresh, [Next]_vars
    PROVE  [Store(shared)!Next]_(Store(shared)!vars)
<1> DEFINE Goal == [Store(shared)!Next]_(Store(shared)!vars)
<1>t. TypeOK
    BY DEF MethodInv
<1>p. ASSUME NEW c \in Callers, Phase[c] = "called",
             \/ req[c].op = "get" /\ Store(shared)!PerformGet(c, req[c].id)
             \/ req[c].op = "insert" /\ Store(shared)!PerformInsert(c, req[c].id)
             \/ req[c].op = "update" /\ Store(shared)!PerformUpdate(c, req[c].id)
             \/ req[c].op = "cancel" /\ Store(shared)!PerformCancel(c, req[c].id)
      PROVE  Goal
    BY <1>p DEF Store!Next, Store!Perform
<1>1. ASSUME NEW c \in Callers, NEW r \in Request, Invoke(c, r) PROVE Goal
    <2>1. Store(shared)!Invoke(c, r)
        BY <1>1, <1>t DEF Invoke, TypeOK, Phase, Store!Invoke
    <2> QED
        BY <2>1, SameInterface DEF Store!Next
<1>2. ASSUME NEW c \in Callers, Get(c) PROVE Goal
    <2>1. Acts(c) /\ req[c].op = "get"
        BY <1>2 DEF Get, MayStart, Acts
    <2>2. Store(shared)!PerformGet(c, req[c].id) /\ Phase[c] = "called"
        BY <1>2, <1>t, <2>1, AnswerFinishes, TellTells, SameInterface
        DEF Get, Store!PerformGet
    <2> QED
        BY <2>1, <2>2, <1>p
<1>3. ASSUME NEW c \in Callers, Insert(c) PROVE Goal
    <2>1. Acts(c) /\ req[c].op = "insert"
        BY <1>3 DEF Insert, MayStart, Acts
    <2>2. Store(shared)!PerformInsert(c, req[c].id) /\ Phase[c] = "called"
        BY <1>3, <1>t, <2>1, AnswerFinishes, SameInterface
        DEF Insert, Store!PerformInsert
    <2> QED
        BY <2>1, <2>2, <1>p
<1>4. ASSUME NEW c \in Callers, UpdateRead(c) PROVE Goal
    <2>1. Acts(c) /\ req[c].op = "update" /\ pc[c] = "called"
        BY <1>4 DEF UpdateRead, MayStart, Acts
    <2>2. CASE db[req[c].id] = NoTask /\ Answer(c, NotFound) /\ UNCHANGED <<db, told>>
        <3>1. ~CanTransitionTo(db[req[c].id], req[c].to) /\ Told(NotFound) = {}
            BY <2>2, ToldByReply DEF CanTransitionTo, NoTask
        <3>2. Store(shared)!Tell(req[c].id, NotFound)
            BY <1>t, <2>1, <2>2, <3>1, RequestTyped, SameInterface DEF Store!Tell, TypeOK
        <3>3. Store(shared)!PerformUpdate(c, req[c].id) /\ Phase[c] = "called"
            BY <1>t, <2>1, <2>2, <3>1, <3>2, AnswerFinishes, SameInterface
            DEF Store!PerformUpdate
        <3> QED
            BY <2>1, <3>3, <1>p
    <2>3. CASE /\ db[req[c].id] # NoTask
               /\ ~CanTransitionTo(db[req[c].id], req[c].to)
               /\ Answer(c, Illegal(db[req[c].id], req[c].to))
               /\ Tell(req[c].id, Illegal(db[req[c].id], req[c].to))
               /\ UNCHANGED db
        <3>1. Store(shared)!PerformUpdate(c, req[c].id) /\ Phase[c] = "called"
            BY <1>t, <2>1, <2>3, AnswerFinishes, TellTells, SameInterface
            DEF Store!PerformUpdate
        <3> QED
            BY <2>1, <3>1, <1>p
    <2>4. CASE GoOn(c, "write")
        BY <1>t, <2>1, <2>4, GoOnStutters
    <2> QED
        BY <1>4, <2>2, <2>3, <2>4 DEF UpdateRead
<1>5. ASSUME NEW c \in Callers, UpdateWrite(c) PROVE Goal
    <2>1. Acts(c) /\ req[c].op = "update" /\ CanTransitionTo(seen[c], req[c].to)
        BY <1>5 DEF UpdateWrite, Acts, MethodInv, Checked
    <2>2. CASE db[req[c].id] = seen[c]
        <3>1. Store(shared)!PerformUpdate(c, req[c].id) /\ Phase[c] = "called"
            BY <1>5, <1>t, <2>1, <2>2, AnswerFinishes, TellTells, SameInterface
            DEF UpdateWrite, Store!PerformUpdate
        <3> QED
            BY <2>1, <3>1, <1>p
    <2>3. CASE db[req[c].id] # seen[c]
        BY <1>5, <1>t, <2>3 DEF UpdateWrite, TypeOK, Phase, Store!vars
    <2> QED
        BY <2>2, <2>3
<1>6. ASSUME NEW c \in Callers, UpdateReread(c) PROVE Goal
    <2>1. /\ Acts(c) /\ req[c].op = "update" /\ db[req[c].id] # NoTask
          /\ shared
        BY <1>6, <1>t DEF UpdateReread, Acts, TypeOK, MethodInv, RowThere, Fresh
    <2>2. /\ Answer(c, Illegal(db[req[c].id], req[c].to))
          /\ Tell(req[c].id, Illegal(db[req[c].id], req[c].to))
          /\ UNCHANGED db
        BY <1>6, <2>1 DEF UpdateReread
    <2>3. Store(shared)!PerformUpdate(c, req[c].id) /\ Phase[c] = "called"
        BY <1>t, <2>1, <2>2, AnswerFinishes, TellTells, SameInterface DEF Store!PerformUpdate
    <2> QED
        BY <2>1, <2>3, <1>p
<1>7. ASSUME NEW c \in Callers, CancelRead(c) PROVE Goal
    <2>1. /\ Acts(c) /\ req[c].op = "cancel" /\ pc[c] = "called"
          /\ req[c].id \in TaskIds
        BY <1>7, <1>t, RequestTyped DEF CancelRead, MayStart, Acts, TypeOK
    <2>2. CASE db[req[c].id] = NoTask /\ Answer(c, NotFound) /\ UNCHANGED <<db, told>>
        <3>1. Store(shared)!Tell(req[c].id, NotFound)
            BY <1>t, <2>1, <2>2, ToldByReply, SameInterface DEF Store!Tell, TypeOK
        <3>2. Store(shared)!PerformCancel(c, req[c].id) /\ Phase[c] = "called"
            BY <1>t, <2>1, <2>2, <3>1, AnswerFinishes, SameInterface
            DEF Store!PerformCancel
        <3> QED
            BY <2>1, <3>2, <1>p
    <2>3. CASE /\ db[req[c].id] # NoTask
               /\ Cancel(db[req[c].id]) = db[req[c].id]
               /\ Answer(c, Ok(db[req[c].id]))
               /\ Tell(req[c].id, Ok(db[req[c].id]))
               /\ UNCHANGED db
        <3>1. db' = [db EXCEPT ![req[c].id] = Cancel(db[req[c].id])]
            BY <1>t, <2>1, <2>3 DEF TypeOK
        <3>2. Store(shared)!PerformCancel(c, req[c].id) /\ Phase[c] = "called"
            BY <1>t, <2>1, <2>3, <3>1, AnswerFinishes, TellTells, SameInterface
            DEF Store!PerformCancel
        <3> QED
            BY <2>1, <3>2, <1>p
    <2>4. CASE GoOn(c, "write")
        BY <1>t, <2>1, <2>4, GoOnStutters
    <2> QED
        BY <1>7, <2>2, <2>3, <2>4 DEF CancelRead
<1>8. ASSUME NEW c \in Callers, CancelWrite(c) PROVE Goal
    <2>1. Acts(c) /\ req[c].op = "cancel" /\ db[req[c].id] # NoTask
        BY <1>8 DEF CancelWrite, Acts, MethodInv, RowThere
    <2>2. shared \/ Cancel(db[req[c].id]) = "cancelled"
        BY <1>8 DEF CancelWrite, Fresh, MethodInv, Checked, Cancel
    <2>3. Store(shared)!PerformCancel(c, req[c].id) /\ Phase[c] = "called"
        BY <1>8, <1>t, <2>1, <2>2, AnswerFinishes, TellTells, SameInterface
        DEF CancelWrite, Store!PerformCancel
    <2> QED
        BY <2>1, <2>3, <1>p
<1>9. ASSUME NEW c \in Callers, StatementError(c) PROVE Goal
    <2>1. Store(shared)!Fail(c)
        BY <1>9, <1>t, AnswerFinishes, SameInterface DEF StatementError, Acts, Store!Fail
    <2> QED
        BY <2>1 DEF Store!Next
<1>10. ASSUME NEW c \in Callers, Return(c) PROVE Goal
    <2>1. Store(shared)!Return(c)
        BY <1>10, <1>t, SameInterface DEF Return, TypeOK, Phase, Store!Return
    <2> QED
        BY <2>1 DEF Store!Next
<1>11. ASSUME NEW i \in Instances, Crash(i) PROVE Goal
    <2> DEFINE S == {c \in Callers : Home[c] = i}
    <2>1. Store(shared)!Abandon(S)
        BY <1>11, <1>t, SameInterface DEF Crash, TypeOK, Phase, Store!Abandon
    <2> QED
        BY <2>1 DEF Store!Next
<1>12. CASE UNCHANGED vars
    BY <1>12 DEF vars, Phase, Store!vars
<1> QED
    BY <1>1, <1>2, <1>3, <1>4, <1>5, <1>6, <1>7, <1>8, <1>9, <1>10, <1>11,
       <1>12 DEF Next

\* However many servers share the database, every method takes effect at one
\* instant between its call and its return; it can only hit a task that another
\* server has ended, or be refused because of another's write.
THEOREM ImplementsWhenShared == Spec => ImplementsSharedStore
<1>1. Init => Store(TRUE)!Init
    BY SameInterface DEF Init, Store!Init, Phase
<1>2. MethodInv /\ [Next]_vars => [Store(TRUE)!Next]_(Store(TRUE)!vars)
    BY StepImplements
<1> QED
    BY <1>1, <1>2, MethodCorrect, PTL DEF Spec, ImplementsSharedStore

\* With one instance, every method of SqliteStore takes effect at one instant
\* between its call and its return, and nothing else happens to it.
THEOREM Implements ==
    ASSUME Shared
    PROVE  Spec => ImplementsTaskStore
<1>1. Init => Store(FALSE)!Init
    BY SameInterface DEF Init, Store!Init, Phase
<1>2. MethodInv /\ Fresh /\ [Next]_vars => [Store(FALSE)!Next]_(Store(FALSE)!vars)
    BY StepImplements
<1> QED
    BY <1>1, <1>2, MethodCorrect, FreshCorrect, PTL DEF Spec, ImplementsTaskStore
-----------------------------------------------------------------------------
(* What TaskStore promises, SqliteStore keeps: the theorems about TaskStore    *)
(* hold of the rows and of what callers are told.                              *)

Many == INSTANCE TaskStore_proofs WITH tasks <- db, phase <- Phase, SharedFile <- TRUE
One == INSTANCE TaskStore_proofs WITH tasks <- db, phase <- Phase, SharedFile <- FALSE

\* These are the stores SqliteStore implements.
LEMMA ManyIsStore ==
    /\ Store(TRUE)!Init <=> Many!Init
    /\ [Store(TRUE)!Next]_(Store(TRUE)!vars) <=> [Many!Next]_(Many!vars)
    BY DEF Store!Init, Many!Init, Store!Next, Many!Next, Store!vars,
           Many!vars, Store!Invoke, Many!Invoke, Store!Perform,
           Many!Perform, Store!PerformGet, Many!PerformGet,
           Store!PerformInsert, Many!PerformInsert, Store!PerformUpdate,
           Many!PerformUpdate, Store!PerformCancel, Many!PerformCancel,
           Store!Fail, Many!Fail, Store!Return, Many!Return, Store!Abandon,
           Many!Abandon, Store!Finish, Many!Finish, Store!Tell, Many!Tell,
           Store!Told, Many!Told, Store!Ok, Many!Ok, Store!Illegal,
           Many!Illegal, Store!NotFound, Many!NotFound, Store!Inserted,
           Many!Inserted, Store!SqliteError, Many!SqliteError, Store!NoTask,
           Many!NoTask, Store!NoReply, Many!NoReply, Store!NoRequest,
           Many!NoRequest, Store!Request, Many!Request, Store!TaskStatus,
           Many!TaskStatus, Store!Terminal, Many!Terminal,
           Store!CanTransitionTo, Many!CanTransitionTo, Store!Cancel,
           Many!Cancel, Store!IsTerminal, Many!IsTerminal

LEMMA OneIsStore ==
    /\ Store(FALSE)!Init <=> One!Init
    /\ [Store(FALSE)!Next]_(Store(FALSE)!vars) <=> [One!Next]_(One!vars)
    BY DEF Store!Init, One!Init, Store!Next, One!Next, Store!vars, One!vars,
           Store!Invoke, One!Invoke, Store!Perform, One!Perform,
           Store!PerformGet, One!PerformGet, Store!PerformInsert,
           One!PerformInsert, Store!PerformUpdate, One!PerformUpdate,
           Store!PerformCancel, One!PerformCancel, Store!Fail, One!Fail,
           Store!Return, One!Return, Store!Abandon, One!Abandon,
           Store!Finish, One!Finish, Store!Tell, One!Tell, Store!Told,
           One!Told, Store!Ok, One!Ok, Store!Illegal, One!Illegal,
           Store!NotFound, One!NotFound, Store!Inserted, One!Inserted,
           Store!SqliteError, One!SqliteError, Store!NoTask, One!NoTask,
           Store!NoReply, One!NoReply, Store!NoRequest, One!NoRequest,
           Store!Request, One!Request, Store!TaskStatus, One!TaskStatus,
           Store!Terminal, One!Terminal, Store!CanTransitionTo,
           One!CanTransitionTo, Store!Cancel, One!Cancel, Store!IsTerminal,
           One!IsTerminal

LEMMA ManyCorrect == Spec => Many!Spec
    BY ImplementsWhenShared, ManyIsStore, PTL DEF ImplementsSharedStore, Many!Spec

LEMMA OneCorrect ==
    ASSUME Shared
    PROVE  Spec => One!Spec
    BY Implements, OneIsStore, PTL DEF ImplementsTaskStore, One!Spec

\* A task that a caller was told is cancelled stays cancelled, whatever other
\* servers do: the guarded UPDATE never overwrites it.
THEOREM CancelAcksPersist == Spec => []CancelAckPersists
<1>1. Many!CancelAckPersists <=> CancelAckPersists
    BY DEF Many!CancelAckPersists, CancelAckPersists
<1> QED
    BY <1>1, ManyCorrect, Many!CancelAcksPersist, PTL

\* No two callers are told that the same task completed and that it failed.
THEOREM OutcomesAgree == Spec => []NoContradictoryOutcome
<1>1. Many!NoContradictoryOutcome <=> NoContradictoryOutcome
    BY DEF Many!NoContradictoryOutcome, NoContradictoryOutcome
<1> QED
    BY <1>1, ManyCorrect, Many!OutcomesAgree, PTL

\* A row moves along the lifecycle but for the writes of cancel and insert,
\* even when update wrote what it had checked long before.
THEOREM UpdatesLegal == Spec => UpdatesFollowLifecycle
<1> DEFINE Legal == \A id \in TaskIds :
               \/ db'[id] = db[id]
               \/ CanTransitionTo(db[id], db'[id])
               \/ db'[id] = "cancelled"
               \/ \E c \in Callers : Replaces(c, id)
           ManyLegal == \A id \in TaskIds :
               \/ db'[id] = db[id]
               \/ Many!CanTransitionTo(db[id], db'[id])
               \/ db'[id] = "cancelled"
               \/ \E c \in Callers : Many!Replaces(c, id)
<1>1. [ManyLegal]_(Many!vars) => [Legal]_vars
    BY DEF Many!vars, vars, Many!Replaces, Replaces, Many!CanTransitionTo, CanTransitionTo,
           Many!Inserted, Inserted, Many!Ok, Ok
<1>2. Many!UpdatesFollowLifecycle => UpdatesFollowLifecycle
    BY <1>1, PTL DEF Many!UpdatesFollowLifecycle, UpdatesFollowLifecycle
<1> QED
    BY <1>2, ManyCorrect, Many!UpdatesLegal, PTL

\* The terminal status a caller has been told is the one the store holds.
THEOREM ReportsAlwaysAgree ==
    ASSUME Shared
    PROVE  Spec => []ReportsAgree
<1>1. ~FALSE
    OBVIOUS
<1>2. One!ReportsAgree <=> ReportsAgree
    BY DEF One!ReportsAgree, ReportsAgree
<1> QED
    BY <1>1, <1>2, OneCorrect, One!ReportsAlwaysAgree, PTL

\* A caller told its transition is illegal asked for an illegal one.
THEOREM IllegalMeansIllegal ==
    ASSUME Shared
    PROVE  Spec => []IllegalRepliesAreIllegal
<1>1. ~FALSE
    OBVIOUS
<1>2. One!IllegalRepliesAreIllegal <=> IllegalRepliesAreIllegal
    BY DEF One!IllegalRepliesAreIllegal, IllegalRepliesAreIllegal,
           One!CanTransitionTo, CanTransitionTo
<1> QED
    BY <1>1, <1>2, OneCorrect, One!IllegalMeansIllegal, PTL

\* A finished task changes only when another is inserted under its id.
THEOREM TerminalStaysPut ==
    ASSUME Shared
    PROVE  Spec => TerminalAbsorbing
<1> DEFINE Kept == \A id \in TaskIds : IsTerminal(db[id]) =>
               db'[id] = db[id] \/ \E c \in Callers : Replaces(c, id)
           OneKept == \A id \in TaskIds : One!IsTerminal(db[id]) =>
               db'[id] = db[id] \/ \E c \in Callers : One!Replaces(c, id)
<1>1. ~FALSE
    OBVIOUS
<1>2. [OneKept]_(One!vars) => [Kept]_vars
    BY DEF One!vars, vars, One!Replaces, Replaces, One!IsTerminal, IsTerminal,
           One!Terminal, Terminal, One!Inserted, Inserted, One!Ok, Ok
<1>3. One!TerminalAbsorbing => TerminalAbsorbing
    BY <1>2, PTL DEF One!TerminalAbsorbing, TerminalAbsorbing
<1> QED
    BY <1>1, <1>3, OneCorrect, One!TerminalStaysPut, PTL
=============================================================================
