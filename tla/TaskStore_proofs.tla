-------------------------- MODULE TaskStore_proofs --------------------------
(***************************************************************************)
(* What the callers of any TaskStore can rely on, for any task ids and any *)
(* callers: theorems about MemoryStore as it stands, and about whatever    *)
(* else is shown to implement TaskStore.                                   *)
(***************************************************************************)
EXTENDS TaskStore, TLAPS

-----------------------------------------------------------------------------
(* The lifecycle.                                                          *)

\* A legal transition leaves no terminal status.
LEMMA TerminalHasNoSuccessor ==
    \A s, t : CanTransitionTo(s, t) => ~IsTerminal(s) /\ s # t /\ t \in TaskStatus
    BY DEF CanTransitionTo, IsTerminal, Terminal, TaskStatus

\* Task::cancel, which does not ask can_transition_to, never does what that
\* would forbid, and reaches the cancelled status from every live one.
LEMMA CancelFollowsLifecycle ==
    \A s \in TaskStatus :
        /\ Cancel(s) = s \/ CanTransitionTo(s, Cancel(s))
        /\ IsTerminal(Cancel(s))
        /\ Cancel(s) = "cancelled" \/ (Cancel(s) = s /\ IsTerminal(s))
        /\ Cancel(Cancel(s)) = Cancel(s)
    BY DEF TaskStatus, Cancel, CanTransitionTo, IsTerminal, Terminal

-----------------------------------------------------------------------------
(* The interface.                                                          *)

\* The replies the methods build are replies.
LEMMA ReplyTyped ==
    /\ NotFound \in Reply /\ SqliteError \in Reply /\ Inserted \in Reply
    /\ \A s \in TaskStatus : Ok(s) \in Reply
    /\ \A s \in TaskStatus, t \in TaskStatus : Illegal(s, t) \in Reply
    BY DEF Reply, NotFound, SqliteError, Inserted, Ok, Illegal

\* A request has an id of a task; an insert or an update asks for a status.
LEMMA RequestTyped ==
    \A r \in Request :
        /\ r.id \in TaskIds
        /\ r.op \in {"insert", "update"} => r.to \in TaskStatus
    BY DEF Request, TaskStatus

\* What the replies of the methods tell.
LEMMA ToldByReply ==
    /\ \A s : Told(Ok(s)) \subseteq {s}
    /\ \A s, t : Told(Illegal(s, t)) \subseteq {s}
    /\ Told(NotFound) = {}
    BY DEF Told, Ok, Illegal, NotFound, Terminal

\* The kinds of the replies.
LEMMA KindOfReply ==
    /\ \A s : Ok(s).kind = "ok"
    /\ \A s, t : /\ Illegal(s, t).kind = "illegal"
                 /\ Illegal(s, t).status = s
                 /\ Illegal(s, t).to = t
    /\ NotFound.kind = "notFound" /\ SqliteError.kind = "sqlite"
    /\ Inserted.kind = "ok" /\ NoReply.kind = "none"
    BY DEF Ok, Illegal, NotFound, SqliteError, Inserted, NoReply

-----------------------------------------------------------------------------
(* What one performed operation does, told in one way for all of them.     *)

\* The task of id becomes status, or stays as it is, and the caller is given r.
Effect(c, id, status, r) ==
    /\ id \in TaskIds /\ req[c].id = id /\ phase[c] = "called"
    /\ tasks' = [tasks EXCEPT ![id] = status]
    /\ Finish(c, r)
    /\ r \in Reply
    /\ r.kind = "illegal" => /\ status = tasks[id] /\ r.status = status
                             /\ CanTransitionTo(status, r.to) => SharedFile

\* A task of its own is stored: nothing that was told binds.
Stores(c, id, status, r) ==
    /\ Effect(c, id, status, r)
    /\ req[c].op = "insert" /\ r = Inserted /\ status \in TaskStatus
    /\ told' = [told EXCEPT ![id] = {}]

\* The stored task moves as it may, and the caller is told its new status.
Moves(c, id, status, r) ==
    /\ Effect(c, id, status, r)
    /\ \/ status = tasks[id]
       \/ CanTransitionTo(tasks[id], status)
       \/ status = "cancelled" /\ SharedFile
    /\ Tell(id, r) /\ Told(r) \subseteq {status}

LEMMA PerformCases ==
    ASSUME TypeOK, NEW c \in Callers, Perform(c)
    PROVE  \E id \in TaskIds, status \in TaskStatus \cup {NoTask}, r \in Reply :
                Stores(c, id, status, r) \/ Moves(c, id, status, r)
<1> DEFINE id == req[c].id
           to == req[c].to
           now == tasks[id]
<1>1. /\ phase[c] = "called" /\ id \in TaskIds /\ now \in TaskStatus \cup {NoTask}
      /\ tasks = [tasks EXCEPT ![id] = now]
      /\ req[c].op \in {"insert", "update"} => to \in TaskStatus
    BY RequestTyped DEF Perform, TypeOK
<1>2. CASE req[c].op = "get" /\ PerformGet(c, id)
    <2> DEFINE r == IF now = NoTask THEN NotFound ELSE Ok(now)
    <2>1. r \in Reply /\ r.kind # "illegal" /\ Told(r) \subseteq {now}
        BY <1>1, ReplyTyped, KindOfReply, ToldByReply
    <2>2. Moves(c, id, now, r)
        BY <1>1, <1>2, <2>1 DEF PerformGet, Moves, Effect
    <2> QED
        BY <1>1, <2>1, <2>2
<1>3. CASE req[c].op = "insert" /\ PerformInsert(c, id)
    <2>1. Stores(c, id, to, Inserted)
        BY <1>1, <1>3, ReplyTyped, KindOfReply DEF PerformInsert, Stores, Effect
    <2> QED
        BY <1>1, <1>3, <2>1, ReplyTyped
<1>4. CASE req[c].op = "update" /\ PerformUpdate(c, id)
    <2>1. CASE /\ CanTransitionTo(now, to) /\ tasks' = [tasks EXCEPT ![id] = to]
               /\ Finish(c, Ok(to)) /\ Tell(id, Ok(to))
        <3>1. Moves(c, id, to, Ok(to)) /\ Ok(to) \in Reply
            BY <1>1, <1>4, <2>1, ReplyTyped, KindOfReply, ToldByReply DEF Moves, Effect
        <3> QED
            BY <1>1, <1>4, <3>1
    <2>2. CASE /\ ~CanTransitionTo(now, to) \/ SharedFile
               /\ UNCHANGED tasks
               /\ LET r == IF now = NoTask THEN NotFound ELSE Illegal(now, to)
                  IN  Finish(c, r) /\ Tell(id, r)
        <3> DEFINE r == IF now = NoTask THEN NotFound ELSE Illegal(now, to)
        <3>1. /\ r \in Reply /\ Told(r) \subseteq {now}
              /\ r.kind = "illegal" => r.status = now /\ r.to = to
            BY <1>1, <1>4, ReplyTyped, KindOfReply, ToldByReply
        <3>2. Moves(c, id, now, r)
            BY <1>1, <2>2, <3>1 DEF Moves, Effect
        <3> QED
            BY <1>1, <3>1, <3>2
    <2> QED
        BY <1>4, <2>1, <2>2 DEF PerformUpdate
<1>5. CASE req[c].op = "cancel" /\ PerformCancel(c, id)
    <2>1. ASSUME now # NoTask,
                 NEW status \in {Cancel(now)} \cup IF SharedFile THEN {"cancelled"} ELSE {},
                 tasks' = [tasks EXCEPT ![id] = status],
                 Finish(c, Ok(status)), Tell(id, Ok(status))
          PROVE  \E s \in TaskStatus \cup {NoTask}, r \in Reply : Moves(c, id, s, r)
        <3>1. /\ status \in TaskStatus
              /\ status = now \/ CanTransitionTo(now, status) \/ (status = "cancelled" /\ SharedFile)
            BY <1>1, <2>1, CancelFollowsLifecycle DEF Cancel, TaskStatus
        <3>2. Moves(c, id, status, Ok(status)) /\ Ok(status) \in Reply
            BY <1>1, <2>1, <3>1, ReplyTyped, KindOfReply, ToldByReply DEF Moves, Effect
        <3> QED
            BY <3>1, <3>2
    <2>2. CASE now = NoTask /\ UNCHANGED tasks /\ Finish(c, NotFound) /\ Tell(id, NotFound)
        <3>1. Moves(c, id, now, NotFound)
            BY <1>1, <2>2, ReplyTyped, KindOfReply, ToldByReply DEF Moves, Effect
        <3> QED
            BY <1>1, <3>1, ReplyTyped
    <2> QED
        BY <1>1, <1>5, <2>1, <2>2 DEF PerformCancel
<1> QED
    BY <1>2, <1>3, <1>4, <1>5 DEF Perform

\* Every step performs an operation or leaves what is stored and told alone,
\* and then it gives no reply but an error.
LEMMA StepCases ==
    ASSUME TypeOK, [Next]_vars
    PROVE  \/ \E c \in Callers, id \in TaskIds, status \in TaskStatus \cup {NoTask}, r \in Reply :
                Stores(c, id, status, r) \/ Moves(c, id, status, r)
           \/ /\ UNCHANGED <<tasks, told>>
              /\ \A c \in Callers : reply'[c] \in {reply[c], SqliteError, NoReply}
<1>1. ASSUME NEW c \in Callers, NEW r \in Request, Invoke(c, r)
      PROVE  UNCHANGED <<tasks, told, reply>>
    BY <1>1 DEF Invoke
<1>2. ASSUME NEW c \in Callers, Fail(c) \/ Return(c)
      PROVE  /\ UNCHANGED <<tasks, told>>
             /\ \A d \in Callers : reply'[d] \in {reply[d], SqliteError, NoReply}
    BY <1>2 DEF Fail, Return, Finish, TypeOK
<1>3. ASSUME NEW S \in SUBSET Callers, Abandon(S)
      PROVE  /\ UNCHANGED <<tasks, told>>
             /\ \A d \in Callers : reply'[d] \in {reply[d], SqliteError, NoReply}
    BY <1>3 DEF Abandon
<1> QED
    BY <1>1, <1>2, <1>3, PerformCases DEF Next, vars

-----------------------------------------------------------------------------
(* Types.                                                                  *)

\* Type correctness; a caller in a call has asked for something a store does.
THEOREM TypeCorrect == Spec => []TypeOK
<1>1. Init => TypeOK
    BY DEF Init, TypeOK
<1>2. TypeOK /\ [Next]_vars => TypeOK'
    <2> SUFFICES ASSUME TypeOK, [Next]_vars PROVE TypeOK'
        OBVIOUS
    <2> USE DEF TypeOK
    <2>1. ASSUME NEW c \in Callers, NEW r \in Request, Invoke(c, r) PROVE TypeOK'
        BY <2>1 DEF Invoke
    <2>2. ASSUME NEW c \in Callers, Perform(c) PROVE TypeOK'
        <3>1. PICK id \in TaskIds, status \in TaskStatus \cup {NoTask}, r \in Reply :
                Stores(c, id, status, r) \/ Moves(c, id, status, r)
            BY <2>2, PerformCases
        <3>2. tasks' \in [TaskIds -> TaskStatus \cup {NoTask}]
            BY <3>1 DEF Stores, Moves, Effect
        <3>3. told' \in [TaskIds -> SUBSET Terminal]
            BY <3>1 DEF Stores, Moves, Effect, Tell, Told
        <3> QED
            BY <3>1, <3>2, <3>3 DEF Stores, Moves, Effect, Finish
    <2>3. ASSUME NEW c \in Callers, Fail(c) PROVE TypeOK'
        BY <2>3, ReplyTyped DEF Fail, Finish
    <2>4. ASSUME NEW c \in Callers, Return(c) PROVE TypeOK'
        BY <2>4 DEF Return
    <2>5. ASSUME NEW S \in SUBSET Callers, Abandon(S) PROVE TypeOK'
        BY <2>5 DEF Abandon
    <2>6. CASE UNCHANGED vars
        BY <2>6 DEF vars
    <2> QED
        BY <2>1, <2>2, <2>3, <2>4, <2>5, <2>6 DEF Next
<1> QED
    BY <1>1, <1>2, PTL DEF Spec

-----------------------------------------------------------------------------
(* What callers are told.                                                  *)

\* A terminal status somebody was told is still stored or was overwritten by a
\* cancel; a cancel is never overwritten.  So two that were told differ only
\* when one of them is the cancel.
ToldHeld ==
    \A id \in TaskIds :
        /\ \A s \in told[id] : tasks[id] \in {s, "cancelled"}
        /\ \A s \in told[id], t \in told[id] : s = t \/ "cancelled" \in {s, t}

LEMMA ToldStep ==
    ASSUME TypeOK, ToldHeld, [Next]_vars
    PROVE  ToldHeld'
<1>1. ASSUME NEW c \in Callers, NEW id \in TaskIds, NEW status, NEW r, Stores(c, id, status, r)
      PROVE  ToldHeld'
    BY <1>1 DEF TypeOK, ToldHeld, Stores, Effect
<1>2. ASSUME NEW c \in Callers, NEW id \in TaskIds, NEW status, NEW r, Moves(c, id, status, r)
      PROVE  ToldHeld'
    <2>1. /\ tasks'[id] = status /\ told'[id] = told[id] \cup Told(r) /\ Told(r) \subseteq {status}
          /\ \A j \in TaskIds : j # id => tasks'[j] = tasks[j] /\ told'[j] = told[j]
        BY <1>2 DEF TypeOK, Moves, Effect, Tell
    <2>2. \/ status = tasks[id] \/ ~IsTerminal(tasks[id]) \/ status = "cancelled"
        BY <1>2, TerminalHasNoSuccessor DEF Moves
    <2>3. told[id] \subseteq Terminal
        BY DEF TypeOK
    <2> QED
        BY <2>1, <2>2, <2>3 DEF ToldHeld, IsTerminal, Terminal
<1>3. CASE UNCHANGED <<tasks, told>>
    BY <1>3 DEF ToldHeld
<1> QED
    BY <1>1, <1>2, <1>3, StepCases

LEMMA ToldCorrect == Spec => []ToldHeld
<1>1. Init => ToldHeld
    BY DEF Init, ToldHeld
<1> QED
    BY <1>1, ToldStep, TypeCorrect, PTL DEF Spec

\* A task a caller was told is cancelled stays cancelled, shared or not.
THEOREM CancelAcksPersist == Spec => []CancelAckPersists
<1>1. ToldHeld => CancelAckPersists
    BY DEF ToldHeld, CancelAckPersists
<1> QED
    BY <1>1, ToldCorrect, PTL

\* No two callers are told that the same task completed and that it failed.
THEOREM OutcomesAgree == Spec => []NoContradictoryOutcome
<1>1. ToldHeld => NoContradictoryOutcome
    BY DEF ToldHeld, NoContradictoryOutcome
<1> QED
    BY <1>1, ToldCorrect, PTL

\* A task moves along the lifecycle but for the writes of cancel and insert.
THEOREM UpdatesLegal == Spec => UpdatesFollowLifecycle
<1> DEFINE Legal == \A id \in TaskIds :
               \/ tasks'[id] = tasks[id]
               \/ CanTransitionTo(tasks[id], tasks'[id])
               \/ tasks'[id] = "cancelled"
               \/ \E c \in Callers : Replaces(c, id)
<1>1. ASSUME TypeOK, [Next]_vars PROVE Legal
    <2>1. ASSUME NEW c \in Callers, NEW id \in TaskIds, NEW status, NEW r, Stores(c, id, status, r)
          PROVE  Legal
        BY <1>1, <2>1 DEF TypeOK, Stores, Effect, Finish, Replaces
    <2>2. ASSUME NEW c \in Callers, NEW id \in TaskIds, NEW status, NEW r, Moves(c, id, status, r)
          PROVE  Legal
        BY <1>1, <2>2 DEF TypeOK, Moves, Effect
    <2> QED
        BY <1>1, <2>1, <2>2, StepCases
<1>2. TypeOK /\ [Next]_vars => [Legal]_vars
    BY <1>1
<1> QED
    BY <1>2, TypeCorrect, PTL DEF Spec, UpdatesFollowLifecycle

-----------------------------------------------------------------------------
(* Stores nobody else uses.                                                *)

\* The invariant of a store that is not shared.
AloneInv == TypeOK /\ ReportsAgree /\ IllegalRepliesAreIllegal

LEMMA AloneStep ==
    ASSUME ~SharedFile, AloneInv, [Next]_vars
    PROVE  (ReportsAgree /\ IllegalRepliesAreIllegal)'
<1> USE DEF AloneInv
<1>1. ASSUME NEW c \in Callers, NEW id \in TaskIds, NEW status, NEW r,
             Stores(c, id, status, r) \/ Moves(c, id, status, r)
      PROVE  (ReportsAgree /\ IllegalRepliesAreIllegal)'
    <2>1. /\ tasks' = [tasks EXCEPT ![id] = status] /\ reply' = [reply EXCEPT ![c] = r]
          /\ r.kind = "illegal" => ~CanTransitionTo(r.status, r.to)
        BY <1>1 DEF Stores, Moves, Effect, Finish
    <2>2. IllegalRepliesAreIllegal'
        BY <2>1 DEF TypeOK, IllegalRepliesAreIllegal
    <2>3. CASE Stores(c, id, status, r)
        BY <2>1, <2>2, <2>3 DEF TypeOK, ReportsAgree, Stores
    <2>4. CASE Moves(c, id, status, r)
        <3>1. told' = [told EXCEPT ![id] = @ \cup Told(r)] /\ Told(r) \subseteq {status}
            BY <2>4 DEF Moves, Tell
        <3>2. status = tasks[id] \/ ~IsTerminal(tasks[id])
            BY <2>4, TerminalHasNoSuccessor DEF Moves
        <3>3. told[id] \subseteq {tasks[id]} /\ told[id] \subseteq Terminal
            BY DEF TypeOK, ReportsAgree
        <3>4. told'[id] \subseteq {status}
            BY <3>1, <3>2, <3>3 DEF TypeOK, IsTerminal
        <3> QED
            BY <2>1, <2>2, <3>1, <3>4 DEF TypeOK, ReportsAgree
    <2> QED
        BY <1>1, <2>3, <2>4
<1>2. ASSUME UNCHANGED <<tasks, told>>,
             \A c \in Callers : reply'[c] \in {reply[c], SqliteError, NoReply}
      PROVE  (ReportsAgree /\ IllegalRepliesAreIllegal)'
    BY <1>2, KindOfReply DEF ReportsAgree, IllegalRepliesAreIllegal
<1> QED
    BY <1>1, <1>2, StepCases

LEMMA AloneCorrect ==
    ASSUME ~SharedFile
    PROVE  Spec => []AloneInv
<1>1. Init => ReportsAgree /\ IllegalRepliesAreIllegal
    BY KindOfReply DEF Init, ReportsAgree, IllegalRepliesAreIllegal
<1>2. TypeOK /\ ReportsAgree /\ IllegalRepliesAreIllegal /\ [Next]_vars
      => (ReportsAgree /\ IllegalRepliesAreIllegal)'
    BY AloneStep DEF AloneInv
<1>3. AloneInv <=> TypeOK /\ ReportsAgree /\ IllegalRepliesAreIllegal
    BY DEF AloneInv
<1> QED
    BY <1>1, <1>2, <1>3, TypeCorrect, PTL DEF Spec

\* What a caller was told of a finished task is what every later caller is told.
THEOREM ReportsAlwaysAgree ==
    ASSUME ~SharedFile
    PROVE  Spec => []ReportsAgree
<1>1. AloneInv => ReportsAgree
    BY DEF AloneInv
<1> QED
    BY <1>1, AloneCorrect, PTL

\* Only an illegal transition is answered as one.
THEOREM IllegalMeansIllegal ==
    ASSUME ~SharedFile
    PROVE  Spec => []IllegalRepliesAreIllegal
<1>1. AloneInv => IllegalRepliesAreIllegal
    BY DEF AloneInv
<1> QED
    BY <1>1, AloneCorrect, PTL

\* Nothing but an insert changes a finished task.
THEOREM TerminalStaysPut ==
    ASSUME ~SharedFile
    PROVE  Spec => TerminalAbsorbing
<1> DEFINE Kept == \A id \in TaskIds : IsTerminal(tasks[id]) =>
               tasks'[id] = tasks[id] \/ \E c \in Callers : Replaces(c, id)
<1>1. ASSUME TypeOK, [Next]_vars PROVE Kept
    <2>1. ASSUME NEW c \in Callers, NEW id \in TaskIds, NEW status, NEW r, Stores(c, id, status, r)
          PROVE  Kept
        BY <1>1, <2>1 DEF TypeOK, Stores, Effect, Finish, Replaces
    <2>2. ASSUME NEW c \in Callers, NEW id \in TaskIds, NEW status, NEW r, Moves(c, id, status, r)
          PROVE  Kept
        BY <1>1, <2>2, TerminalHasNoSuccessor DEF TypeOK, Moves, Effect
    <2> QED
        BY <1>1, <2>1, <2>2, StepCases
<1>2. TypeOK /\ [Next]_vars => [Kept]_vars
    BY <1>1
<1> QED
    BY <1>2, TypeCorrect, PTL DEF Spec, TerminalAbsorbing
=============================================================================
