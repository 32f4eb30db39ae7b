--------------------------- MODULE TaskLifecycle ---------------------------
(***************************************************************************)
(* The task lifecycle of longhaul-core (src/tasks.rs): the five statuses,  *)
(* which of them are terminal, the legal transitions and what Task::cancel *)
(* makes of a status.  Statuses are named by their wire strings.           *)
(***************************************************************************)

TaskStatus == {"working", "inputRequired", "completed", "failed", "cancelled"}

Terminal == {"completed", "failed", "cancelled"}

IsTerminal(status) == status \in Terminal

\* What a store maps an id to when it holds no task of that id.
NoTask == "noTask"

-----------------------------------------------------------------------------
\* Mutant: a working task cannot fail before it has been paused.
CanTransitionToNoFail(status, next) ==
    \/ status = "working" /\ next \in {"inputRequired", "completed", "cancelled"}
    \/ status = "inputRequired" /\ next \in {"working", "failed", "cancelled"}

\* TaskStatus::can_transition_to; false for NoTask too.
CanTransitionTo(status, next) ==
    \/ status = "working" /\ next \in {"inputRequired", "completed", "failed", "cancelled"}
    \/ status = "inputRequired" /\ next \in {"working", "failed", "cancelled"}

\* Mutant: cancel rewrites a task that has already finished.
CancelAnything(status) == "cancelled"

\* Task::cancel never fails: a live task becomes cancelled, a terminal one
\* keeps its status.
Cancel(status) == IF IsTerminal(status) THEN status ELSE "cancelled"
=============================================================================
