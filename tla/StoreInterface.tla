--------------------------- MODULE StoreInterface ---------------------------
(***************************************************************************)
(* What passes between a caller and a TaskStore (longhaul-server/src/      *)
(* store.rs): the four operations of the trait and the results they give.  *)
(* A Task is abstracted to its id and status, the only two columns the     *)
(* SQLite table keeps.                                                     *)
(***************************************************************************)
EXTENDS TaskLifecycle

CONSTANT TaskIds   \* the task ids in play

\* insert carries a whole task; every caller in the repository inserts
\* Task::new(id), whose status is working.
Request == [op : {"get", "cancel"}, id : TaskIds, to : {"none"}]
    \cup   [op : {"insert"}, id : TaskIds, to : {"working"}]
    \cup   [op : {"update"}, id : TaskIds, to : TaskStatus]

NoRequest == [op |-> "none", id |-> "none", to |-> "none"]

\* Result<Task, StoreError>.  status is the status of the returned task, or
\* the `from` of an IllegalTransition, whose `to` is in the last field.
Reply == [kind : {"ok", "notFound", "illegal", "sqlite"},
          status : TaskStatus \cup {"none"}, to : TaskStatus \cup {"none"}]

NoReply == [kind |-> "none", status |-> "none", to |-> "none"]

Ok(status)        == [kind |-> "ok", status |-> status, to |-> "none"]
Illegal(from, to) == [kind |-> "illegal", status |-> from, to |-> to]
NotFound          == [kind |-> "notFound", status |-> "none", to |-> "none"]
SqliteError       == [kind |-> "sqlite", status |-> "none", to |-> "none"]

\* insert answers Ok(()), which carries no task.
Inserted == Ok("none")

\* The terminal status a reply tells its caller about, if any.
Told(r) == {r.status} \cap Terminal
=============================================================================
