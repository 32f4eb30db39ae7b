------------------------- MODULE ConformanceRunner -------------------------
(***************************************************************************)
(* One run of longhaul-conformance (src/main.rs): the suites that the      *)
(* filter selects, one after the other, each a script of cases; a case is  *)
(* one call of McpClient over HTTP, judged by what comes back in ten       *)
(* seconds.  The server under test is either any server at all or one that *)
(* is built on longhaul-server and that other clients use meanwhile.       *)
(***************************************************************************)
EXTENDS TaskLifecycle, Naturals, Sequences

CONSTANTS Ids,         \* the tasks of other clients
          RunTask,     \* conformance-<uuid>, the id that this run makes up
          EntryLists   \* what the server's registry may be built from

Suites == <<"discovery", "tools", "tasks">>

Script ==
    [discovery |-> <<"discover_result_schema", "protocol_version_pinned",
                     "jsonrpc_response_envelope">>,
     tools     |-> <<"tools_list_schema", "tools_field_is_array",
                     "cache_metadata_types">>,
     tasks     |-> <<"get_missing_task", "cancel_missing_task",
                     "update_missing_task", "tasks_list_removed">>]

\* The method that a case calls.
Method ==
    [discover_result_schema    |-> "server/discover",
     protocol_version_pinned   |-> "server/discover",
     jsonrpc_response_envelope |-> "server/discover",
     tools_list_schema         |-> "tools/list",
     tools_field_is_array      |-> "tools/list",
     cache_metadata_types      |-> "tools/list",
     get_missing_task          |-> "tasks/get",
     cancel_missing_task       |-> "tasks/cancel",
     update_missing_task       |-> "tasks/update",
     tasks_list_removed        |-> "tasks/list"]

\* The suites whose names contain the filter: no text is in "discovery" and in
\* "tasks" but not in "tools", and one that is nowhere selects nothing.
Selections == SUBSET {"discovery", "tools", "tasks"} \ {{"discovery", "tasks"}}

\* A ToolEntry: its name, and whether its schemas are objects or booleans.
ToolEntry == [name : STRING, schemas : BOOLEAN]

ASSUME EntriesAssumption == \A entries \in EntryLists : entries \in Seq(ToolEntry)
ASSUME RunTaskAssumption == RunTask \notin Ids

\* What is wrong with a result, as far as the cases can tell.  badDiscover and
\* badList are other disagreements with the fixture, such as a bad tool.
DiscoverFlaws == {"noVersion", "otherVersion", "badDiscover"}
ListFlaws == {"toolsNoArray", "ttlNoNumber", "ttlNoInteger", "scopeNoString", "badList"}

FlawsOf(m) ==
    IF m = "server/discover" THEN DiscoverFlaws ELSE IF m = "tools/list" THEN ListFlaws ELSE {}

Codes == {"invalidParams", "methodNotFound", "internal"}

\* What McpClient gets for a call of m: nothing in time or an HTTP error, bytes
\* that are no Response, or a message with a result, an error or both, and with
\* the id of the call or another.  serde reads both halves as a result.
AnswerTo(m) ==
    [has : {"nothing", "junk"}, id : {"none"}, code : {"none"}, flaws : {{}}]
    \cup [has : {"result", "both"}, id : {"echoed", "other"}, code : {"none"},
          flaws : SUBSET FlawsOf(m)]
    \cup [has : {"error"}, id : {"echoed", "other"}, code : Codes, flaws : {{}}]

Answer == AnswerTo("server/discover") \cup AnswerTo("tools/list")

Nothing == [has |-> "nothing", id |-> "none", code |-> "none", flaws |-> {}]
Result(flaws) == [has |-> "result", id |-> "echoed", code |-> "none", flaws |-> flaws]
Error(code) == [has |-> "error", id |-> "echoed", code |-> code, flaws |-> {}]

VARIABLES setup,      \* the filter, the server and what it is built from; fixed
          tasks,      \* the server's store
          suite,      \* the position in Suites
          case,       \* the position in the suite's script
          call,       \* the HTTP request of the case
          answer,
          failed,     \* the failed cases of this suite
          anyFailed,  \* a suite that has ended was not ok
          exit,       \* the exit code
          broken,     \* history: a call was not answered as the RC demands
          served,     \* history: the methods that have once said the right thing
          fault       \* history: a call timed out or met a failing store

vars == <<setup, tasks, suite, case, call, answer, failed, anyFailed, exit, broken,
          served, fault>>

Name == Suites[suite]
Selected == suite < 4 /\ Name \in setup.selected
Current == Script[Name][case]

Setups == [selected : Selections, server : {"any", "longhaul"},
           version : {"pinned", "other"}, entries : EntryLists]

TypeOK ==
    /\ setup \in Setups
    /\ tasks \in [Ids \cup {RunTask} -> TaskStatus \cup {NoTask}]
    /\ suite \in 1..4
    /\ case \in 1..5
    /\ suite < 4 => case \in 1..Len(Script[Name]) + 1
    /\ call \in {"none", "sent", "answered"}
    /\ answer \in Answer
    /\ failed \in 0..4
    /\ failed < case
    /\ anyFailed \in BOOLEAN
    /\ exit \in {"running", "success", "failure"}
    /\ broken \in BOOLEAN
    /\ served \subseteq {"server/discover", "tools/list", "tasks/get", "tasks/cancel",
                        "tasks/update", "tasks/list"}
    /\ fault \in BOOLEAN
    /\ call # "none" => Selected /\ case <= Len(Script[Name])
    /\ exit # "running" => suite = 4

Init ==
    /\ setup \in Setups
    /\ tasks = [id \in Ids \cup {RunTask} |-> NoTask]
    /\ suite = 1
    /\ case = 1
    /\ call = "none"
    /\ answer = Nothing
    /\ failed = 0
    /\ anyFailed = FALSE
    /\ exit = "running"
    /\ broken = FALSE
    /\ served = {}
    /\ fault = FALSE

-----------------------------------------------------------------------------
NoVerdict == UNCHANGED <<failed, anyFailed, exit>>
NoHistory == UNCHANGED <<broken, served, fault>>

\* Mutant: the count of failed cases is carried into the next suite.
NextSuiteKeepsFailed == suite' = suite + 1 /\ case' = 1 /\ UNCHANGED failed

\* The loop of main goes on to the next suite, which starts from Suite::new.
NextSuite == suite' = suite + 1 /\ case' = 1 /\ failed' = 0

SkipSuite ==
    /\ suite < 4
    /\ ~Selected
    /\ NextSuite
    /\ NoHistory
    /\ UNCHANGED <<setup, tasks, call, answer, anyFailed, exit>>

Send ==
    /\ Selected
    /\ case <= Len(Script[Name])
    /\ call = "none"
    /\ call' = "sent"
    /\ NoVerdict
    /\ NoHistory
    /\ UNCHANGED <<setup, tasks, suite, case, answer>>

-----------------------------------------------------------------------------
\* What the RC and the fixtures want a method to say, whichever case asks: a
\* result that fits its fixture, or the error for a task or a method that does
\* not exist.
SaysRight(m, a) ==
    \/ /\ m \in {"server/discover", "tools/list"}
       /\ a.has \in {"result", "both"}
       /\ a.flaws \cap FlawsOf(m) = {}
    \/ /\ m \in {"tasks/get", "tasks/cancel", "tasks/update"}
       /\ a.has = "error" /\ a.code = "invalidParams"
    \/ /\ m = "tasks/list"
       /\ a.has = "error" /\ a.code = "methodNotFound"

\* And how a response has to say it: exactly one of result and error, and an
\* echo of the request's id.
Meets(m, a) == SaysRight(m, a) /\ a.has # "both" /\ a.id = "echoed"

\* The call ends with answer a.
Receive(a) ==
    /\ call' = "answered"
    /\ answer' = a
    /\ broken' = (broken \/ ~Meets(Method[Current], a))
    /\ served' = served \cup {m \in {Method[Current]} : SaysRight(m, a)}
    /\ NoVerdict
    /\ UNCHANGED <<setup, suite, case>>

\* A server of which nothing is known.
AnyServes ==
    /\ call = "sent"
    /\ setup.server = "any"
    /\ \E a \in AnswerTo(Method[Current]) : Receive(a)
    /\ UNCHANGED <<tasks, fault>>

\* Mutant: the first entry of a name is kept.
RegisteredFirst(entries) ==
    {entries[i] : i \in {k \in DOMAIN entries :
        \A j \in DOMAIN entries : j < k => entries[j].name # entries[k].name}}

\* Registry::from_entries: a later entry replaces an earlier one of its name.
Registered(entries) ==
    {entries[i] : i \in {k \in DOMAIN entries :
        \A j \in DOMAIN entries : j > k => entries[j].name # entries[k].name}}

\* The fixture wants a name that is not empty and schemas that are schemas.
GoodTool(entry) == entry.name # "" /\ entry.schemas

\* Registry::list_result; its ttlMs and cacheScope are always of the right type.
ListResult == IF \A e \in Registered(setup.entries) : GoodTool(e) THEN {} ELSE {"badList"}

DiscoverResult == IF setup.version = "pinned" THEN {} ELSE {"otherVersion"}

\* Mutant: the same id in every run, which may be that of somebody's task.
TaskIdWellKnown == CHOOSE id \in Ids : TRUE

\* The id in the params of the tasks suite.
TaskId == RunTask

\* What tasks/get, tasks/update to completed and tasks/cancel make of a task,
\* and what they answer.
AfterCall(status) ==
    IF Current = "update_missing_task" /\ CanTransitionTo(status, "completed") THEN "completed"
    ELSE IF Current = "cancel_missing_task" /\ status # NoTask THEN Cancel(status)
    ELSE status

Refused(status) ==
    \/ status = NoTask
    \/ Current = "update_missing_task" /\ ~CanTransitionTo(status, "completed")

TaskReply(status) == IF Refused(status) THEN Error("invalidParams") ELSE Result({})

\* A server of this crate: route, and the handlers of the methods called here.
LonghaulServes ==
    /\ call = "sent"
    /\ setup.server = "longhaul"
    /\ \/ /\ Name = "discovery"
          /\ Receive(Result(DiscoverResult))
          /\ UNCHANGED <<tasks, fault>>
       \/ /\ Name = "tools"
          /\ Receive(Result(ListResult))
          /\ UNCHANGED <<tasks, fault>>
       \/ /\ Current = "tasks_list_removed"
          /\ Receive(Error("methodNotFound"))
          /\ UNCHANGED <<tasks, fault>>
       \/ /\ Name = "tasks" /\ Current # "tasks_list_removed"
          /\ Receive(TaskReply(tasks[TaskId]))
          /\ tasks' = [tasks EXCEPT ![TaskId] = AfterCall(@)]
          /\ UNCHANGED fault
       \/ /\ Name = "tasks" /\ Current # "tasks_list_removed"
          /\ Receive(Error("internal"))
          /\ fault' = TRUE
          /\ UNCHANGED tasks

\* Mutant: a client without a timeout gives up only when the server refuses.
ExpireNever == FALSE /\ Receive(Nothing) /\ UNCHANGED <<tasks, fault>>

\* Ten seconds have passed, or the connection or the HTTP status is an error.
Expire ==
    /\ call = "sent"
    /\ Receive(Nothing)
    /\ fault' = TRUE
    /\ UNCHANGED tasks

\* Other clients of the server create, update and cancel tasks of their own.
OtherClients ==
    /\ setup.server = "longhaul"
    /\ \E id \in Ids, to \in TaskStatus :
         /\ \/ tasks[id] = NoTask /\ to = "working"
            \/ CanTransitionTo(tasks[id], to)
         /\ tasks' = [tasks EXCEPT ![id] = to]
    /\ UNCHANGED <<setup, suite, case, call, answer, failed, anyFailed, exit, broken,
                   served, fault>>

-----------------------------------------------------------------------------
\* McpClient::call and call_raw.  Neither looks at the id.
CallOk(a) == a.has \notin {"nothing", "junk"}
CallRawOk(a) == CallOk(a) /\ a.has \in {"result", "both"}

\* Mutant: an error of another kind passes too.
ExpectErrorAnyCode(a, code) == CallOk(a) /\ a.has = "error"

\* The match on resp.error() in run_tasks.
ExpectError(a, code) == CallOk(a) /\ a.has = "error" /\ a.code = code

\* Schemas::validate.  A Response that has been parsed and is written out again
\* always fits its fixture.
Validate(schema, a) ==
    \/ schema = "discover_result" /\ a.flaws \cap DiscoverFlaws = {}
    \/ schema = "tools_list_result" /\ a.flaws \cap ListFlaws = {}
    \/ schema = "jsonrpc_response"

RunDiscovery(c, a) ==
    \/ c = "discover_result_schema" /\ CallRawOk(a) /\ Validate("discover_result", a)
    \/ c = "protocol_version_pinned" /\ CallRawOk(a)
         /\ "noVersion" \notin a.flaws /\ "otherVersion" \notin a.flaws
    \/ c = "jsonrpc_response_envelope" /\ CallOk(a) /\ Validate("jsonrpc_response", a)

RunTools(c, a) ==
    \/ c = "tools_list_schema" /\ CallRawOk(a) /\ Validate("tools_list_result", a)
    \/ c = "tools_field_is_array" /\ CallRawOk(a) /\ "toolsNoArray" \notin a.flaws
    \/ c = "cache_metadata_types" /\ CallRawOk(a)
         /\ "ttlNoNumber" \notin a.flaws /\ "scopeNoString" \notin a.flaws

RunTasks(c, a) ==
    \/ c \in {"get_missing_task", "cancel_missing_task", "update_missing_task"}
         /\ ExpectError(a, "invalidParams")
    \/ c = "tasks_list_removed" /\ ExpectError(a, "methodNotFound")

Passes(c, a) == RunDiscovery(c, a) \/ RunTools(c, a) \/ RunTasks(c, a)

\* Suite::record, and the next case.
Record ==
    /\ call = "answered"
    /\ call' = "none"
    /\ failed' = IF Passes(Current, answer) THEN failed ELSE failed + 1
    /\ case' = case + 1
    /\ answer' = Nothing
    /\ NoHistory
    /\ UNCHANGED <<setup, tasks, suite, anyFailed, exit>>

\* Mutant: the last suite decides.
EndSuiteOverwrites ==
    /\ Selected
    /\ case > Len(Script[Name])
    /\ anyFailed' = (failed > 0)
    /\ NextSuite
    /\ NoHistory
    /\ UNCHANGED <<setup, tasks, call, answer, exit>>

\* Suite::into_result counts the failed cases, SuiteResult::ok wants none.
EndSuite ==
    /\ Selected
    /\ case > Len(Script[Name])
    /\ anyFailed' = (anyFailed \/ failed > 0)
    /\ NextSuite
    /\ NoHistory
    /\ UNCHANGED <<setup, tasks, call, answer, exit>>

Exit ==
    /\ suite = 4
    /\ exit = "running"
    /\ exit' = IF anyFailed THEN "failure" ELSE "success"
    /\ NoHistory
    /\ UNCHANGED <<setup, tasks, suite, case, call, answer, failed, anyFailed>>

Step == SkipSuite \/ Send \/ Record \/ EndSuite \/ Exit

Next == Step \/ AnyServes \/ LonghaulServes \/ Expire \/ OtherClients

Spec == Init /\ [][Next]_vars

\* The runner goes on when it can, and the timer of a call fires.  Servers need
\* not answer.
Fairness == WF_vars(Step) /\ WF_vars(Expire)

FairSpec == Spec /\ Fairness

-----------------------------------------------------------------------------
Over == exit # "running"

\* The exit code tells what the server did in the whole run, however the cases
\* and suites went before: a failure means that some call was not answered as the
\* RC demands, and a success that every method of every selected suite has at
\* least once said the right thing.  It does not mean that all answers met the
\* demand: a case may look at a part of its answer, and none notices an answer
\* with both halves or with another id.
VerdictTellsTruth ==
    Over =>
        /\ exit = "failure" => broken
        /\ exit = "success" => \A s \in setup.selected :
               \A i \in DOMAIN Script[s] : Method[Script[s][i]] \in served

\* A server built on this crate passes, while other clients use it, unless a call
\* failed or timed out, or what it was built from does not conform: another
\* version to announce, or a bad tool that no later one of its name replaces.
Replaced(i) ==
    \E j \in DOMAIN setup.entries : j > i /\ setup.entries[j].name = setup.entries[i].name

Conforms ==
    /\ "discovery" \in setup.selected => setup.version = "pinned"
    /\ "tools" \in setup.selected =>
         \A i \in DOMAIN setup.entries : Replaced(i) \/ GoodTool(setup.entries[i])

LonghaulConforms ==
    Over /\ setup.server = "longhaul" => (exit = "success" <=> ~fault /\ Conforms)

\* A run can be pointed at a server in use: though it calls cancel and update, no
\* answer to it comes with a changed task.
RunTouchesNothing == [][call' # call => tasks' = tasks]_vars

\* A run ends even if no call of it is ever answered.
RunEnds == <>Over
=============================================================================
