# A verification project for longhaul

longhaul is an MCP server framework in Rust: JSON-RPC over one HTTP endpoint,
tools that may answer with a long-running *task*, and a task store that several
server processes can share through one SQLite file. These modules model the
parts of it that decide something, check them with TLC on small instances and
prove the most important results with TLAPS for all instances.

Paths below are relative to `src/`.

## 1. The system

| part | source | state | operations | interacts with |
|---|---|---|---|---|
| task lifecycle | `longhaul-core/src/tasks.rs` | the status of a task | `can_transition_to`, `cancel`, `transition_to` | used by both stores |
| store contract, `MemoryStore` | `longhaul-server/src/store.rs` | a map under a mutex | get, insert, update, cancel | called by the handlers and by tools |
| `SqliteStore` | `longhaul-server/src/store.rs` | a mutex around a connection; the `tasks` and `schema_version` tables, shared between processes | open/migrate, get, insert, update, cancel | other processes, through the file |
| indexer tool | `examples/indexer/src/main.rs` | per task: a worker, a monitor, a watch channel; the map `cancel_txs` | call, handle_retry, spawn_index_task, the worker, the monitor | store, clients |
| dispatch | `longhaul-server/src/handlers.rs` | none | route, one handler per method, error mapping | registry, store |
| HTTP pipeline | `longhaul-server/src/middleware.rs`, `router.rs` | none | method check, response headers, layer order | dispatch |
| registry | `longhaul-server/src/registry.rs` | the tools, fixed at start | from_entries, get, list_result | dispatch, tools, conformance runner |
| wire types | `longhaul-core/src/*.rs` | none | classification of messages and outcomes, error code normalisation, schema depth check | all |
| conformance runner | `longhaul-conformance/src/main.rs` | results of a run | three suites over HTTP, exit code | any server |

What is hard here:

* **Concurrency within a process.** axum handlers, workers and monitors run on
  several threads and meet in the store. Every store method holds the store's
  mutex to its end.
* **Concurrency between processes.** Two servers on one SQLite file share no
  mutex. `update` and `cancel` are a SELECT, a decision and an UPDATE, each
  statement in its own transaction.
* **Partial failure.** Any statement can fail (`SQLITE_BUSY` first of all). The
  worker and the monitor swallow such errors.
* **Crash and restart.** Tasks outlive the process, their workers do not.
* **Stateless round trips.** A tool that asks a question keeps nothing: the client
  brings the offers back in a token, possibly to another server, possibly twice,
  while the directory changes.
* **A judge that is part of the system.** The conformance runner has to say the
  truth of any server, in time, and may be pointed at one that is in use.
* **Cancellation** takes the way store → monitor → watch channel → walk, while
  the worker gets to the end on its own.

What makes each part correct:

* lifecycle and store: terminal statuses are absorbing; only legal transitions
  happen and only illegal ones are refused; what a caller was told stays true;
  a method is one atomic step to its callers.
* indexer: a walk that a cancel has cut short is never reported as completed; every cancel reaches
  the walk; every ended walk settles its task; nothing is left polling; all that
  also when other servers act between the statements of one store operation.
* round trip: an answer tells what was done; a choice is honoured if and only if the token
  it comes with lists it. Servers cannot tell who has written the token.
* dispatch and HTTP: a refused request moves no task; an error keeps its class;
  a header that names the method tells the truth.
* conformance runner: the exit code tells what the server did, a run ends and
  leaves no trace, and a server of this crate passes.
* migration: any interleaving of opens, and a crash in any of them, leaves a
  usable schema.

The hazards list of `PROJECT.json` gives the lines where each of these can go
wrong and the properties that watch it.

## 2. Modules

| module | what it is |
|---|---|
| `TaskLifecycle` | statuses, transition table, `Task::cancel` as operators |
| `StoreInterface` | requests to and replies from a store |
| `TaskStore` | the abstract store: every operation takes effect in one step, `Perform(c)`, between `Invoke` and `Return`. It is also the model of `MemoryStore`, each of whose methods runs under one mutex. With `SharedFile` it is a store whose tasks are used through other stores too |
| `TaskStore_proofs` | what follows for the callers of any such store |
| `SqliteStore` | `SqliteStore`, one action per SQL statement |
| `MCSqliteStore` | which caller uses which instance, for TLC |
| `SqliteStore_proofs` | that it implements `TaskStore`, for any number of instances and for one, and what follows |
| `Indexer` | the worker, the monitor, the clients, on an atomic store |
| `Indexer_proofs` | theorems for any ids, crashes, store and clients |
| `SharedIndexer` | composes the two: the indexer on a `SqliteStore` whose file other servers use, statement by statement |
| `MCSharedIndexer` | the threads and servers that TLC uses |
| `SharedIndexer_proofs` | that it implements `Indexer`, for any tasks, callers and servers, and what follows |
| `ToolRoundTrip` | `call` and `handle_retry` of the indexer tool, its client, and the directory |
| `MCToolRoundTrip` | symmetry, for TLC |
| `ToolRoundTrip_proofs` | theorems for any candidates, ids and number of attempts |
| `SchemaMigration` | servers that open one database file, one action per SQL statement of `migrate` |
| `SchemaMigration_proofs` | theorems for any finite set of servers |
| `McpEndpoint` | a request's way through the layers of `POST /mcp` and back, on an atomic store |
| `MCMcpEndpoint` | the requests that TLC sends |
| `McpEndpoint_proofs` | theorems for any clients and requests |
| `ConformanceRunner` | a run of the conformance runner against any server, or against one of this crate |
| `MCConformanceRunner` | the registries that TLC tries |
| `ConformanceRunner_proofs` | theorems for any registries and ids |

Definitions with "Mutant" in their comment are faulty versions of the definition
after them. No specification uses them; substituting one for the definition it
follows makes the property it is listed with fail.

### TaskStore

`phase[c]` is `idle`, `called` or `done`; `Perform(c)` is the one step that reads the
task, writes it and fixes the reply. `Fail` is an operation that fails in the backend and has
had no effect, `Abandon` the end of a process. Without `SharedFile`, `PerformUpdate` and
`PerformCancel` are the two branches of `MemoryStore::update` and `MemoryStore::cancel`.
`SharedFile` adds what other stores on the same tasks can do to a method, and no more: a
cancel may store `cancelled` over a task that has ended, and an update may be refused though
the status it is refused with would allow it.

### SqliteStore

A caller is a thread in a store method. `Home[c]` is the `SqliteStore` it uses
and `lock[i]` that store's mutex. `pc[c]` says which statement comes next:

    idle --Invoke--> called --Get, Insert, UpdateRead, CancelRead--> done
                     called --UpdateRead, CancelRead--> write
                     write  --UpdateWrite, CancelWrite--> done
                     write  --UpdateWrite, no row changed--> reread --UpdateReread--> done
                     done   --Return--> idle

`db` is the `tasks` table. A task is its status: the table keeps nothing else.
`told` is a history variable: the terminal statuses that replies have named for
the task now stored under an id; `insert`, which replaces the task, empties it.
It is updated when a statement fixes the reply, even if the caller dies before
it gets it, so properties about it are the stronger ones.

`StatementError` lets any statement fail without effect; it also stands for a
row whose status cannot be parsed. `Crash(i)` ends a process between any two
statements. A poisoned mutex cannot happen, since no method panics while
it holds it.

Seen through `Phase`, which hides the statements, it implements `TaskStore`:
`ImplementsTaskStore` when all callers use one instance, `ImplementsSharedStore` (with `SharedFile`)
in any case. The operation takes effect at its last statement.

The mutex is taken by the first statement rather than by a step of its own:
nothing but statements is visible to others, so a step between the two would add
states and no behaviour.

### Indexer

A store operation is one step of `Indexer`. That is what `MemoryStore` gives
and, by the refinement theorem below, what one `SqliteStore` gives. `tasks/get`
by clients changes nothing and is left out. `SpawnIndexTask` is one step because
the id is a fresh UUID that nobody else has before the handle is returned, and
there is no await point between insert and the two spawns.

`worker[id]` goes `walking` → `cleanup` (the `JoinHandle` has its result) →
`check` (after a walk that did not panic) → `settle` → `exited`. `flag` is the
watch channel. `result` is how the walk ended: `full`; `skipped`, at the end but past directories, entries and
files that it could not read, which `walk_dir` passes over in silence and the worker reports like any
other; `aborted`, at a raised flag; `panic`. Constants choose what surrounds the tool: the statuses that clients ask
for in `tasks/update`, whether store operations can fail, whether the store
survives a crash, whether other servers share its file (`SharedFile`), and how
many crashes there are. A cancel through another server may hit a task that has
ended since that server read it (`ClientCancel`): that is the one thing that
another server can do to the tool which its own clients cannot.

### SharedIndexer

`SqliteStore` gives the callers and their statements; the worker and the monitor of
a task are two of the callers, `WorkerOf[id]` and `MonitorOf[id]`, both on the store
`Here`. Each store operation of `Indexer` becomes a call (`CheckCancelled`, `Settle`,
`Poll`), statements (`Statement`), and a return (`CheckReturns`, `SettleReturns`,
`PollReturns`). The other callers are request handlers on this server or another.
`WorkerSeenOf`, `MonitorSeenOf` and `CancelTxsSeen` are the refinement mapping: a task
counts as spawned from its INSERT on, and as settled from the UPDATE that changes
its row; reads of the worker and the monitor count when they return. By then a
`cancelled` that was read is still there (`CallsInv`); another status may have changed, and
such a step maps to the one that `Indexer` has for a failed operation. The
refinement is therefore to the `Indexer` with `StoreFaults`, of which `indexer_faults` and four of
the theorems of `Indexer_proofs` speak.

### ToolRoundTrip

Each HTTP request is an *attempt* and walks

    called --> isDir --> readDir --> look --> answered        (call)
    called --> answered                                       (handle_retry, or no path)

with one step per look at the file system, between which other programs change
the directory (`FsChange`). `Retries` says which way it goes: only a request with both `inputResponses` and
`requestState` is a retry, one with either alone is a first call. A token (`requestState`) lists candidates and
says who has written it, `from`, which the servers cannot see, as nobody signs it: a server, or the client itself
(`Own`, with a list of `OwnLists`); or it does not parse (`Garbled`). An attempt can be `lost` at any step: the server dies, the
answer does not arrive, the handler panics. The client (`phase`) then repeats
what it sent; an attempt it has given up on goes on running. `seen` is a history
variable: what some server has found to exist. Threads of the task that is
spawned are in `Indexer`.

### ConformanceRunner

A run goes through `Suites` in order, skips what the filter does not select, and for each
case of a suite's `Script` does `Send`, waits for an answer or for `Expire`, and
`Record`s what `Passes` says. A filter is modelled by the set of suites whose names
contain it. An answer has a result, an error or both, and the id of the request or another one. The
server is `setup.server`: `"any"` answers whatever can be told apart by some case or by the RC; `"longhaul"` answers as `route` and the handlers do, on a store that other clients
use, with a registry built by `from_entries`. Two history variables know what the server did without
the runner's own judgement (`Passes`): `broken`, that some answer was not what the RC and the fixtures demand (`Meets`:
the method says the right thing, in exactly one of result and error, under the request's id), and `served`, the
methods that have once said the right thing (`SaysRight`). The runner looks at less than `Meets` in each
case, so the two differ.

### SchemaMigration

`pc[s]` is the statement a server's open is at: `connect`, `createVersion`,
`readVersion`, `createTasks`, `deleteVersion`, `insertVersion`; then it is `up`, on
SQLite or, when a statement has failed, on a `MemoryStore` (`main`'s fallback).
`execute_batch` runs its statements one by one without a transaction around
them, so other servers act between them. `ReadVersion` may take a recorded version
for none, since `unwrap_or(0)` swallows the error of the query.

### McpEndpoint

    idle --Receive--> received --MethodCheck--> checked --Extract--> extracted
         --Dispatch--> handled --AttachHeaders--> answered --Respond--> idle

`router::build` adds the method check last, so it runs first: what it refuses goes
from `received` to `answered` directly and misses `AttachHeaders`. A request that the
extractor refuses becomes `handled`. `Dispatch` has one action per handler.
`Drop` is the end of a connection at any stage.

A request is a record of what the layers can tell of it. Its body is an object or an array, because
the check and the extractor differ there: the derived `Deserialize` of `Request` also takes its
four fields in an array, in which the check finds no `method`. It has a list of `method` values: a
`serde_json::Value` keeps the last of two equal keys, `Request` refuses them; and it tells
whether it parses as either, because `Request` skips unknown fields that `Value`
has to build. `handed`, `changed` and `fault` are history variables; `changed` says whether the request has created
or moved a task. The `call` of a tool, which can be any `ToolHandler`, is one step that ends in any of its outcomes: it
inserts at most one task and touches no other, and an error may come before or after the insert (`ToolError`).

## 3. Runs

| run | instance | shows |
|---|---|---|
| `one_instance` | 1 store, 3 threads, 1 id | methods are atomic: `ImplementsTaskStore`, and with it reports agree and terminal statuses absorb; no mutex is left locked |
| `two_instances` | 2 stores, 1 + 2 threads, 1 id | methods still take effect in one step, of the store with `SharedFile`: `ImplementsSharedStore`; an acknowledged cancel is never undone, no two opposite outcomes are reported, updates follow the lifecycle |
| `cancel_overwrites` | 2 stores, 1 + 1 threads | violation of `TerminalAbsorbing` |
| `clients_poll` | 2 tasks, shared file, no faults | liveness of cancel, of settling and of the monitor; every live task has a worker; a cancelled walk has somebody on the way to stop it; outcomes are those of the walk |
| `indexer_faults` | 2 tasks, faults, 1 crash, all updates | walks that a cancel cut short never complete, cancels win |
| `paused_task` | 1 task | violation of `WorkerExitSettles` |
| `monitor_gone` | 1 task | violation of `CancelHasWatcher` |
| `schema_migration` | 3 servers, 1 id, faults, crashes | a successful open leaves a usable store; migrations lose no task |
| `mcp_endpoint` | 2 clients, 1 id, 57 requests, faults | the method that is dispatched is the one that was checked, except in two kinds of body; an error means that no task was moved; a handed-out task stays known; cancel can be repeated |
| `conformance` | all 7 selections, 5 registries, 1 foreign task | a failure means an answer against the RC, a success that every method said the right thing; a server of this crate passes; a run touches nobody's task; a run ends though nothing is answered |
| `round_trip` | 2 candidates, 3 attempts, 3 ids | an answer tells what was stored; a handle is for the choice; a choice that its token lists is accepted; only paths that a server has seen are indexed, or those of a token that the client wrote |
| `shared_indexer` | 1 task, 1 client here, 1 on another server, 1 crash | the indexer on statements of a shared file implements `Indexer`; nobody is told of an outcome that is not the walk's |

**Bounds.** One id is enough for `SqliteStore`: no statement reads or writes two
rows, and the mutex only removes interleavings. Three threads are the fewest
with two in one process racing a third in another. Callers call again and
again, so histories are not bounded. In the indexer, tasks do not share
anything but `cancel_txs`; two show that. One crash before, between or after all
steps covers a restart; a second one finds nothing new, as nothing runs for the
old tasks. Three servers in the migration are two that race and a third that comes
later; crashes there are not bounded. At the endpoint two clients are enough for
every pair of stages to overlap, and the requests are every header against every object
body of up to two methods and every array body of up to one, and every method with every kind of params; ids do not
interact. In `shared_indexer` the worker, the monitor and a client share one mutex
and a fourth thread does not; clients there poll, cancel, pause and resume, and their
requests are not bounded. Three attempts in `round_trip` are a call, a retry and one
repetition of either; two candidates are the fewest that are asked about. The client's own token lists one path that no
server has offered (`OwnLists`), which is enough to get past the check of `handle_retry`; any path can be chosen. The
registries of `conformance` are those with no tool, a good one, one that the fixture
refuses, and a name that comes twice in both orders. `MaxCrashes` and `MaxAttempts` bound
the only counters. Symmetry is used for the callers of `one_instance`, where all have
the same home, for the two callers of `two_instances` that share theirs, for the clients of `mcp_endpoint`, and for the candidates and ids of
`round_trip`; only safety is checked there.

**Fairness** is assumed in two runs. In `clients_poll`: of each worker's steps after the walk, of
the monitor's poll (the tokio runtime runs a task that can go on, and the timer
fires) and of the abort of a walk whose flag is up (`walk_dir` looks at the flag
before each entry). A walk that is not told to stop is not assumed to end, and
nothing is assumed of clients. In `conformance`: of the runner's own steps, and of the timeout
of a call, which `reqwest` fires after ten seconds. Servers need not answer.

**Deadlock** is checked except where the system may stop: in `indexer_faults` and `monitor_gone`, where all
ids can be used up and all threads gone; in `shared_indexer`, for the same reason; in
`round_trip`, whose client has at most `MaxAttempts` attempts; and in `conformance`, which ends.

## 4. What the violations mean

* `cancel_overwrites`: server A runs cancel's SELECT and sees `working`; server B
  completes the task and tells its client; A's UPDATE has no status in its WHERE
  and writes `cancelled`. Both clients were told they succeeded.
* `paused_task`: a client pauses a task that is being indexed. The worker's
  update to `completed` is refused, it only logs that, and the task stays
  `inputRequired`; after a resume it stays `working`, with no worker.
* `monitor_gone`: one failed poll ends the monitor. A later cancel is recorded,
  but the walk goes on to its end.

More statements of the documents differ from the code, without a run of their
own. In ways that the models contain:

* With two servers on one file, an `update` that loses its race against a pause answers
  "illegal: inputRequired -> failed", a transition the lifecycle allows
  (`UpdateReread`; `store.rs:48` says only illegal ones are refused so). A retry would
  succeed.
* The 400 answers of `mcp_method_check` miss `MCP-Protocol-Version`, which
  `mcp_response_headers`, the inner layer, attaches (`RejectedByCheck`; `README.md:25` says every response).
* `ToolError::ToolFailed` is answered with -32603 (`CallTool`), where `registry.rs:33` says it is a
  result with `isError` and no protocol error. `registry.rs:26` says -32603, as the code does.
* A `Mcp-Method` header that is not visible ASCII is treated as absent. Two kinds of body are
  dispatched without a comparison to the header: an array, which has no key `method` and is still a `Request`, and an
  object that `Value` refuses. `DispatchedWasChecked` has the exact condition.
* A server that cannot open its database serves a store of its own (`OpenFails`), where
  `examples/indexer/src/main.rs:15` promises that servers with the same file are interchangeable.
* With two servers on one file, a cancel can reach a task that has ended; its
  monitor may be gone by then. `MonitorsStay`, the assumption of `CancelsAreWatched`, excludes that.
* The tasks suite of the conformance runner checks errors only (`Script`), where the head of
  its `main.rs` (line 10) says "full task lifecycle". Its case `jsonrpc_response_envelope` validates a
  `Response` it has written out again, so a message with both a result and an error passes, though
  `jsonrpc.rs:144` and `fixtures/jsonrpc_response.schema.json:5` want exactly one of them; and no case compares the id of
  a response with that of the request (`CallOk`, `Validate`, against `Meets`). This is why a success means less
  than that all answers met the demand (`VerdictTellsTruth`). A filter that selects nothing succeeds without a call (`Selections`).
* An index can be incomplete and completed: `walk_dir` (`main.rs:110-133` of the indexer) returns when a directory
  cannot be opened, and skips entries and files that it cannot read (`WalkSkips`). The counts do not tell.
* `handle_retry` (`main.rs:249-258`) takes the offers from the client, so a client that writes the token itself has
  a path indexed without any question, existing or not; `OnlySeenAreIndexed` has this exception.
* A candidate directory whose name is not UTF-8 makes the tool panic (`Lose`).

In code that the models leave out: `check_depth` enters one frame more than the `max_depth` that
`tools.rs:107` names.

The top-level README says the conditional UPDATE "won't catch a cross-process
race". `UpdatesFollowLifecycle` shows that it does: a single UPDATE statement
is atomic between processes too. It is `cancel`, without the condition, that is
exposed.

## 5. Proofs

The promises of the stores are proved once, of `TaskStore`, and reach the code by
refinement:

    TaskStore_proofs  ==(Implements, ImplementsWhenShared)==>  SqliteStore
    SqliteStore_proofs  ==(UsesSqliteStore)==>  SharedIndexer
    Indexer_proofs  ==(StatementsImplementTool)==>  SharedIndexer

An implementation takes over the theorems by an INSTANCE of the module that holds them,
under the same mapping as the refinement (`Many` and `One` in `SqliteStore_proofs`, `Indexed`
in `SharedIndexer_proofs`), and a lemma that the instance is the specification that was
implemented (`ManyIsStore`, `OneIsStore`, `SameTool`).

`TaskStore_proofs` is for any sets of ids and callers.

* `PerformCases` and `StepCases` reduce the operations to their `Effect`: one task gets one
  status, its caller is told of it or of the one that was there, or nothing is stored at all.
* `CancelAcksPersist`, `OutcomesAgree`: by `ToldHeld`, that a status that was told is stored or was
  overwritten by a cancel. The two alone are not inductive: they do not say that a
  task of which `completed` was told has ended, and a live one could still fail.
* `UpdatesLegal` needs the types only. These three hold with and without `SharedFile`.
* `ReportsAlwaysAgree`, `IllegalMeansIllegal`, `TerminalStaysPut` (under `~SharedFile`, which is `MemoryStore`
  and one `SqliteStore`): by `AloneInv`.

`SqliteStore_proofs` is for any sets of ids, callers and instances.

* `TypeCorrect`: each action ends in `Answer`, `GoOn` or a plain assignment, so
  three lemmas carry the types.
* `LockFreedOnReturn`, `LockCorrect`: by the invariant `LockInv`: a mutex is held
  by a caller of its instance that is between two statements, and every such
  caller holds it. The second half is what makes the first inductive, and both
  together are mutual exclusion.
* `ImplementsWhenShared`: a SELECT that goes on is a stutter of `TaskStore`, as is an UPDATE that
  changes no row, the last statement is its `Perform`, a failing statement its `Fail`, a crash its `Abandon`.
  It needs `MethodInv`: a caller about to write has checked the status it has *seen* (`Checked`), without
  which a pending UPDATE may write anything, and the row is still there (`RowThere`), without which a
  cancel could bring a task into being. Both hold whatever other servers do.
* `Implements` (under `Shared`: all callers have one home): the same step by step proof, with `Fresh`
  added: what a caller has seen is what the row holds, and no UPDATE misses. It rests on mutual exclusion (`Alone`).
* `CancelAcksPersist`, `OutcomesAgree`, `UpdatesLegal`, and under `Shared` `ReportsAlwaysAgree`,
  `IllegalMeansIllegal`, `TerminalStaysPut`: those of `TaskStore_proofs`, by the two refinements.
  (`IllegalRepliesAreIllegal`, the subject of `IllegalMeansIllegal`, has no run of its own: `ImplementsTaskStore` is
  stronger.)

`SchemaMigration_proofs` is for any finite set of servers.

* `OpenedIsUsable`: by `TableInv`. That a version is recorded, or that a server is
  past `CREATE TABLE tasks`, has to mean that the table is there; without the
  second the invariant is lost when `INSERT` follows.
* `RowsBounded` (not checked by a run): by `RowsInv`, that the rows and the servers about to add one are
  together at most the servers. A server's DELETE pays for its own INSERT.
* `TasksKept` needs no invariant: no statement of `migrate` touches a stored row.

`McpEndpoint_proofs` is for any clients, ids, tools and set of requests.

* All handlers are shown to do a `HandlerStep`, which the other proofs use in
  their place.
* `OnlyCheckedIsDispatched`: by `CheckedInv`, what is known of a request behind
  each layer. That exactly one method is left after extraction is what makes
  the check's reading of an object and the dispatched method the same.
* `RefusalsAreClean`: by `EffectInv`, which adds that an unanswered request has changed nothing.
* `HandedStayKnown` is inductive with the types; `CancelsCanBeRepeated` follows.

`Indexer_proofs` is for any ids, any number of crashes, either kind of store and
whatever clients ask for.

* `AbortedStaysCancelled`, `CancelsWin`: by `FlagInv`: an id not used yet has left no
  trace, and for a task that is stored, a raised flag or an aborted walk means
  that it is cancelled. The first part is what keeps `spawn` from
  running into an old task or flag; the second is stronger than the invariant
  because a walk is only aborted where the flag was raised before.
* `OutcomesMatch` (under `ClientsDoNotSettle`): a completed task had a walk that came to its end, with or
  without omissions, and a failed one a walk that panicked; by `OutcomeInv`, which adds that a
  completed or failed task has seen its worker out, so that no later step
  changes the result it was settled with. Without the assumption
  it is false: a client may complete a task that is being walked.
* `LiveHasWorker` (under `Undisturbed`: no faults, no crashes, clients that poll
  and cancel): by `LiveInv`. The violation run `paused_task` shows what happens without it.
* `CancelsAreWatched` (under `MonitorsStay`: no store faults, and on a shared file clients
  that do not complete or fail tasks): by `WatchInv`, that a walk with neither a raised flag nor a
  polling monitor is one of a completed or failed task, and, on a shared file, `OutcomeInv`: such a task
  is not being walked at all. `monitor_gone` shows what happens without it.
* `ExitsSettle` (under `NoPauses`: no store faults, and clients that do not ask for `inputRequired`):
  by `SettledInv`, that a task with a worker is stored, is not paused, and has or had a monitor. It is the
  property that `paused_task` violates, so the assumption cannot be dropped.
* `CancelsStopWorkers` (under `MonitorsStay`), `EndedWalksSettle` and `MonitorsEnd` (under `NoPauses`):
  liveness, with crashes and wider clients than `clients_poll`. A worker that has left the walk goes through
  `cleanup`, `check` and `settle`; `WorkerMoves` says that no step of anybody takes it
  anywhere else than onward, so weak fairness of the worker gets it out (`WorkersExit`). A
  cancelled walk is first seen by its monitor, which `WatchInv` says is still there, and then aborts by
  its flag, which nobody lowers. `SettledInv` turns the worker's exit into the end of the task,
  and the end of the task into a poll that stops the monitor. The theorems are about `Spec` with
  `FairTo(id)` for each task, which is weak fairness of the same three actions as `Fairness`
  in its form `[]<>~Guard \/ []<><<A>>_vars`: TLAPS cannot evaluate `ENABLED`, so `CanPoll`, `CanAbort` and
  `CanEnd` stand in its place. They are the guards of `MonitorPoll`, `WalkAborts` and of the
  worker's three steps, each of which changes the state when it happens; that `ENABLED` is the guard is read off
  these actions and not proved. A crash counts as an exit in `CancelsStopWorkers` (`lost`) and excuses
  `EndedWalksSettle`; nothing restarts a worker.

`SharedIndexer_proofs` is for any tasks, callers, servers and clients.

* `UsesSqliteStore`: a step of the composition is a step of `SqliteStore`; the theorems of
  `SqliteStore_proofs` are used through it.
* `CallsCorrect`: by `CallsInv`, which says of every thread of the tool what it has asked for,
  that the row is there from the INSERT on and before every write, that only spawning inserts,
  and that a `cancelled` that the worker or the monitor was told is still in the row. `StatementCases` reduces the eight statements to
  five effects: go on, or reply with a read, an insert, a move or a cancel.
* `StatementsImplementTool`: each statement is a step of `Indexer` or a stutter. The INSERT is
  `SpawnIndexTask`, the worker's UPDATE `Settle`, a client's UPDATE `ClientUpdate` or `ClientCancel`. Two
  lemmas carry it: `SeenFrame` (what does not touch a task leaves it as it was
  seen), and `CallsInv` for the steps that do.
* `AnswersMatchTheWalk`: `completed` is only told after a walk that came to its end and `failed` after a panic; by `OutcomeInv`, over what was *told*, since the row itself can be overwritten by
  another server's cancel. What makes it inductive is that a raised flag or an
  aborted walk means a cancelled row, on which a later update is refused.
* `AbortedWalkStaysCancelled`, `CancelledRowsStay`, `RowsMatchTheWalk`: `AbortedStaysCancelled`, `CancelsWin` and
  `OutcomesMatch` of `Indexer_proofs`, by `StatementsImplementTool`. So the safety of the tool is proved at the
  granularity of SQL statements, with any number of servers on the file. `LiveHasWorker` and
  `CancelsAreWatched` do not carry over: they exclude faults, and the refinement is to the `Indexer` with
  faults, which is how it allows a status that the worker or the monitor has read to change before the read returns.

`ToolRoundTrip_proofs` is for any candidates, ids and bound on attempts.

* `RequestFacts` has the types of what is sent; `ServeCases` and `SendCases` reduce the steps to what they do to `step`, `reply` and `store`.
* `AnswersTellTheEffect`: by `EffectInv`, which adds that an attempt that is neither answered nor lost
  has stored nothing.
* `HandlesAreForChoices`, `HonestRetriesAccepted`: by `ChoiceInv`, on how an attempt with a choice goes and what the
  task is for that it is answered with. It speaks of all attempts, not only of the one the client waits for,
  since the client may take up the next one at any time.
* `OnlySeenIsIndexed`: by `SeenInv`: what a server offers, what a token lists that a server has written and what an
  attempt has found was seen. With it goes `EffectInv`: an attempt that is still running has stored nothing, so
  the request that excuses a task is the one that stored it.

`ConformanceRunner_proofs` is for any registries and ids.

* `VerdictIsTrue`: `Found` says that the runner has found something: a failed case is counted, a suite was not ok, or the
  current answer will not pass. By `VerdictInv`, what is found was `broken`: an answer that meets the
  demand passes every case (`MeetsPasses`). The converse is false, and `ServedInv` has what is left of it: as long as nothing is found,
  the methods of the cases so far have said the right thing. It speaks of the six cases that look at the whole of an
  answer (`Decisive`, `PassesSaysRight`); each method has one. A count that is lost or carried over would break both.
* `LonghaulPasses`: by `GuiltInv`, that something was found exactly if there was a fault, or the
  suite has begun that notices the wrong version or the bad tool: the first case of each notices it.
* `RunIsHarmless`: the run's id is never stored, as it is nobody else's (`RunTaskAssumption`).
* `RunsEnd`: liveness, with `FairRun` stated like `FairTo` of `Indexer_proofs`. `RunnerMoves` says that a case goes from no
  call over a sent one to an answered one and then to the next case or suite, and nothing takes it back;
  each stage is left by a step of the runner or by the timeout (`CaseEnds`), a suite has at most
  four cases (`SuiteEnds`), and there are three suites. No induction is needed, since the scripts are fixed.

The assumptions are those the modules declare: `HomeAssumption`, `NoCallerAssumption`,
finitely many servers, the types of the requests (`RequestsAssumption`: what an array has in the place of `method` is one value
at most), of the registries and of the clients' own lists (`OwnListsAssumption`), distinct threads
(`ThreadsAssumption`), distinct paths (`PathsAssumption`), a fresh id per run (`RunTaskAssumption`), and, where stated,
`Shared`, `ClientsDoNotSettle`, `Undisturbed`, `MonitorsStay` or `NoPauses`. Every safety property of a passing
run is the subject of a theorem. The liveness properties (`CancelStopsWorker`, `EndedWalkSettles`, `MonitorEnds`,
`RunEnds`) are proved from the guarded form of fairness; from `WF_` itself, which is defined with
`ENABLED`, they are only model-checked.

## 6. What could follow

The plan of the first version is done: lifecycle, stores and their refinement; `Indexer`,
`SchemaMigration`, `McpEndpoint`; then `SharedIndexer`, `ToolRoundTrip` and `ConformanceRunner` with their theorems. What
is left is small: if something in the repository comes to call `validate_schema` or to parse
`Message`, the depth check and the classification are worth a module of recursive functions.
If a restarted server comes to look at tasks that were left in `working`, `Indexer` needs a
recovery action, and `LiveTaskHasWorker` can then be stated with crashes.

## 7. Not modelled

* What a power failure takes back of acknowledged statements under
  `synchronous=NORMAL`: it is SQLite's behaviour, and the code does not handle it.
* `validate_schema`, `Message` and `normalize_code`: library functions without state that nothing in
  the repository calls outside tests.
* `ServerState` and `serve`, which only wire the parts together.
* Formatting of messages, logging, `_meta`, trace context and unknown fields (the SQLite table
  drops them), the order of the tool list, the contents of files, the counts of a walk and which entries it passes over, command line
  parsing, axum and tokio themselves, and the plain serde types.
