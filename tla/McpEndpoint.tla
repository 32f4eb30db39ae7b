---------------------------- MODULE McpEndpoint ----------------------------
(***************************************************************************)
(* POST /mcp: the way of a request through the layers that router::build   *)
(* stacks (longhaul-server/src/router.rs), outermost first:                *)
(*                                                                         *)
(*   mcp_method_check > mcp_response_headers > Json extractor > dispatch   *)
(*                                                                         *)
(* and back.  Between two stages a request can wait, for its body or for   *)
(* the runtime, while others proceed; its client can go away, and then     *)
(* the handler's future is dropped.  Requests share nothing but the store. *)
(* An operation of the store is one step, as on one server it is.          *)
(***************************************************************************)
EXTENDS TaskLifecycle, Naturals, Sequences

CONSTANTS Clients,    \* the connections; each sends one request at a time
          Ids,        \* task ids
          Tools,      \* the names in the registry
          Requests,   \* the requests that clients send
          Faults,     \* whether tools and the store can fail
          NoRequest, NoHandle

Methods == {"server/discover", "tools/list", "tools/call", "tasks/get",
            "tasks/update", "tasks/cancel", "other"}

\* What the layers can tell of a request.  methods lists the values under the
\* key "method" of an object body, in order; asValue and asRequest say whether
\* the body parses as a serde_json::Value and, but for its methods, as a Request.
\* The second does not imply the first: fields that Request does not have are
\* skipped without being built.  The derived Request can also be read from an
\* array of its four fields; methods then is what stands in method's place.
RequestType ==
    [version : {"current", "other", "none"},
     header : Methods \cup {"none", "unreadable"},
     size : {"fits", "over2MB", "over4MB"},
     form : {"object", "array"},
     methods : Seq(Methods \cup {"notString"}),
     asValue : BOOLEAN,
     asRequest : BOOLEAN,
     params : {"valid", "invalid"},
     tool : Tools \cup {"unknown"},
     id : Ids,
     to : TaskStatus]

ASSUME RequestsAssumption ==
    /\ Requests \subseteq RequestType /\ NoRequest \notin RequestType
    /\ \A r \in Requests : r.form = "array" => Len(r.methods) <= 1
ASSUME ToolsAssumption == "unknown" \notin Tools
ASSUME FaultsAssumption == Faults \in BOOLEAN
ASSUME HandleAssumption == NoHandle \notin Ids

\* How a request was answered: by which layer, with which JSON-RPC error, with
\* a handle to which task, and with the version header or not.
AnswerType ==
    [by : {"none", "methodCheck", "extractor", "dispatch"},
     error : {"none", "methodNotFound", "invalidParams", "internal"},
     handle : Ids \cup {NoHandle},
     versioned : BOOLEAN]

NoAnswer == [by |-> "none", error |-> "none", handle |-> NoHandle, versioned |-> FALSE]

VARIABLES stage,     \* the last stage that each client's request has passed
          request,   \* the request that is being served
          answer,
          store,     \* the status of each task
          changed,   \* history: what the request has done to a task
          fault,     \* history: who failed while the request was handled
          handed     \* history: the ids in the answers that clients received

vars == <<stage, request, answer, store, changed, fault, handed>>

TypeOK ==
    /\ stage \in [Clients -> {"idle", "received", "checked", "extracted",
                              "handled", "answered"}]
    /\ request \in [Clients -> RequestType \cup {NoRequest}]
    /\ answer \in [Clients -> AnswerType]
    /\ store \in [Ids -> TaskStatus \cup {NoTask}]
    /\ changed \in [Clients -> {"nothing", "created", "moved"}]
    /\ fault \in [Clients -> {"none", "tool", "store"}]
    /\ handed \in SUBSET Ids
    /\ \A c \in Clients :
        /\ stage[c] # "idle" <=> request[c] # NoRequest
        /\ IF stage[c] \in {"handled", "answered"}
             THEN answer[c].by # "none" ELSE answer[c] = NoAnswer

Init ==
    /\ stage = [c \in Clients |-> "idle"]
    /\ request = [c \in Clients |-> NoRequest]
    /\ answer = [c \in Clients |-> NoAnswer]
    /\ store = [id \in Ids |-> NoTask]
    /\ changed = [c \in Clients |-> "nothing"]
    /\ fault = [c \in Clients |-> "none"]
    /\ handed = {}

-----------------------------------------------------------------------------
Goto(c, s) == stage' = [stage EXCEPT ![c] = s]

\* The request goes on to the next layer.
Pass(c, s) == Goto(c, s) /\ UNCHANGED answer

\* The request turns back.
Answer(c, s, by, error) ==
    /\ Goto(c, s)
    /\ answer' = [answer EXCEPT ![c].by = by, ![c].error = error]

\* What only dispatch changes, and what only the end of a request does.
NoEffect == UNCHANGED <<store, changed, fault>>
SameClient == UNCHANGED <<request, handed>>

Receive(c, r) ==
    /\ stage[c] = "idle"
    /\ Pass(c, "received")
    /\ request' = [request EXCEPT ![c] = r]
    /\ NoEffect
    /\ UNCHANGED handed

-----------------------------------------------------------------------------
\* mcp_method_check.

HeaderReadable(r) == r.header \notin {"none", "unreadable"}

\* The method the check finds in the body: of two the later, as in a Value, and
\* none in an array, which has no keys.
BodyMethod(r) ==
    IF r.form = "object" /\ r.asValue /\ r.methods # <<>>
      THEN r.methods[Len(r.methods)] ELSE "notString"

\* The header disagrees with the body, as far as the check can read both.
Disagrees(r) ==
    HeaderReadable(r) /\ BodyMethod(r) \notin {"notString", r.header}

RejectedByCheck(r) ==
    \/ r.version # "current"
    \/ HeaderReadable(r) /\ r.size = "over4MB"
    \/ Disagrees(r)

MethodCheck(c) ==
    /\ stage[c] = "received"
    /\ \/ /\ RejectedByCheck(request[c])
          /\ Answer(c, "answered", "methodCheck", "none")
       \/ /\ ~RejectedByCheck(request[c])
          /\ Pass(c, "checked")
    /\ NoEffect
    /\ SameClient

-----------------------------------------------------------------------------
\* Mutant: the first of several methods counts.
IsRequestLenient(r) ==
    /\ r.size = "fits"
    /\ r.asRequest
    /\ Len(r.methods) >= 1
    /\ r.methods[1] # "notString"

\* Json<Request>: a body over the default limit, one that is not a Request,
\* one with no method, two or one that is no string is refused.  Whether the
\* Request is written as an object or as an array makes no difference.
IsRequest(r) ==
    /\ r.size = "fits"
    /\ r.asRequest
    /\ Len(r.methods) = 1
    /\ r.methods[1] # "notString"

Extract(c) ==
    /\ stage[c] = "checked"
    /\ \/ /\ IsRequest(request[c])
          /\ Pass(c, "extracted")
       \/ /\ ~IsRequest(request[c])
          /\ Answer(c, "handled", "extractor", "none")
    /\ NoEffect
    /\ SameClient

-----------------------------------------------------------------------------
\* dispatch: one handler per method.

Method(r) == r.methods[1]

\* The request is at the handler of method m, with params that it can read.
Handles(c, m) ==
    /\ stage[c] = "extracted"
    /\ Method(request[c]) = m
    /\ request[c].params = "valid"
    /\ SameClient

Succeed(c) == Answer(c, "handled", "dispatch", "none")
Fail(c, error) == Answer(c, "handled", "dispatch", error)

Unroutable(c) ==
    /\ stage[c] = "extracted"
    /\ Method(request[c]) = "other"
    /\ Fail(c, "methodNotFound")
    /\ NoEffect
    /\ SameClient

\* server/discover does not look at the params.
Discover(c) ==
    /\ stage[c] = "extracted"
    /\ Method(request[c]) = "server/discover"
    /\ Succeed(c)
    /\ NoEffect
    /\ SameClient

\* params_as fails, or the name of the tool is not in the registry.
BadParams(c) ==
    /\ stage[c] = "extracted"
    /\ Method(request[c]) \notin {"other", "server/discover"}
    /\ \/ request[c].params = "invalid"
       \/ Method(request[c]) = "tools/call" /\ request[c].tool \notin Tools
    /\ Fail(c, "invalidParams")
    /\ NoEffect
    /\ SameClient

ListTools(c) == Handles(c, "tools/list") /\ Succeed(c) /\ NoEffect

\* The store's operation fails for this request.
StoreFault(c) ==
    /\ Faults
    /\ fault' = [fault EXCEPT ![c] = "store"]
    /\ Fail(c, "internal")
    /\ UNCHANGED <<store, changed>>

\* There is no such task, or the lifecycle forbids the transition: errors of
\* the store that are the client's fault.
Refuse(c) == Fail(c, "invalidParams") /\ NoEffect

\* Task id becomes s, for the request of c.
PutTask(c, id, s) ==
    /\ store' = [store EXCEPT ![id] = s]
    /\ changed' = [changed EXCEPT ![c] =
         CASE store[id] = s -> "nothing"
           [] store[id] = NoTask -> "created"
           [] OTHER -> "moved"]

SetTask(c, id, s) == PutTask(c, id, s) /\ UNCHANGED fault

\* The tool returns an error: before it has inserted a task, or after.
ToolError(c, error) ==
    /\ fault' = [fault EXCEPT ![c] = "tool"]
    /\ Fail(c, error)
    /\ \/ UNCHANGED <<store, changed>>
       \/ \E id \in Ids : store[id] = NoTask /\ PutTask(c, id, "working")

\* Mutant: a handle is returned although the insert may have failed.
CallToolInsertIgnored(c) ==
    /\ Handles(c, "tools/call")
    /\ request[c].tool \in Tools
    /\ \E id \in Ids :
         /\ store[id] = NoTask
         /\ SetTask(c, id, "working") \/ (Faults /\ NoEffect)
         /\ Goto(c, "handled")
         /\ answer' = [answer EXCEPT ![c].by = "dispatch", ![c].handle = id]

\* A tool answers with content or a question, or with a task it has inserted
\* under a fresh id, or fails: InvalidParams is the client's fault, all other
\* errors are answered with an internal error.
CallTool(c) ==
    /\ Handles(c, "tools/call")
    /\ request[c].tool \in Tools
    /\ \/ Succeed(c) /\ NoEffect
       \/ \E id \in Ids :
            /\ store[id] = NoTask
            /\ SetTask(c, id, "working")
            /\ Goto(c, "handled")
            /\ answer' = [answer EXCEPT ![c].by = "dispatch", ![c].handle = id]
       \/ ToolError(c, "invalidParams")
       \/ Faults /\ ToolError(c, "internal")
       \/ StoreFault(c)

GetTask(c) ==
    /\ Handles(c, "tasks/get")
    /\ \/ store[request[c].id] = NoTask /\ Refuse(c)
       \/ store[request[c].id] # NoTask /\ Succeed(c) /\ NoEffect
       \/ StoreFault(c)

\* Mutant: the status is set before the transition is judged.
UpdateTaskEagerly(c) ==
    /\ Handles(c, "tasks/update")
    /\ LET id == request[c].id
           to == request[c].to
       IN  \/ /\ store[id] # NoTask
              /\ SetTask(c, id, to)
              /\ IF CanTransitionTo(store[id], to)
                   THEN Succeed(c) ELSE Fail(c, "invalidParams")
           \/ /\ store[id] = NoTask
              /\ Refuse(c)
           \/ StoreFault(c)

UpdateTask(c) ==
    /\ Handles(c, "tasks/update")
    /\ LET id == request[c].id
           to == request[c].to
       IN  \/ /\ CanTransitionTo(store[id], to)
              /\ SetTask(c, id, to)
              /\ Succeed(c)
           \/ /\ ~CanTransitionTo(store[id], to)
              /\ Refuse(c)
           \/ StoreFault(c)

\* Mutant: a cancel of a terminal task is answered like any illegal transition.
CancelTaskOnce(c) ==
    /\ Handles(c, "tasks/cancel")
    /\ LET id == request[c].id
       IN  \/ /\ CanTransitionTo(store[id], "cancelled")
              /\ SetTask(c, id, "cancelled")
              /\ Succeed(c)
           \/ /\ ~CanTransitionTo(store[id], "cancelled")
              /\ Refuse(c)
           \/ StoreFault(c)

CancelTask(c) ==
    /\ Handles(c, "tasks/cancel")
    /\ LET id == request[c].id
       IN  \/ /\ store[id] # NoTask
              /\ SetTask(c, id, Cancel(store[id]))
              /\ Succeed(c)
           \/ /\ store[id] = NoTask
              /\ Refuse(c)
           \/ StoreFault(c)

Dispatch(c) ==
    \/ Unroutable(c)
    \/ Discover(c)
    \/ BadParams(c)
    \/ ListTools(c)
    \/ CallTool(c)
    \/ GetTask(c)
    \/ UpdateTask(c)
    \/ CancelTask(c)

-----------------------------------------------------------------------------
\* Mutant: the response is built anew with the header, and its body is lost.
AttachHeadersAnew(c) ==
    /\ stage[c] = "handled"
    /\ Goto(c, "answered")
    /\ answer' = [answer EXCEPT ![c] = [NoAnswer EXCEPT !.versioned = TRUE]]
    /\ NoEffect
    /\ SameClient

\* mcp_response_headers: whatever comes out of dispatch or the extractor.
AttachHeaders(c) ==
    /\ stage[c] = "handled"
    /\ Goto(c, "answered")
    /\ answer' = [answer EXCEPT ![c].versioned = TRUE]
    /\ NoEffect
    /\ SameClient

\* Nothing is left of a request that has ended.
Forget(c) ==
    /\ Goto(c, "idle")
    /\ request' = [request EXCEPT ![c] = NoRequest]
    /\ answer' = [answer EXCEPT ![c] = NoAnswer]
    /\ changed' = [changed EXCEPT ![c] = "nothing"]
    /\ fault' = [fault EXCEPT ![c] = "none"]
    /\ UNCHANGED store

\* The client receives its answer.
Respond(c) ==
    /\ stage[c] = "answered"
    /\ Forget(c)
    /\ handed' = handed \cup ({answer[c].handle} \ {NoHandle})

\* The client goes away, at any stage; what was done stays done.
Drop(c) ==
    /\ stage[c] # "idle"
    /\ Forget(c)
    /\ UNCHANGED handed

Next ==
    \E c \in Clients :
        \/ \E r \in Requests : Receive(c, r)
        \/ MethodCheck(c)
        \/ Extract(c)
        \/ Dispatch(c)
        \/ AttachHeaders(c)
        \/ Respond(c)
        \/ Drop(c)

Spec == Init /\ [][Next]_vars

-----------------------------------------------------------------------------
\* A request that was refused, by whichever layer and for whichever reason, has
\* moved no task, so a client may treat an error as "not done"; and only a tool
\* that fails after it has inserted a task leaves one that nobody was told of.
IsRefusal(a) == a.by \in {"methodCheck", "extractor"} \/ a.error # "none"
RefusalsMoveNothing ==
    \A c \in Clients : IsRefusal(answer[c]) =>
        changed[c] = "nothing" \/ (changed[c] = "created" /\ fault[c] = "tool")

\* What reaches dispatch has the right version, and where the check finds a
\* method in the body to compare with the header, that method is the one that is
\* dispatched: the check and the extractor read the body each in its own way.
\* Two kinds of body are dispatched uncompared, whatever the header says: an
\* array, and an object that does not parse as a Value.
DispatchedWasChecked ==
    \A c \in Clients :
        stage[c] = "extracted" \/ answer[c].by = "dispatch" =>
            /\ request[c].version = "current"
            /\ \/ ~HeaderReadable(request[c])
               \/ request[c].form = "array" \/ ~request[c].asValue
               \/ Method(request[c]) = request[c].header

\* A client that has been handed a task never hears that there is none: a
\* handle is only sent once the task is stored, and no task is ever removed,
\* whichever requests are dropped in between.
HandedTasksAreKnown ==
    \A id \in Ids :
        id \in handed \/ (\E c \in Clients : answer[c].handle = id) => store[id] # NoTask

\* A client that repeats a cancel, because its answer was lost or another
\* client was faster, gets a success as long as the store works.
CancelIsIdempotent ==
    [][\A c \in Clients :
          /\ Dispatch(c)
          /\ Method(request[c]) = "tasks/cancel" /\ request[c].params = "valid"
          /\ request[c].id \in handed
          => answer'[c].error \in {"none", "internal"}]_vars
=============================================================================
