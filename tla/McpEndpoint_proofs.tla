------------------------- MODULE McpEndpoint_proofs -------------------------
(***************************************************************************)
(* Theorems about McpEndpoint, for any clients, ids, tools and requests.   *)
(***************************************************************************)
EXTENDS McpEndpoint, TLAPS

\* The answer of client c becomes one by the given layer; others keep theirs.
AnsweredBy(c, by) ==
    /\ answer' \in [Clients -> AnswerType]
    /\ \A d \in Clients \ {c} : answer'[d] = answer[d]
    /\ answer'[c].by = by

\* A tool that fails may have inserted a task.
FailedInsert(c) ==
    /\ fault' = [fault EXCEPT ![c] = "tool"]
    /\ \E id \in Ids : store[id] = NoTask /\ PutTask(c, id, "working")

\* What a step of any handler does: the request is answered by dispatch, and
\* nothing has happened, or one task was set, or something has failed.
HandlerStep(c) ==
    /\ stage[c] = "extracted"
    /\ Goto(c, "handled")
    /\ SameClient
    /\ AnsweredBy(c, "dispatch")
    /\ \/ /\ NoEffect
          /\ answer'[c].handle = answer[c].handle
       \/ /\ \E id \in Ids, s \in TaskStatus :
               SetTask(c, id, s) /\ answer'[c].handle \in {id, answer[c].handle}
          /\ answer'[c].error = "none"
       \/ /\ \/ /\ \E f \in {"tool", "store"} : fault' = [fault EXCEPT ![c] = f]
                /\ UNCHANGED <<store, changed>>
             \/ FailedInsert(c)
          /\ answer'[c].handle = answer[c].handle

\* Answer replaces the layer and the error and keeps the handle.
LEMMA AnswerKeepsHandle ==
    ASSUME TypeOK, NEW c \in Clients, NEW s,
           NEW by \in {"methodCheck", "extractor", "dispatch"},
           NEW error \in {"none", "methodNotFound", "invalidParams", "internal"},
           Answer(c, s, by, error)
    PROVE  /\ AnsweredBy(c, by)
           /\ answer'[c].error = error
           /\ answer'[c].handle = answer[c].handle
           /\ answer'[c].versioned = answer[c].versioned
<1>1. answer \in [Clients -> AnswerType]
    BY DEF TypeOK
<1>2. answer' = [answer EXCEPT ![c] = [answer[c] EXCEPT !.by = by, !.error = error]]
    BY <1>1 DEF Answer, AnswerType
<1>3. [answer[c] EXCEPT !.by = by, !.error = error] \in AnswerType
    BY <1>1 DEF AnswerType
<1>4. \A d \in Clients \ {c} : answer'[d] = answer[d]
    BY <1>1, <1>2
<1>5. answer'[c] = [answer[c] EXCEPT !.by = by, !.error = error]
    BY <1>1, <1>2
<1>6. answer[c] \in AnswerType
    BY <1>1
<1> QED
    BY <1>1, <1>2, <1>3, <1>4, <1>5, <1>6 DEF AnsweredBy, AnswerType

\* A failing store is one of the failures of HandlerStep.
LEMMA StoreFaultIsHandlerStep ==
    ASSUME TypeOK, NEW c \in Clients, StoreFault(c), SameClient, stage[c] = "extracted"
    PROVE  HandlerStep(c)
    BY AnswerKeepsHandle DEF StoreFault, Fail, HandlerStep, Answer

\* The handlers that neither change anything nor fail for a fault.
LEMMA PureHandlers ==
    ASSUME TypeOK, NEW c \in Clients,
           Unroutable(c) \/ Discover(c) \/ BadParams(c) \/ ListTools(c)
    PROVE  HandlerStep(c)
<1>1. PICK e \in {"none", "methodNotFound", "invalidParams"} :
          Answer(c, "handled", "dispatch", e)
    BY DEF Unroutable, Discover, BadParams, ListTools, Succeed, Fail
<1>2. stage[c] = "extracted" /\ NoEffect /\ SameClient
    BY DEF Unroutable, Discover, BadParams, ListTools, Handles
<1> QED
    BY <1>1, <1>2, AnswerKeepsHandle DEF HandlerStep, Answer

\* The handlers of the task methods.
LEMMA TaskHandlers ==
    ASSUME TypeOK, NEW c \in Clients, GetTask(c) \/ UpdateTask(c) \/ CancelTask(c)
    PROVE  HandlerStep(c)
<1> USE DEF Handles
<1>1. request[c] \in RequestType
    BY DEF TypeOK, GetTask, UpdateTask, CancelTask
<1>2. request[c].id \in Ids /\ request[c].to \in TaskStatus
    BY <1>1 DEF RequestType
<1>3. stage[c] = "extracted" /\ SameClient
    BY DEF GetTask, UpdateTask, CancelTask
<1>4. CASE StoreFault(c)
    BY <1>3, <1>4, StoreFaultIsHandlerStep
<1>5. CASE NoEffect /\ (Succeed(c) \/ Fail(c, "invalidParams"))
    <2>1. PICK e \in {"none", "invalidParams"} : Answer(c, "handled", "dispatch", e)
        BY <1>5 DEF Succeed, Fail
    <2> QED
        BY <1>3, <1>5, <2>1, AnswerKeepsHandle DEF HandlerStep, Answer
<1>6. CASE \E s \in TaskStatus : SetTask(c, request[c].id, s) /\ Succeed(c)
    <2>1. Answer(c, "handled", "dispatch", "none")
        BY <1>6 DEF Succeed
    <2>2. answer'[c].error = "none" /\ answer'[c].handle = answer[c].handle
          /\ AnsweredBy(c, "dispatch")
        BY <2>1, AnswerKeepsHandle
    <2> QED
        BY <1>2, <1>3, <1>6, <2>1, <2>2 DEF HandlerStep, Answer
<1>7. store[request[c].id] # NoTask => Cancel(store[request[c].id]) \in TaskStatus
    BY <1>2 DEF TypeOK, Cancel, IsTerminal, TaskStatus
<1> QED
    BY <1>2, <1>4, <1>5, <1>6, <1>7 DEF GetTask, UpdateTask, CancelTask, Refuse

\* A call of a tool.
LEMMA ToolHandler ==
    ASSUME TypeOK, NEW c \in Clients, CallTool(c)
    PROVE  HandlerStep(c)
<1>1. stage[c] = "extracted" /\ SameClient
    BY DEF CallTool, Handles
<1>2. CASE NoEffect /\ Succeed(c)
    BY <1>1, <1>2, AnswerKeepsHandle DEF HandlerStep, Succeed, Answer
<1>3. ASSUME NEW id \in Ids, SetTask(c, id, "working"), Goto(c, "handled"),
             answer' = [answer EXCEPT ![c].by = "dispatch", ![c].handle = id]
      PROVE  HandlerStep(c)
    <2>1. answer[c] = NoAnswer /\ answer \in [Clients -> AnswerType]
        BY <1>1 DEF TypeOK
    <2>2. [answer[c] EXCEPT !.by = "dispatch", !.handle = id] \in AnswerType
        BY <2>1 DEF AnswerType
    <2>3. answer' = [answer EXCEPT ![c] = [answer[c] EXCEPT !.by = "dispatch", !.handle = id]]
        BY <1>3, <2>1 DEF AnswerType
    <2>4. AnsweredBy(c, "dispatch")
        BY <2>1, <2>2, <2>3 DEF AnsweredBy, NoAnswer
    <2>5. answer'[c].error = "none" /\ answer'[c].handle = id
        BY <2>1, <2>3 DEF NoAnswer
    <2>6. "working" \in TaskStatus
        BY DEF TaskStatus
    <2> QED
        BY <1>1, <1>3, <2>4, <2>5, <2>6 DEF HandlerStep
<1>4. ASSUME NEW e \in {"invalidParams", "internal"}, ToolError(c, e)
      PROVE  HandlerStep(c)
    <2>1. Answer(c, "handled", "dispatch", e)
        BY <1>4 DEF ToolError, Fail
    <2>2. AnsweredBy(c, "dispatch") /\ answer'[c].handle = answer[c].handle
        BY <2>1, AnswerKeepsHandle
    <2>3. \/ /\ \E f \in {"tool", "store"} : fault' = [fault EXCEPT ![c] = f]
             /\ UNCHANGED <<store, changed>>
          \/ FailedInsert(c)
        BY <1>4 DEF ToolError, FailedInsert
    <2> QED
        BY <1>1, <2>1, <2>2, <2>3 DEF HandlerStep, Answer
<1>5. CASE StoreFault(c)
    BY <1>1, <1>5, StoreFaultIsHandlerStep
<1> QED
    BY <1>2, <1>3, <1>4, <1>5 DEF CallTool

LEMMA DispatchIsHandlerStep ==
    ASSUME TypeOK, NEW c \in Clients, Dispatch(c)
    PROVE  HandlerStep(c)
    BY PureHandlers, TaskHandlers, ToolHandler DEF Dispatch

-----------------------------------------------------------------------------
\* Type correctness: a client has a request exactly while one is served, and an
\* answer exactly after a layer has given one.
LEMMA TypeInit == Init => TypeOK
<1> SUFFICES ASSUME Init PROVE TypeOK
    OBVIOUS
<1>1. NoAnswer \in AnswerType
    BY DEF NoAnswer, AnswerType
<1>2. \A c \in Clients :
        stage[c] = "idle" /\ request[c] = NoRequest /\ answer[c] = NoAnswer
    BY DEF Init
<1>3. /\ stage \in [Clients -> {"idle", "received", "checked", "extracted",
                                "handled", "answered"}]
      /\ request \in [Clients -> RequestType \cup {NoRequest}]
      /\ answer \in [Clients -> AnswerType]
      /\ store \in [Ids -> TaskStatus \cup {NoTask}]
      /\ changed \in [Clients -> {"nothing", "created", "moved"}]
      /\ fault \in [Clients -> {"none", "tool", "store"}]
      /\ handed \in SUBSET Ids
    BY <1>1 DEF Init
<1> QED
    BY <1>2, <1>3 DEF TypeOK

\* A handler's step keeps the types.
LEMMA HandlerType ==
    ASSUME TypeOK, NEW c \in Clients, HandlerStep(c)
    PROVE  TypeOK'
<1> USE DEF HandlerStep, AnsweredBy, Goto, SameClient
<1>1. /\ store' \in [Ids -> TaskStatus \cup {NoTask}]
      /\ changed' \in [Clients -> {"nothing", "created", "moved"}]
      /\ fault' \in [Clients -> {"none", "tool", "store"}]
    <2>1. CASE NoEffect
        BY <2>1 DEF TypeOK, NoEffect
    <2>2. ASSUME NEW id \in Ids, NEW s \in TaskStatus, SetTask(c, id, s)
          PROVE  /\ store' \in [Ids -> TaskStatus \cup {NoTask}]
                 /\ changed' \in [Clients -> {"nothing", "created", "moved"}]
                 /\ fault' \in [Clients -> {"none", "tool", "store"}]
        BY <2>2 DEF TypeOK, SetTask, PutTask
    <2>3. CASE /\ \E f \in {"tool", "store"} : fault' = [fault EXCEPT ![c] = f]
               /\ UNCHANGED <<store, changed>>
        BY <2>3 DEF TypeOK
    <2>4. CASE FailedInsert(c)
        BY <2>4 DEF TypeOK, FailedInsert, PutTask, TaskStatus
    <2> QED
        BY <2>1, <2>2, <2>3, <2>4
<1>2. /\ stage' \in [Clients -> {"idle", "received", "checked", "extracted",
                                 "handled", "answered"}]
      /\ request' \in [Clients -> RequestType \cup {NoRequest}]
      /\ answer' \in [Clients -> AnswerType]
      /\ handed' \in SUBSET Ids
    BY DEF TypeOK
<1>3. ASSUME NEW d \in Clients
      PROVE  /\ stage'[d] # "idle" <=> request'[d] # NoRequest
             /\ IF stage'[d] \in {"handled", "answered"}
                  THEN answer'[d].by # "none" ELSE answer'[d] = NoAnswer
    <2>1. CASE d = c
        BY <2>1 DEF TypeOK
    <2>2. CASE d # c
        BY <2>2 DEF TypeOK
    <2> QED
        BY <2>1, <2>2
<1> QED
    BY <1>1, <1>2, <1>3 DEF TypeOK

\* The end of a request keeps the types.
LEMMA ForgetType ==
    ASSUME TypeOK, NEW c \in Clients, Forget(c), handed' \in SUBSET Ids
    PROVE  TypeOK'
<1> USE DEF Forget, Goto
<1>1. NoAnswer \in AnswerType
    BY DEF NoAnswer, AnswerType
<1>2. /\ stage' \in [Clients -> {"idle", "received", "checked", "extracted",
                                 "handled", "answered"}]
      /\ request' \in [Clients -> RequestType \cup {NoRequest}]
      /\ answer' \in [Clients -> AnswerType]
      /\ store' \in [Ids -> TaskStatus \cup {NoTask}]
      /\ changed' \in [Clients -> {"nothing", "created", "moved"}]
      /\ fault' \in [Clients -> {"none", "tool", "store"}]
    BY <1>1 DEF TypeOK
<1>3. ASSUME NEW d \in Clients
      PROVE  /\ stage'[d] # "idle" <=> request'[d] # NoRequest
             /\ IF stage'[d] \in {"handled", "answered"}
                  THEN answer'[d].by # "none" ELSE answer'[d] = NoAnswer
    <2>1. CASE d = c
        BY <2>1 DEF TypeOK
    <2>2. CASE d # c
        BY <2>2 DEF TypeOK
    <2> QED
        BY <2>1, <2>2
<1> QED
    BY <1>2, <1>3 DEF TypeOK

\* A request that moves on, or turns back with an answer, keeps the types.
LEMMA StageType ==
    ASSUME TypeOK, NEW c \in Clients, stage[c] # "idle", SameClient, NoEffect,
           \/ \E s \in {"checked", "extracted"} :
                Pass(c, s) /\ stage[c] \in {"received", "checked"}
           \/ \E s \in {"handled", "answered"}, by \in {"methodCheck", "extractor"} :
                Answer(c, s, by, "none")
    PROVE  TypeOK'
<1> USE DEF SameClient, NoEffect
<1>1. /\ store' \in [Ids -> TaskStatus \cup {NoTask}]
      /\ request' \in [Clients -> RequestType \cup {NoRequest}]
      /\ changed' \in [Clients -> {"nothing", "created", "moved"}]
      /\ fault' \in [Clients -> {"none", "tool", "store"}]
      /\ handed' \in SUBSET Ids
    BY DEF TypeOK
<1>2. CASE \E s \in {"checked", "extracted"} :
             Pass(c, s) /\ stage[c] \in {"received", "checked"}
    <2>1. PICK s \in {"checked", "extracted"} :
            stage' = [stage EXCEPT ![c] = s] /\ UNCHANGED answer
        BY <1>2 DEF Pass, Goto
    <2>2. answer[c] = NoAnswer
        BY <1>2 DEF TypeOK
    <2> QED
        BY <1>1, <2>1, <2>2 DEF TypeOK
<1>3. ASSUME NEW s \in {"handled", "answered"}, NEW by \in {"methodCheck", "extractor"},
             Answer(c, s, by, "none")
      PROVE  TypeOK'
    <2>1. AnsweredBy(c, by)
        BY <1>3, AnswerKeepsHandle
    <2>2. stage' = [stage EXCEPT ![c] = s]
        BY <1>3 DEF Answer, Goto
    <2>3. ASSUME NEW d \in Clients
          PROVE  /\ stage'[d] # "idle" <=> request'[d] # NoRequest
                 /\ IF stage'[d] \in {"handled", "answered"}
                      THEN answer'[d].by # "none" ELSE answer'[d] = NoAnswer
        <3>1. CASE d = c
            BY <2>1, <2>2, <3>1 DEF TypeOK, AnsweredBy
        <3>2. CASE d # c
            BY <2>1, <2>2, <3>2 DEF TypeOK, AnsweredBy
        <3> QED
            BY <3>1, <3>2
    <2>4. stage' \in [Clients -> {"idle", "received", "checked", "extracted",
                                  "handled", "answered"}]
        BY <2>2 DEF TypeOK
    <2> QED
        BY <1>1, <2>1, <2>3, <2>4 DEF TypeOK, AnsweredBy
<1> QED
    BY <1>2, <1>3

LEMMA TypeStep ==
    ASSUME TypeOK, [Next]_vars
    PROVE  TypeOK'
<1>1. ASSUME NEW c \in Clients, NEW r \in Requests, Receive(c, r)
      PROVE  TypeOK'
    <2>1. r \in RequestType /\ r # NoRequest
        BY RequestsAssumption
    <2>2. /\ stage' = [stage EXCEPT ![c] = "received"]
          /\ request' = [request EXCEPT ![c] = r]
          /\ UNCHANGED <<answer, handed, store, changed, fault>>
          /\ stage[c] = "idle"
        BY <1>1 DEF Receive, Pass, Goto, NoEffect
    <2> QED
        BY <2>1, <2>2 DEF TypeOK
<1>2. ASSUME NEW c \in Clients, MethodCheck(c) PROVE TypeOK'
    BY <1>2, StageType DEF MethodCheck
<1>3. ASSUME NEW c \in Clients, Extract(c) PROVE TypeOK'
    BY <1>3, StageType DEF Extract
<1>4. ASSUME NEW c \in Clients, Dispatch(c) PROVE TypeOK'
    BY <1>4, DispatchIsHandlerStep, HandlerType
<1>5. ASSUME NEW c \in Clients, AttachHeaders(c) PROVE TypeOK'
    <2>0. answer[c] \in AnswerType
        BY DEF TypeOK
    <2>1. [answer[c] EXCEPT !.versioned = TRUE] \in AnswerType
        BY <2>0 DEF AnswerType
    <2>2. [answer[c] EXCEPT !.versioned = TRUE].by # "none"
        BY <1>5 DEF AttachHeaders, TypeOK, AnswerType
    <2>3. answer' = [answer EXCEPT ![c] = [answer[c] EXCEPT !.versioned = TRUE]]
        BY <1>5 DEF AttachHeaders, TypeOK, AnswerType
    <2>4. stage[c] = "handled" /\ stage' = [stage EXCEPT ![c] = "answered"]
          /\ UNCHANGED <<request, handed, store, changed, fault>>
        BY <1>5 DEF AttachHeaders, Goto, NoEffect, SameClient
    <2>5. ASSUME NEW d \in Clients
          PROVE  /\ stage'[d] # "idle" <=> request'[d] # NoRequest
                 /\ IF stage'[d] \in {"handled", "answered"}
                      THEN answer'[d].by # "none" ELSE answer'[d] = NoAnswer
        <3>1. CASE d = c
            BY <2>2, <2>3, <2>4, <3>1 DEF TypeOK
        <3>2. CASE d # c
            BY <2>3, <2>4, <3>2 DEF TypeOK
        <3> QED
            BY <3>1, <3>2
    <2>6. answer' \in [Clients -> AnswerType]
        BY <2>1, <2>3 DEF TypeOK
    <2> QED
        BY <2>4, <2>5, <2>6 DEF TypeOK
<1>6. ASSUME NEW c \in Clients, Respond(c) PROVE TypeOK'
    <2>1. handed' \in SUBSET Ids
        BY <1>6 DEF Respond, TypeOK, AnswerType
    <2> QED
        BY <1>6, <2>1, ForgetType DEF Respond
<1>7. ASSUME NEW c \in Clients, Drop(c) PROVE TypeOK'
    <2>1. handed' \in SUBSET Ids
        BY <1>7 DEF Drop, TypeOK
    <2> QED
        BY <1>7, <2>1, ForgetType DEF Drop
<1>8. CASE UNCHANGED vars
    BY <1>8 DEF vars, TypeOK
<1> QED
    BY <1>1, <1>2, <1>3, <1>4, <1>5, <1>6, <1>7, <1>8 DEF Next

\* The types of the endpoint, for any clients and requests.
THEOREM TypeCorrect == Spec => []TypeOK
    BY TypeInit, TypeStep, PTL DEF Spec

-----------------------------------------------------------------------------
\* What the steps of one client leave alone of another's.
LEMMA OthersKept ==
    ASSUME TypeOK, NEW c \in Clients, NEW d \in Clients, d # c,
           \/ \E r \in Requests : Receive(c, r)
           \/ MethodCheck(c) \/ Extract(c) \/ Dispatch(c) \/ AttachHeaders(c)
           \/ Respond(c) \/ Drop(c)
    PROVE  /\ stage'[d] = stage[d] /\ request'[d] = request[d] /\ answer'[d] = answer[d]
           /\ changed'[d] = changed[d] /\ fault'[d] = fault[d]
<1>1. ASSUME HandlerStep(c)
      PROVE  /\ stage'[d] = stage[d] /\ request'[d] = request[d] /\ answer'[d] = answer[d]
             /\ changed'[d] = changed[d] /\ fault'[d] = fault[d]
    <2>1. stage'[d] = stage[d] /\ request'[d] = request[d] /\ answer'[d] = answer[d]
        BY <1>1 DEF HandlerStep, AnsweredBy, Goto, SameClient, TypeOK
    <2>2. changed'[d] = changed[d] /\ fault'[d] = fault[d]
        BY <1>1 DEF HandlerStep, FailedInsert, NoEffect, SetTask, PutTask, TypeOK
    <2> QED
        BY <2>1, <2>2
<1>2. CASE ~Dispatch(c)
    <2>1. stage'[d] = stage[d] /\ request'[d] = request[d]
        BY <1>2 DEF Receive, MethodCheck, Extract, AttachHeaders, Respond, Drop,
                    Forget, Answer, Pass, Goto, SameClient, TypeOK
    <2>2. answer'[d] = answer[d]
        BY <1>2 DEF Receive, MethodCheck, Extract, AttachHeaders, Respond, Drop,
                    Forget, Answer, Pass, TypeOK
    <2>3. changed'[d] = changed[d] /\ fault'[d] = fault[d]
        BY <1>2 DEF Receive, MethodCheck, Extract, AttachHeaders, Respond, Drop,
                    Forget, NoEffect, TypeOK
    <2> QED
        BY <2>1, <2>2, <2>3
<1> QED
    BY <1>1, <1>2, DispatchIsHandlerStep

\* What is known of a request that has come past the check or the extractor.
CheckedOf(c) ==
    /\ stage[c] \in {"checked", "extracted"} \/ answer[c].by \in {"extractor", "dispatch"}
         => ~RejectedByCheck(request[c])
    /\ stage[c] = "extracted" \/ answer[c].by = "dispatch"
         => IsRequest(request[c])

CheckedInv == \A c \in Clients : CheckedOf(c)

\* A step that leaves the request alone keeps what was known of it.
LEMMA CheckedFrame ==
    ASSUME NEW d \in Clients, CheckedOf(d), request'[d] = request[d],
           answer'[d].by = answer[d].by,
           stage'[d] = stage[d] \/ stage'[d] = "answered"
    PROVE  CheckedOf(d)'
<1>1. RejectedByCheck(request[d])' <=> RejectedByCheck(request[d])
    BY DEF RejectedByCheck, Disagrees, HeaderReadable, BodyMethod
<1>2. IsRequest(request[d])' <=> IsRequest(request[d])
    BY DEF IsRequest
<1> QED
    BY <1>1, <1>2 DEF CheckedOf

\* The step that checks a request or makes one of its body.
LEMMA CheckedPass ==
    ASSUME TypeOK, NEW c \in Clients, CheckedInv, MethodCheck(c) \/ Extract(c)
    PROVE  CheckedOf(c)'
<1>1. request'[c] = request[c] /\ answer[c].by = "none"
    BY DEF MethodCheck, Extract, SameClient, TypeOK, NoAnswer
<1>2. RejectedByCheck(request[c])' <=> RejectedByCheck(request[c])
    BY <1>1 DEF RejectedByCheck, Disagrees, HeaderReadable, BodyMethod
<1>3. IsRequest(request[c])' <=> IsRequest(request[c])
    BY <1>1 DEF IsRequest
<1>4. Extract(c) => ~RejectedByCheck(request[c])
    BY DEF Extract, CheckedInv, CheckedOf
<1>5. ASSUME NEW s \in {"handled", "answered"}, NEW by \in {"methodCheck", "extractor"},
             Answer(c, s, by, "none"), by = "extractor" => ~RejectedByCheck(request[c])
      PROVE  CheckedOf(c)'
    <2>1. answer'[c].by = by
        BY <1>5, AnswerKeepsHandle DEF AnsweredBy
    <2>2. stage'[c] = s
        BY <1>5 DEF Answer, Goto, TypeOK
    <2> QED
        BY <1>2, <1>5, <2>1, <2>2 DEF CheckedOf
<1>6. ASSUME NEW s \in {"checked", "extracted"}, Pass(c, s), ~RejectedByCheck(request[c]),
             s = "extracted" => IsRequest(request[c])
      PROVE  CheckedOf(c)'
    <2>1. stage'[c] = s /\ answer'[c].by = "none"
        BY <1>1, <1>6 DEF Pass, Goto, TypeOK
    <2> QED
        BY <1>2, <1>3, <1>6, <2>1 DEF CheckedOf
<1> QED
    BY <1>4, <1>5, <1>6 DEF MethodCheck, Extract

\* Every step keeps it.
LEMMA CheckedStep ==
    ASSUME TypeOK, CheckedInv, [Next]_vars
    PROVE  CheckedInv'
<1> SUFFICES ASSUME NEW d \in Clients PROVE CheckedOf(d)'
    BY DEF CheckedInv
<1>0. CheckedOf(d)
    BY DEF CheckedInv
<1>1. ASSUME NEW c \in Clients, NEW r \in Requests, Receive(c, r), d = c
      PROVE  CheckedOf(d)'
    <2>1. stage'[d] = "received" /\ answer'[d].by = "none"
        BY <1>1 DEF Receive, Pass, Goto, TypeOK, NoAnswer
    <2> QED
        BY <2>1 DEF CheckedOf
<1>2. ASSUME NEW c \in Clients, MethodCheck(c) \/ Extract(c), d = c
      PROVE  CheckedOf(d)'
    BY <1>2, CheckedPass
<1>3. ASSUME NEW c \in Clients, Dispatch(c), d = c
      PROVE  CheckedOf(d)'
    <2>1. HandlerStep(c)
        BY <1>3, DispatchIsHandlerStep
    <2>2. stage[c] = "extracted" /\ request'[c] = request[c]
        BY <2>1 DEF HandlerStep, SameClient
    <2>3. ~RejectedByCheck(request[c]) /\ IsRequest(request[c])
        BY <1>0, <1>3, <2>2 DEF CheckedOf
    <2>4. ~RejectedByCheck(request[c])' /\ IsRequest(request[c])'
        BY <2>2, <2>3 DEF RejectedByCheck, Disagrees, HeaderReadable, BodyMethod, IsRequest
    <2> QED
        BY <1>3, <2>4 DEF CheckedOf
<1>4. ASSUME NEW c \in Clients, AttachHeaders(c), d = c
      PROVE  CheckedOf(d)'
    <2>1. /\ request'[d] = request[d] /\ answer'[d].by = answer[d].by
          /\ stage'[d] = "answered"
        BY <1>4 DEF AttachHeaders, Goto, SameClient, TypeOK, AnswerType
    <2> QED
        BY <1>0, <2>1, CheckedFrame
<1>5. ASSUME NEW c \in Clients, Respond(c) \/ Drop(c), d = c
      PROVE  CheckedOf(d)'
    <2>1. stage'[d] = "idle" /\ answer'[d].by = "none"
        BY <1>5 DEF Respond, Drop, Forget, Goto, TypeOK, NoAnswer
    <2> QED
        BY <2>1 DEF CheckedOf
<1>6. ASSUME NEW c \in Clients, d # c,
             \/ \E r \in Requests : Receive(c, r)
             \/ MethodCheck(c) \/ Extract(c) \/ Dispatch(c) \/ AttachHeaders(c)
             \/ Respond(c) \/ Drop(c)
      PROVE  CheckedOf(d)'
    BY <1>0, <1>6, OthersKept, CheckedFrame
<1>7. CASE UNCHANGED vars
    BY <1>0, <1>7, CheckedFrame DEF vars
<1> QED
    BY <1>1, <1>2, <1>3, <1>4, <1>5, <1>6, <1>7 DEF Next

\* The method that is dispatched is the one that was compared with the header,
\* unless the body is an array or does not parse as a Value: these two kinds of
\* body, and no others, are dispatched uncompared.
THEOREM OnlyCheckedIsDispatched == Spec => []DispatchedWasChecked
<1>1. Init => CheckedInv
    BY DEF Init, CheckedInv, CheckedOf, NoAnswer
<1>2. TypeOK /\ CheckedInv /\ [Next]_vars => CheckedInv'
    BY CheckedStep
<1>3. TypeOK /\ CheckedInv => DispatchedWasChecked
    <2> SUFFICES ASSUME TypeOK, CheckedInv, NEW c \in Clients,
                        stage[c] = "extracted" \/ answer[c].by = "dispatch"
                 PROVE  /\ request[c].version = "current"
                        /\ \/ ~HeaderReadable(request[c])
                           \/ request[c].form = "array" \/ ~request[c].asValue
                           \/ Method(request[c]) = request[c].header
        BY DEF DispatchedWasChecked
    <2>1. ~RejectedByCheck(request[c]) /\ IsRequest(request[c])
        BY DEF CheckedInv, CheckedOf
    <2>2. Len(request[c].methods) = 1 /\ request[c].methods # <<>>
        BY <2>1 DEF IsRequest
    <2>3. request[c] \in RequestType
        <3>1. request[c] # NoRequest
            BY DEF TypeOK, NoAnswer
        <3> QED
            BY <3>1 DEF TypeOK
    <2>4. request[c].form = "object" \/ request[c].form = "array"
        BY <2>3 DEF RequestType
    <2> QED
        BY <2>1, <2>2, <2>4 DEF RejectedByCheck, Disagrees, BodyMethod, IsRequest, Method
<1> QED
    BY <1>1, <1>2, <1>3, TypeCorrect, PTL DEF Spec

-----------------------------------------------------------------------------
\* What the histories say of an unanswered request and of a refusal.
EffectOf(c) ==
    /\ answer[c].by = "none" => changed[c] = "nothing"
    /\ IsRefusal(answer[c]) =>
         changed[c] = "nothing" \/ (changed[c] = "created" /\ fault[c] = "tool")

EffectInv == \A c \in Clients : EffectOf(c)

\* A handler's step.
LEMMA HandlerEffect ==
    ASSUME TypeOK, EffectInv, NEW c \in Clients, HandlerStep(c)
    PROVE  EffectOf(c)'
<1>1. answer[c].by = "none" /\ changed[c] = "nothing"
    BY DEF HandlerStep, TypeOK, NoAnswer, EffectInv, EffectOf
<1>2. answer'[c].by = "dispatch"
    BY DEF HandlerStep, AnsweredBy
<1>3. CASE NoEffect
    BY <1>1, <1>2, <1>3 DEF NoEffect, EffectOf, IsRefusal
<1>4. CASE answer'[c].error = "none"
    BY <1>2, <1>4 DEF EffectOf, IsRefusal
<1>5. CASE UNCHANGED <<store, changed>>
    BY <1>1, <1>2, <1>5 DEF EffectOf, IsRefusal
<1>6. CASE FailedInsert(c)
    <2>1. fault'[c] = "tool" /\ changed'[c] = "created"
        BY <1>6 DEF FailedInsert, PutTask, TypeOK, NoTask
    <2> QED
        BY <1>2, <2>1 DEF EffectOf
<1> QED
    BY <1>3, <1>4, <1>5, <1>6 DEF HandlerStep

\* An answer of one of the outer layers.
LEMMA OuterEffect ==
    ASSUME TypeOK, EffectInv, NEW c \in Clients, NoEffect, answer[c] = NoAnswer,
           NEW s, NEW by \in {"methodCheck", "extractor"}, Answer(c, s, by, "none")
    PROVE  EffectOf(c)'
<1>1. answer'[c].by = by /\ answer'[c].error = "none"
    BY AnswerKeepsHandle DEF AnsweredBy
<1>2. changed[c] = "nothing"
    BY DEF EffectInv, EffectOf, NoAnswer
<1> QED
    BY <1>1, <1>2 DEF EffectOf, NoEffect, IsRefusal

LEMMA EffectStep ==
    ASSUME TypeOK, EffectInv, [Next]_vars
    PROVE  EffectInv'
<1> SUFFICES ASSUME NEW d \in Clients PROVE EffectOf(d)'
    BY DEF EffectInv
<1>0. EffectOf(d)
    BY DEF EffectInv
<1>1. ASSUME NEW c \in Clients, NEW r \in Requests, Receive(c, r), d = c
      PROVE  EffectOf(d)'
    BY <1>0, <1>1 DEF Receive, Pass, NoEffect, EffectOf, IsRefusal
<1>2. ASSUME NEW c \in Clients, MethodCheck(c), d = c PROVE EffectOf(d)'
    <2>1. CASE Answer(c, "answered", "methodCheck", "none")
        BY <1>2, <2>1, OuterEffect DEF MethodCheck, TypeOK
    <2>2. CASE Pass(c, "checked")
        BY <1>0, <1>2, <2>2 DEF MethodCheck, Pass, NoEffect, EffectOf, IsRefusal
    <2> QED
        BY <1>2, <2>1, <2>2 DEF MethodCheck
<1>3. ASSUME NEW c \in Clients, Extract(c), d = c PROVE EffectOf(d)'
    <2>1. CASE Answer(c, "handled", "extractor", "none")
        BY <1>3, <2>1, OuterEffect DEF Extract, TypeOK
    <2>2. CASE Pass(c, "extracted")
        BY <1>0, <1>3, <2>2 DEF Extract, Pass, NoEffect, EffectOf, IsRefusal
    <2> QED
        BY <1>3, <2>1, <2>2 DEF Extract
<1>4. ASSUME NEW c \in Clients, Dispatch(c), d = c PROVE EffectOf(d)'
    BY <1>4, DispatchIsHandlerStep, HandlerEffect
<1>5. ASSUME NEW c \in Clients, AttachHeaders(c), d = c PROVE EffectOf(d)'
    <2>1. answer'[d].by = answer[d].by /\ answer'[d].error = answer[d].error
        BY <1>5 DEF AttachHeaders, TypeOK, AnswerType
    <2> QED
        BY <1>0, <1>5, <2>1 DEF AttachHeaders, NoEffect, EffectOf, IsRefusal
<1>6. ASSUME NEW c \in Clients, Respond(c) \/ Drop(c), d = c PROVE EffectOf(d)'
    BY <1>6 DEF Respond, Drop, Forget, TypeOK, NoAnswer, EffectOf, IsRefusal
<1>7. ASSUME NEW c \in Clients, d # c,
             \/ \E r \in Requests : Receive(c, r)
             \/ MethodCheck(c) \/ Extract(c) \/ Dispatch(c) \/ AttachHeaders(c)
             \/ Respond(c) \/ Drop(c)
      PROVE  EffectOf(d)'
    BY <1>0, <1>7, OthersKept DEF EffectOf, IsRefusal
<1>8. CASE UNCHANGED vars
    BY <1>0, <1>8 DEF vars, EffectOf, IsRefusal
<1> QED
    BY <1>1, <1>2, <1>3, <1>4, <1>5, <1>6, <1>7, <1>8 DEF Next

LEMMA EffectAlways == Spec => []EffectInv
<1>1. Init => EffectInv
    BY DEF Init, EffectInv, EffectOf, NoAnswer, IsRefusal
<1> QED
    BY <1>1, EffectStep, TypeCorrect, PTL DEF Spec

\* An error means that no task was moved, and that none was left behind but by
\* a tool that failed after its insert.
THEOREM RefusalsAreClean == Spec => []RefusalsMoveNothing
<1>1. EffectInv => RefusalsMoveNothing
    BY DEF EffectInv, EffectOf, RefusalsMoveNothing
<1> QED
    BY <1>1, EffectAlways, PTL

-----------------------------------------------------------------------------
\* No task is ever removed.
LEMMA TasksStay ==
    ASSUME TypeOK, [Next]_vars, NEW id \in Ids, store[id] # NoTask
    PROVE  store'[id] # NoTask
<1>1. ASSUME NEW c \in Clients, HandlerStep(c) PROVE store'[id] # NoTask
    BY <1>1 DEF HandlerStep, FailedInsert, NoEffect, SetTask, PutTask, TypeOK, TaskStatus, NoTask
<1>2. ASSUME NEW c \in Clients, ~Dispatch(c), Next,
             \/ \E r \in Requests : Receive(c, r)
             \/ MethodCheck(c) \/ Extract(c) \/ AttachHeaders(c) \/ Respond(c) \/ Drop(c)
      PROVE  store' = store
    BY <1>2 DEF Receive, MethodCheck, Extract, AttachHeaders, Respond, Drop, Forget, NoEffect
<1> QED
    BY <1>1, <1>2, DispatchIsHandlerStep DEF Next, vars

LEMMA HandedStep ==
    ASSUME TypeOK, HandedTasksAreKnown, [Next]_vars
    PROVE  HandedTasksAreKnown'
<1> SUFFICES ASSUME NEW id \in Ids,
                    id \in handed' \/ (\E d \in Clients : answer'[d].handle = id)
             PROVE  store'[id] # NoTask
    BY DEF HandedTasksAreKnown
<1>1. CASE id \in handed \/ (\E d \in Clients : answer[d].handle = id)
    BY <1>1, TasksStay DEF HandedTasksAreKnown
<1>2. ASSUME NEW c \in Clients, Dispatch(c) PROVE store'[id] # NoTask
    <2>1. HandlerStep(c)
        BY <1>2, DispatchIsHandlerStep
    <2>2. PICK d \in Clients : id \in handed \/ answer'[d].handle = id
        BY <2>1 DEF HandlerStep, SameClient
    <2>3. CASE d = c /\ answer'[c].handle = id /\ answer[c].handle # id
        <3>1. PICK i \in Ids, s \in TaskStatus :
                 SetTask(c, i, s) /\ answer'[c].handle \in {i, answer[c].handle}
            BY <2>1, <2>3 DEF HandlerStep
        <3> QED
            BY <2>3, <3>1 DEF SetTask, PutTask, TypeOK, TaskStatus, NoTask
    <2>4. CASE d # c
        BY <1>1, <2>1, <2>2, <2>4 DEF HandlerStep, AnsweredBy
    <2> QED
        BY <1>1, <2>2, <2>3, <2>4
<1>3. ASSUME NEW c \in Clients, Respond(c)
      PROVE  id \in handed \/ (\E d \in Clients : answer[d].handle = id)
    BY <1>3, HandleAssumption DEF Respond, Forget, TypeOK, NoAnswer
<1>4. ASSUME NEW c \in Clients, NEW r \in Requests, Receive(c, r)
      PROVE  id \in handed \/ (\E d \in Clients : answer[d].handle = id)
    BY <1>4 DEF Receive, Pass
<1>5. ASSUME NEW c \in Clients, MethodCheck(c) \/ Extract(c) \/ AttachHeaders(c)
      PROVE  id \in handed \/ (\E d \in Clients : answer[d].handle = id)
    <2>1. handed' = handed
        BY <1>5 DEF MethodCheck, Extract, AttachHeaders, SameClient
    <2>2. ASSUME NEW d \in Clients PROVE answer'[d].handle = answer[d].handle
        <3>1. CASE AttachHeaders(c)
            BY <3>1 DEF AttachHeaders, TypeOK, AnswerType
        <3>2. CASE UNCHANGED answer
            BY <3>2
        <3>3. ASSUME NEW s, NEW by \in {"methodCheck", "extractor"}, Answer(c, s, by, "none")
              PROVE  answer'[d].handle = answer[d].handle
            BY <3>3, AnswerKeepsHandle DEF AnsweredBy
        <3> QED
            BY <1>5, <3>1, <3>2, <3>3 DEF MethodCheck, Extract, Pass
    <2> QED
        BY <2>1, <2>2
<1>6. ASSUME NEW c \in Clients, Drop(c)
      PROVE  id \in handed \/ (\E d \in Clients : answer[d].handle = id)
    BY <1>6, HandleAssumption DEF Drop, Forget, TypeOK, NoAnswer
<1>7. CASE UNCHANGED vars
    BY <1>1, <1>7 DEF vars
<1> QED
    BY <1>1, <1>2, <1>3, <1>4, <1>5, <1>6, <1>7 DEF Next

\* A task that was handed out stays known.
THEOREM HandedStayKnown == Spec => []HandedTasksAreKnown
<1>1. Init => HandedTasksAreKnown
    BY HandleAssumption DEF Init, HandedTasksAreKnown, NoAnswer
<1> QED
    BY <1>1, HandedStep, TypeCorrect, PTL DEF Spec

\* Repeating a cancel is no error.
THEOREM CancelsCanBeRepeated == Spec => CancelIsIdempotent
<1>1. ASSUME TypeOK, HandedTasksAreKnown, NEW c \in Clients, Dispatch(c),
             Method(request[c]) = "tasks/cancel", request[c].params = "valid",
             request[c].id \in handed
      PROVE  answer'[c].error \in {"none", "internal"}
    <2>1. store[request[c].id] # NoTask
        BY <1>1 DEF HandedTasksAreKnown, TypeOK
    <2>2. CancelTask(c)
        BY <1>1 DEF Dispatch, Unroutable, Discover, BadParams, ListTools, CallTool,
                    GetTask, UpdateTask, Handles
    <2>3. PICK e \in {"none", "internal"} : Answer(c, "handled", "dispatch", e)
        BY <2>1, <2>2 DEF CancelTask, Succeed, StoreFault, Fail
    <2> QED
        BY <1>1, <2>3, AnswerKeepsHandle
<1>2. TypeOK /\ HandedTasksAreKnown /\ [Next]_vars =>
        [\A c \in Clients :
            /\ Dispatch(c)
            /\ Method(request[c]) = "tasks/cancel" /\ request[c].params = "valid"
            /\ request[c].id \in handed
            => answer'[c].error \in {"none", "internal"}]_vars
    BY <1>1
<1> QED
    BY <1>2, TypeCorrect, HandedStayKnown, PTL DEF Spec, CancelIsIdempotent
=============================================================================
