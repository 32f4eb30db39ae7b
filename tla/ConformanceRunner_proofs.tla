---------------------- MODULE ConformanceRunner_proofs ----------------------
(***************************************************************************)
(* Theorems about ConformanceRunner, for any tasks of other clients and    *)
(* any registry.                                                           *)
(***************************************************************************)
EXTENDS ConformanceRunner, TLAPS

Cases == {"discover_result_schema", "protocol_version_pinned", "jsonrpc_response_envelope",
          "tools_list_schema", "tools_field_is_array", "cache_metadata_types",
          "get_missing_task", "cancel_missing_task", "update_missing_task",
          "tasks_list_removed"}

\* Which suite is where, and how many cases each has.
LEMMA SuiteFacts ==
    /\ Suites[1] = "discovery" /\ Suites[2] = "tools" /\ Suites[3] = "tasks"
    /\ Len(Script[Suites[1]]) = 3 /\ Len(Script[Suites[2]]) = 3 /\ Len(Script[Suites[3]]) = 4
    BY DEF Suites, Script

LEMMA CaseFacts ==
    /\ Script[Suites[1]][1] = "discover_result_schema"
    /\ Script[Suites[1]][2] = "protocol_version_pinned"
    /\ Script[Suites[1]][3] = "jsonrpc_response_envelope"
    /\ Script[Suites[2]][1] = "tools_list_schema"
    /\ Script[Suites[2]][2] = "tools_field_is_array"
    /\ Script[Suites[2]][3] = "cache_metadata_types"
    /\ Script[Suites[3]][1] = "get_missing_task"
    /\ Script[Suites[3]][2] = "cancel_missing_task"
    /\ Script[Suites[3]][3] = "update_missing_task"
    /\ Script[Suites[3]][4] = "tasks_list_removed"
    BY DEF Suites, Script

\* A call is under way for one of the cases of the suite's script.
LEMMA CallIsOfACase ==
    ASSUME TypeOK, call # "none"
    PROVE  /\ \/ suite = 1 /\ case \in 1..3
              \/ suite = 2 /\ case \in 1..3
              \/ suite = 3 /\ case \in 1..4
           /\ Current \in Cases /\ Selected
<1>1. suite \in 1..3 /\ case \in 1..5 /\ case <= Len(Script[Suites[suite]])
    BY DEF TypeOK, Selected, Name
<1>0. Selected
    BY DEF TypeOK
<1>2. CASE suite = 1
    <2>1. case \in 1..3
        BY <1>1, <1>2, SuiteFacts
    <2>2. case = 1 \/ case = 2 \/ case = 3
        BY <2>1
    <2> QED
        BY <1>0, <1>2, <2>1, <2>2, CaseFacts DEF Current, Name, Cases
<1>3. CASE suite = 2
    <2>1. case \in 1..3
        BY <1>1, <1>3, SuiteFacts
    <2>2. case = 1 \/ case = 2 \/ case = 3
        BY <2>1
    <2> QED
        BY <1>0, <1>3, <2>1, <2>2, CaseFacts DEF Current, Name, Cases
<1>4. CASE suite = 3
    <2>1. case \in 1..4
        BY <1>1, <1>4, SuiteFacts
    <2>2. case = 1 \/ case = 2 \/ case = 3 \/ case = 4
        BY <2>1
    <2> QED
        BY <1>0, <1>4, <2>1, <2>2, CaseFacts DEF Current, Name, Cases
<1> QED
    BY <1>1, <1>2, <1>3, <1>4 DEF TypeOK

\* What a server or a timer gives is an Answer.
LEMMA AnswersTyped ==
    /\ Nothing \in Answer
    /\ \A code \in Codes : Error(code) \in Answer
    /\ \A s \in (SUBSET DiscoverFlaws) \cup (SUBSET ListFlaws) : Result(s) \in Answer
    /\ \A m : AnswerTo(m) \subseteq Answer
<1>1. Nothing \in Answer
    BY DEF Nothing, Answer, AnswerTo
<1>2. \A code \in Codes : Error(code) \in Answer
    BY DEF Error, Answer, AnswerTo
<1>3. \A s \in (SUBSET DiscoverFlaws) \cup (SUBSET ListFlaws) : Result(s) \in Answer
    <2>1. FlawsOf("server/discover") = DiscoverFlaws /\ FlawsOf("tools/list") = ListFlaws
        BY DEF FlawsOf
    <2> QED
        BY <2>1 DEF Result, Answer, AnswerTo
<1>4. \A m : AnswerTo(m) \subseteq Answer
    <2> TAKE m
    <2>1. CASE m = "server/discover" \/ m = "tools/list"
        BY <2>1 DEF Answer
    <2>2. CASE m # "server/discover" /\ m # "tools/list"
        <3>1. FlawsOf(m) = {}
            BY <2>2 DEF FlawsOf
        <3>2. SUBSET FlawsOf(m) \subseteq SUBSET FlawsOf("tools/list")
            BY <3>1
        <3>3. AnswerTo(m) \subseteq AnswerTo("tools/list")
            BY <3>2 DEF AnswerTo
        <3> QED
            BY <3>3 DEF Answer
    <2> QED
        BY <2>1, <2>2
<1> QED
    BY <1>1, <1>2, <1>3, <1>4

LEMMA ServedTyped ==
    /\ Result(DiscoverResult) \in Answer
    /\ Result(ListResult) \in Answer
    /\ Error("methodNotFound") \in Answer
    /\ Error("internal") \in Answer
    /\ \A status : TaskReply(status) \in Answer
<1>1. DiscoverResult \in SUBSET DiscoverFlaws
    BY DEF DiscoverResult, DiscoverFlaws
<1>2. ListResult \in SUBSET ListFlaws
    BY DEF ListResult, ListFlaws
<1>3. Result({}) \in Answer
    <2>1. {} \in SUBSET ListFlaws
        OBVIOUS
    <2> QED
        BY <2>1, AnswersTyped
<1>4. \A code \in Codes : Error(code) \in Answer
    BY AnswersTyped
<1>5. Error("methodNotFound") \in Answer /\ Error("internal") \in Answer
      /\ Error("invalidParams") \in Answer
    BY <1>4 DEF Codes
<1>6. \A status : TaskReply(status) \in Answer
    BY <1>3, <1>5 DEF TaskReply
<1> QED
    BY <1>1, <1>2, <1>5, <1>6, AnswersTyped

\* The step in which a server or a timer ends a call.
LEMMA AnswerStep ==
    ASSUME AnyServes \/ LonghaulServes \/ Expire
    PROVE  call = "sent" /\ \E a \in Answer : Receive(a)
    BY AnswersTyped, ServedTyped DEF AnyServes, LonghaulServes, Expire

\* Type correctness.
LEMMA TypeInit == Init => TypeOK
<1> SUFFICES ASSUME Init PROVE TypeOK
    OBVIOUS
<1>1. suite = 1 /\ case = 1 /\ failed = 0 /\ suite \in 1..4 /\ case \in 1..5 /\ failed \in 0..4
      /\ failed < case /\ case \in 1..Len(Script[Name]) + 1
    BY SuiteFacts DEF Init, Name
<1>2. tasks \in [Ids \cup {RunTask} -> TaskStatus \cup {NoTask}]
    BY DEF Init
<1>3. setup \in Setups /\ call = "none" /\ answer \in Answer /\ anyFailed = FALSE
      /\ exit = "running" /\ broken = FALSE /\ served = {} /\ fault = FALSE
    BY AnswersTyped DEF Init
<1> QED
    BY <1>1, <1>2, <1>3 DEF TypeOK

LEMMA ReceiveTyped ==
    ASSUME TypeOK, call = "sent", NEW a \in Answer, Receive(a),
           tasks' \in [Ids \cup {RunTask} -> TaskStatus \cup {NoTask}], fault' \in BOOLEAN
    PROVE  TypeOK'
<1>1. broken' \in BOOLEAN
    BY DEF Receive, TypeOK
<1>2. Method[Current] \in {"server/discover", "tools/list", "tasks/get", "tasks/cancel",
                           "tasks/update", "tasks/list"}
    BY CallIsOfACase DEF Cases, Method
<1> QED
    BY <1>1, <1>2 DEF Receive, NoVerdict, TypeOK, Selected, Name

LEMMA NextSuiteTyped ==
    ASSUME TypeOK, suite < 4, NextSuite
    PROVE  /\ suite' \in 1..4 /\ case' = 1 /\ failed' = 0
           /\ suite' < 4 => case' \in 1..Len(Script[Name']) + 1
<1>1. suite \in 1..3 /\ suite' = suite + 1
    BY DEF TypeOK, NextSuite
<1>2. suite' \in {2, 3, 4}
    BY <1>1
<1>3. suite' < 4 => Len(Script[Suites[suite']]) \in {3, 4}
    BY <1>2, SuiteFacts
<1> QED
    BY <1>2, <1>3 DEF NextSuite, Name

LEMMA TypeStep ==
    ASSUME TypeOK, [Next]_vars
    PROVE  TypeOK'
<1>1. CASE SkipSuite
    <2>1. suite < 4 /\ NextSuite /\ call = "none" /\ exit = "running"
        BY <1>1 DEF SkipSuite, TypeOK
    <2> QED
        BY <1>1, <2>1, NextSuiteTyped DEF SkipSuite, NoHistory, TypeOK
<1>2. CASE Send
    BY <1>2 DEF Send, Selected, Name, NoVerdict, NoHistory, TypeOK
<1>3. CASE Record
    <2>1. failed' \in 0..4 /\ case' \in 1..5 /\ failed' < case' /\ suite' = suite
          /\ case' \in 1..Len(Script[Name]) + 1 /\ suite \in 1..3
        <3>1. case \in 1..4 /\ case <= Len(Script[Name]) /\ suite \in 1..3
            BY <1>3, CallIsOfACase DEF Record, TypeOK
        <3>2. failed \in 0..3 /\ failed < case /\ failed' \in {failed, failed + 1}
              /\ case' = case + 1
            BY <1>3, <3>1 DEF Record, TypeOK
        <3>3. Len(Script[Name]) \in {3, 4}
            <4>1. suite = 1 \/ suite = 2 \/ suite = 3
                BY <3>1
            <4> QED
                BY <4>1, SuiteFacts DEF Name
        <3> QED
            BY <1>3, <3>1, <3>2, <3>3 DEF Record
    <2> QED
        BY <1>3, <2>1, AnswersTyped DEF Record, NoHistory, TypeOK, Name
<1>4. CASE EndSuite
    <2>1. suite < 4 /\ anyFailed' \in BOOLEAN /\ exit = "running"
        BY <1>4 DEF EndSuite, Selected, TypeOK
    <2>2. call = "none"
        <3> SUFFICES ASSUME call # "none" PROVE FALSE
            BY DEF TypeOK
        <3>1. case <= Len(Script[Name]) /\ case > Len(Script[Name]) /\ case \in 1..5
            BY <1>4 DEF EndSuite, TypeOK
        <3>2. Len(Script[Name]) \in {3, 4}
            BY CallIsOfACase, SuiteFacts DEF Name
        <3> QED
            BY <3>1, <3>2
    <2> QED
        BY <1>4, <2>1, <2>2, NextSuiteTyped DEF EndSuite, NoHistory, TypeOK
<1>5. CASE Exit
    BY <1>5 DEF Exit, NoHistory, TypeOK, Selected
<1>6. CASE AnyServes
    BY <1>6, AnswersTyped, ReceiveTyped DEF AnyServes, TypeOK
<1>7. CASE LonghaulServes
    <2>1. \E a \in Answer : Receive(a)
        BY <1>7, ServedTyped DEF LonghaulServes
    <2>2. tasks' \in [Ids \cup {RunTask} -> TaskStatus \cup {NoTask}]
        BY <1>7 DEF LonghaulServes, TypeOK, AfterCall, Cancel, TaskStatus
    <2> QED
        BY <1>7, <2>1, <2>2, ReceiveTyped DEF LonghaulServes, TypeOK
<1>8. CASE Expire
    BY <1>8, AnswersTyped, ReceiveTyped DEF Expire, TypeOK
<1>9. CASE OtherClients
    BY <1>9 DEF OtherClients, TypeOK, Selected, Name
<1>10. CASE UNCHANGED vars
    BY <1>10 DEF vars, TypeOK, Selected, Name
<1> QED
    BY <1>1, <1>2, <1>3, <1>4, <1>5, <1>6, <1>7, <1>8, <1>9, <1>10 DEF Next, Step

\* The types of a run, among them that failed cases are counted per suite.
THEOREM TypeCorrect == Spec => []TypeOK
    BY TypeInit, TypeStep, PTL DEF Spec

-----------------------------------------------------------------------------
\* An answer that meets the demand passes whichever case asked for it.
LEMMA MeetsPasses ==
    ASSUME NEW c \in Cases, NEW a \in Answer, Meets(Method[c], a)
    PROVE  Passes(c, a)
<1>1. CASE c \in {"discover_result_schema", "protocol_version_pinned",
                  "jsonrpc_response_envelope"}
    <2>1. a.has = "result" /\ a.flaws \cap DiscoverFlaws = {}
        BY <1>1 DEF Meets, SaysRight, Method, FlawsOf
    <2> QED
        BY <1>1, <2>1 DEF Passes, RunDiscovery, CallRawOk, CallOk, Validate, DiscoverFlaws
<1>2. CASE c \in {"tools_list_schema", "tools_field_is_array", "cache_metadata_types"}
    <2>1. a.has = "result" /\ a.flaws \cap ListFlaws = {}
        BY <1>2 DEF Meets, SaysRight, Method, FlawsOf
    <2> QED
        BY <1>2, <2>1 DEF Passes, RunTools, CallRawOk, CallOk, Validate, ListFlaws
<1>3. CASE c \in {"get_missing_task", "cancel_missing_task", "update_missing_task",
                  "tasks_list_removed"}
    BY <1>3 DEF Meets, SaysRight, Method, Passes, RunTasks, ExpectError, CallOk
<1> QED
    BY <1>1, <1>2, <1>3 DEF Cases

\* The cases that look at all that their method has to say.
Decisive == {"discover_result_schema", "tools_list_schema", "get_missing_task",
             "cancel_missing_task", "update_missing_task", "tasks_list_removed"}

LEMMA PassesSaysRight ==
    ASSUME NEW c \in Decisive, NEW a \in Answer, Passes(c, a)
    PROVE  SaysRight(Method[c], a)
<1>1. CASE c = "discover_result_schema"
    <2>1. a.has \in {"result", "both"} /\ a.flaws \cap DiscoverFlaws = {}
        BY <1>1 DEF Passes, RunDiscovery, RunTools, RunTasks, CallRawOk, Validate
    <2> QED
        BY <1>1, <2>1 DEF SaysRight, Method, FlawsOf
<1>2. CASE c = "tools_list_schema"
    <2>1. a.has \in {"result", "both"} /\ a.flaws \cap ListFlaws = {}
        BY <1>2 DEF Passes, RunDiscovery, RunTools, RunTasks, CallRawOk, Validate
    <2> QED
        BY <1>2, <2>1 DEF SaysRight, Method, FlawsOf
<1>3. CASE c \in {"get_missing_task", "cancel_missing_task", "update_missing_task",
                  "tasks_list_removed"}
    BY <1>3 DEF Passes, RunDiscovery, RunTools, RunTasks, ExpectError, SaysRight, Method
<1> QED
    BY <1>1, <1>2, <1>3 DEF Decisive

\* A case has failed, in the books or by the answer at hand.
Found ==
    \/ anyFailed
    \/ failed > 0
    \/ call = "answered" /\ ~Passes(Current, answer)

VerdictInv ==
    /\ Found => broken
    /\ ~Selected => failed = 0
    /\ exit = "success" => ~anyFailed
    /\ exit = "failure" => anyFailed

LEMMA FoundReceive ==
    ASSUME TypeOK, call = "sent", NEW a \in Answer, Receive(a)
    PROVE  Found' <=> Found \/ ~Passes(Current, a)
<1>1. Current' = Current
    BY DEF Receive, Current, Name
<1> QED
    BY <1>1 DEF Receive, NoVerdict, Found

\* No other step finds or forgets a failure.
LEMMA FoundStep ==
    ASSUME TypeOK, VerdictInv, Step \/ OtherClients \/ UNCHANGED vars
    PROVE  Found' <=> Found
<1>1. CASE SkipSuite
    <2>1. call = "none" /\ failed = 0 /\ failed' = 0
        BY <1>1 DEF SkipSuite, NextSuite, TypeOK, VerdictInv
    <2> QED
        BY <1>1, <2>1 DEF SkipSuite, Found
<1>2. CASE Send
    BY <1>2 DEF Send, NoVerdict, Found
<1>3. CASE Record
    <2>1. failed \in 0..4
        BY DEF TypeOK
    <2>2. failed' > 0 <=> failed > 0 \/ ~Passes(Current, answer)
        BY <1>3, <2>1 DEF Record
    <2> QED
        BY <1>3, <2>2 DEF Record, Found
<1>4. CASE EndSuite
    <2>1. call = "none" /\ failed' = 0
        BY <1>4, CallIsOfACase, SuiteFacts DEF EndSuite, NextSuite, TypeOK, Selected, Name
    <2>2. anyFailed' <=> anyFailed \/ failed > 0
        BY <1>4 DEF EndSuite, TypeOK
    <2>3. ~(failed' > 0) /\ call' = "none"
        BY <1>4, <2>1 DEF EndSuite
    <2> QED
        BY <2>1, <2>2, <2>3 DEF Found
<1>5. CASE Exit
    BY <1>5 DEF Exit, Found, Current, Name
<1>6. CASE OtherClients \/ UNCHANGED vars
    BY <1>6 DEF OtherClients, vars, Found, Current, Name
<1> QED
    BY <1>1, <1>2, <1>3, <1>4, <1>5, <1>6 DEF Step

LEMMA VerdictStep ==
    ASSUME TypeOK, VerdictInv, [Next]_vars
    PROVE  VerdictInv'
<1>1. CASE AnyServes \/ LonghaulServes \/ Expire
    <2>1. PICK a \in Answer : call = "sent" /\ Receive(a)
        BY <1>1, AnswerStep
    <2>2. Found' <=> Found \/ ~Passes(Current, a)
        BY <2>1, FoundReceive
    <2>3. ~Passes(Current, a) => ~Meets(Method[Current], a)
        BY <2>1, CallIsOfACase, MeetsPasses
    <2>4. Selected' <=> Selected
        BY <2>1 DEF Receive, Selected, Name
    <2> QED
        BY <2>1, <2>2, <2>3, <2>4 DEF Receive, NoVerdict, VerdictInv
<1>2. CASE Step \/ OtherClients \/ UNCHANGED vars
    <2>1. Found' <=> Found
        BY <1>2, FoundStep
    <2>2. broken' = broken
        BY <1>2 DEF Step, SkipSuite, Send, Record, EndSuite, Exit, OtherClients, vars, NoHistory
    <2>3. ~Selected' => failed' = 0
        <3>1. CASE SkipSuite \/ EndSuite
            BY <3>1 DEF SkipSuite, EndSuite, NextSuite
        <3>2. CASE Record
            <4>1. Selected /\ (Selected' <=> Selected)
                BY <3>2, CallIsOfACase DEF Record, Selected, Name
            <4> QED
                BY <4>1
        <3>3. CASE Send \/ Exit \/ OtherClients \/ UNCHANGED vars
            <4>1. failed' = failed /\ (Selected' <=> Selected)
                BY <3>3 DEF Send, Exit, OtherClients, vars, NoVerdict, Selected, Name
            <4> QED
                BY <4>1 DEF VerdictInv
        <3> QED
            BY <1>2, <3>1, <3>2, <3>3 DEF Step
    <2>4. /\ exit' = "success" => ~anyFailed'
          /\ exit' = "failure" => anyFailed'
        <3>1. CASE EndSuite
            BY <3>1 DEF EndSuite, Selected, TypeOK
        <3>2. CASE Exit
            BY <3>2 DEF Exit, TypeOK
        <3>3. CASE SkipSuite \/ Send \/ Record \/ OtherClients \/ UNCHANGED vars
            BY <3>3 DEF SkipSuite, Send, Record, OtherClients, vars, NoVerdict, VerdictInv
        <3> QED
            BY <1>2, <3>1, <3>2, <3>3 DEF Step
    <2> QED
        BY <2>1, <2>2, <2>3, <2>4 DEF VerdictInv
<1> QED
    BY <1>1, <1>2 DEF Next

LEMMA VerdictAlways == Spec => []VerdictInv
<1>1. Init => VerdictInv
    BY DEF Init, VerdictInv, Found
<1> QED
    BY <1>1, VerdictStep, TypeCorrect, PTL DEF Spec

\* The run has got the answer to case c of suite s, which is selected and which
\* looks at all of it.
Past(s, c) == suite > s \/ (suite = s /\ (case > c \/ (case = c /\ call = "answered")))

Weighed(s, c) ==
    /\ c <= Len(Script[Suites[s]])
    /\ Script[Suites[s]][c] \in Decisive
    /\ Suites[s] \in setup.selected
    /\ Past(s, c)

\* While no case has failed, what those cases asked for has been said.
ServedInv ==
    ~Found => \A s \in 1..3, c \in 1..4 : Weighed(s, c) => Method[Script[Suites[s]][c]] \in served

LEMMA ServedStep ==
    ASSUME TypeOK, VerdictInv, ServedInv, [Next]_vars
    PROVE  ServedInv'
<1> SUFFICES ASSUME ~Found', NEW s \in 1..3, NEW c \in 1..4, Weighed(s, c)'
             PROVE  Method[Script[Suites[s]][c]] \in served'
    BY DEF ServedInv
<1>0. suite \in 1..4 /\ case \in 1..5
    BY DEF TypeOK
<1>1. CASE AnyServes \/ LonghaulServes \/ Expire
    <2>1. PICK a \in Answer : call = "sent" /\ Receive(a)
        BY <1>1, AnswerStep
    <2>2. ~Found /\ Passes(Current, a)
        BY <2>1, FoundReceive
    <2>3. Weighed(s, c) \/ (suite = s /\ case = c)
        BY <2>1 DEF Receive, Weighed, Past
    <2>4. CASE Weighed(s, c)
        BY <2>1, <2>2, <2>4 DEF ServedInv, Receive
    <2>5. CASE suite = s /\ case = c
        <3>1. Current = Script[Suites[s]][c] /\ Current \in Decisive
            BY <2>5 DEF Current, Name, Weighed
        <3>2. SaysRight(Method[Current], a)
            BY <2>2, <3>1, PassesSaysRight
        <3> QED
            BY <2>1, <3>1, <3>2 DEF Receive
    <2> QED
        BY <2>3, <2>4, <2>5
<1>2. CASE Step \/ OtherClients \/ UNCHANGED vars
    <2>1. ~Found
        BY <1>2, FoundStep
    <2>2. served' = served /\ setup' = setup
        BY <1>2 DEF Step, SkipSuite, Send, Record, EndSuite, Exit, OtherClients, vars, NoHistory
    <2>3. Past(s, c)
        <3>1. CASE SkipSuite
            <4>1. suite' = suite + 1 /\ case' = 1 /\ call' = "none" /\ Name \notin setup.selected
                BY <3>1 DEF SkipSuite, NextSuite, Selected, TypeOK
            <4>2. Past(s, c)' /\ Suites[s] \in setup.selected
                BY <2>2 DEF Weighed
            <4>3. suite # s
                BY <4>1, <4>2 DEF Name
            <4> QED
                BY <1>0, <4>1, <4>2, <4>3 DEF Past
        <3>2. CASE EndSuite
            <4>1. /\ suite' = suite + 1 /\ case' = 1 /\ call' = "none"
                  /\ case > Len(Script[Suites[suite]])
                BY <3>2, CallIsOfACase, SuiteFacts DEF EndSuite, NextSuite, TypeOK, Name
            <4>2. Past(s, c)' /\ c <= Len(Script[Suites[s]])
                BY DEF Weighed
            <4>3. Len(Script[Suites[s]]) \in {3, 4}
                <5>1. s = 1 \/ s = 2 \/ s = 3
                    OBVIOUS
                <5> QED
                    BY <5>1, SuiteFacts
            <4>4. suite = s => case > c
                BY <1>0, <4>1, <4>2, <4>3
            <4> QED
                BY <1>0, <4>1, <4>2, <4>4 DEF Past
        <3>3. CASE Record
            BY <1>0, <3>3 DEF Record, Weighed, Past
        <3>4. CASE Send \/ Exit \/ OtherClients \/ UNCHANGED vars
            BY <3>4 DEF Send, Exit, OtherClients, vars, Weighed, Past
        <3> QED
            BY <1>2, <3>1, <3>2, <3>3, <3>4 DEF Step
    <2>4. Weighed(s, c)
        BY <2>2, <2>3 DEF Weighed
    <2> QED
        BY <2>1, <2>2, <2>4 DEF ServedInv
<1> QED
    BY <1>1, <1>2 DEF Next

LEMMA ServedAlways == Spec => []ServedInv
<1>1. Init => ServedInv
    BY DEF Init, ServedInv, Weighed, Past
<1> QED
    BY <1>1, ServedStep, TypeCorrect, VerdictAlways, PTL DEF Spec

\* The exit code is failure only when some call was not answered as the RC
\* demands, and success only when each method of the selected suites has at
\* least once said the right thing.
THEOREM VerdictIsTrue == Spec => []VerdictTellsTruth
<1>1. ASSUME TypeOK, VerdictInv, ServedInv PROVE VerdictTellsTruth
    <2> SUFFICES ASSUME Over
                 PROVE  /\ exit = "failure" => broken
                        /\ exit = "success" => \A n \in setup.selected :
                               \A i \in DOMAIN Script[n] : Method[Script[n][i]] \in served
        BY DEF VerdictTellsTruth
    <2>1. suite = 4 /\ call = "none" /\ failed = 0
        BY <1>1 DEF Over, TypeOK, Selected, VerdictInv
    <2>2. exit = "failure" => broken
        BY <1>1 DEF VerdictInv, Found
    <2>3. ASSUME exit = "success", NEW n \in setup.selected, NEW i \in DOMAIN Script[n]
          PROVE  Method[Script[n][i]] \in served
        <3>1. ~Found
            BY <1>1, <2>1, <2>3 DEF VerdictInv, Found
        <3>2. \A s \in 1..3, c \in 1..4 :
                  /\ c <= Len(Script[Suites[s]])
                  /\ Script[Suites[s]][c] \in Decisive
                  /\ Suites[s] \in setup.selected
                  => Method[Script[Suites[s]][c]] \in served
            BY <1>1, <2>1, <3>1 DEF ServedInv, Weighed, Past
        <3>3. n \in {"discovery", "tools", "tasks"}
            BY <1>1, <2>3 DEF TypeOK, Setups, Selections
        <3>4. CASE n = "discovery"
            <4>1. "server/discover" \in served
                BY <2>3, <3>2, <3>4, SuiteFacts, CaseFacts DEF Decisive, Method
            <4>2. Method[Script[n][i]] = "server/discover"
                BY <2>3, <3>4 DEF Script, Method
            <4> QED
                BY <4>1, <4>2
        <3>5. CASE n = "tools"
            <4>1. "tools/list" \in served
                BY <2>3, <3>2, <3>5, SuiteFacts, CaseFacts DEF Decisive, Method
            <4>2. Method[Script[n][i]] = "tools/list"
                BY <2>3, <3>5 DEF Script, Method
            <4> QED
                BY <4>1, <4>2
        <3>6. CASE n = "tasks"
            <4>1. /\ "tasks/get" \in served /\ "tasks/cancel" \in served
                  /\ "tasks/update" \in served /\ "tasks/list" \in served
                BY <2>3, <3>2, <3>6, SuiteFacts, CaseFacts DEF Decisive, Method
            <4>2. Method[Script[n][i]] \in {"tasks/get", "tasks/cancel", "tasks/update",
                                            "tasks/list"}
                BY <2>3, <3>6 DEF Script, Method
            <4> QED
                BY <4>1, <4>2
        <3> QED
            BY <3>3, <3>4, <3>5, <3>6
    <2> QED
        BY <2>2, <2>3
<1> QED
    BY <1>1, TypeCorrect, VerdictAlways, ServedAlways, PTL

-----------------------------------------------------------------------------
\* No task has the id that the run has made up, whoever uses the server.
Unused == tasks[RunTask] = NoTask

LEMMA UnusedStep ==
    ASSUME TypeOK, Unused, [Next]_vars
    PROVE  Unused' /\ (call' # call => tasks' = tasks)
<1>1. CASE LonghaulServes
    <2>1. AfterCall(NoTask) = NoTask
        BY DEF AfterCall, CanTransitionTo, NoTask
    <2>2. tasks' = tasks
        BY <1>1, <2>1 DEF LonghaulServes, TaskId, Unused, TypeOK
    <2> QED
        BY <2>2 DEF Unused
<1>2. CASE OtherClients
    BY <1>2, RunTaskAssumption DEF OtherClients, Unused, TypeOK
<1>3. CASE Step \/ AnyServes \/ Expire \/ UNCHANGED vars
    BY <1>3 DEF Step, SkipSuite, Send, Record, EndSuite, Exit, AnyServes, Expire, vars, Unused
<1> QED
    BY <1>1, <1>2, <1>3 DEF Next

LEMMA UnusedAlways == Spec => []Unused
<1>1. Init => Unused
    BY DEF Init, Unused
<1> QED
    BY <1>1, UnusedStep, TypeCorrect, PTL DEF Spec

\* However many clients use the server, a run of the suites changes no task.
THEOREM RunIsHarmless == Spec => RunTouchesNothing
<1>1. TypeOK /\ Unused /\ [Next]_vars => [call' # call => tasks' = tasks]_vars
    BY UnusedStep
<1> QED
    BY <1>1, TypeCorrect, UnusedAlways, PTL DEF Spec, RunTouchesNothing

-----------------------------------------------------------------------------
\* A suite whose first case has been answered.
Begun(s) == suite > s \/ (suite = s /\ (case > 1 \/ call = "answered"))

BadVersion == "discovery" \in setup.selected /\ setup.version # "pinned"
BadRegistry == "tools" \in setup.selected /\ ListResult # {}

\* The suite under way will find something.
Guilty == (suite = 1 /\ BadVersion) \/ (suite = 2 /\ BadRegistry)

\* What such a server is found guilty of, and when.
GuiltInv ==
    setup.server = "longhaul" =>
        (Found <=> fault \/ (BadVersion /\ Begun(1)) \/ (BadRegistry /\ Begun(2)))

LEMMA GuiltReceive ==
    ASSUME TypeOK, GuiltInv, setup.server = "longhaul", call = "sent", NEW a \in Answer,
           Receive(a),
           \/ fault' = TRUE /\ ~Passes(Current, a)
           \/ /\ fault' = fault
              /\ ~Passes(Current, a) => Guilty
              /\ case = 1 /\ Guilty => ~Passes(Current, a)
    PROVE  GuiltInv'
<1>1. (BadVersion' <=> BadVersion) /\ (BadRegistry' <=> BadRegistry) /\ setup' = setup
    BY DEF Receive, BadVersion, BadRegistry, ListResult
<1>2. /\ suite \in 1..4 /\ case \in 1..5
      /\ suite' = suite /\ case' = case /\ call' = "answered"
    BY DEF Receive, TypeOK
<1>3. /\ Begun(1)' <=> suite >= 1
      /\ Begun(2)' <=> suite >= 2
      /\ Begun(1) <=> suite > 1 \/ (suite = 1 /\ case > 1)
      /\ Begun(2) <=> suite > 2 \/ (suite = 2 /\ case > 1)
    BY <1>2 DEF Begun
<1>4. Found' <=> Found \/ ~Passes(Current, a)
    BY FoundReceive
<1>5. Found <=> fault \/ (BadVersion /\ Begun(1)) \/ (BadRegistry /\ Begun(2))
    BY DEF GuiltInv
<1>6. fault \in BOOLEAN
    BY DEF TypeOK
<1>7. CASE fault' = TRUE /\ ~Passes(Current, a)
    BY <1>4, <1>7 DEF GuiltInv
<1>8. CASE /\ fault' = fault
           /\ ~Passes(Current, a) => Guilty
           /\ case = 1 /\ Guilty => ~Passes(Current, a)
    <2>1. /\ Begun(1) => Begun(1)'
          /\ Begun(2) => Begun(2)'
          /\ Begun(1)' /\ ~Begun(1) => suite = 1 /\ case = 1
          /\ Begun(2)' /\ ~Begun(2) => suite = 2 /\ case = 1
          /\ suite = 1 => Begun(1)'
          /\ suite = 2 => Begun(2)'
        BY <1>2, <1>3
    <2>2. fault' <=> fault
        BY <1>8
    <2>3. Found' <=> fault \/ (BadVersion /\ Begun(1)') \/ (BadRegistry /\ Begun(2)')
        BY <1>4, <1>5, <1>8, <2>1, Zenon DEF Guilty
    <2> QED
        BY <1>1, <2>2, <2>3 DEF GuiltInv
<1> QED
    BY <1>7, <1>8

\* What the answers of such a server amount to.
LEMMA LonghaulAnswers ==
    ASSUME TypeOK, Unused, LonghaulServes
    PROVE  \E a \in Answer :
               /\ Receive(a)
               /\ \/ fault' = TRUE /\ ~Passes(Current, a)
                  \/ /\ fault' = fault
                     /\ ~Passes(Current, a) => Guilty
                     /\ case = 1 /\ Guilty => ~Passes(Current, a)
<1>0. /\ \/ suite = 1 /\ case \in 1..3
         \/ suite = 2 /\ case \in 1..3
         \/ suite = 3 /\ case \in 1..4
      /\ Selected
    BY CallIsOfACase DEF LonghaulServes
<1>1. CASE Name = "discovery"
    <2>1. suite = 1 /\ case \in {1, 2, 3}
        BY <1>0, <1>1, SuiteFacts DEF Name
    <2>2. Receive(Result(DiscoverResult)) /\ fault' = fault
        BY <1>1, <2>1, CaseFacts DEF LonghaulServes, Current, Name
    <2>3. Result(DiscoverResult).has = "result"
          /\ Result(DiscoverResult).flaws = DiscoverResult
        BY DEF Result
    <2>4. BadVersion <=> setup.version # "pinned"
        BY <1>0, <1>1 DEF BadVersion, Selected
    <2>5. DiscoverResult = {} \/ (BadVersion /\ DiscoverResult = {"otherVersion"})
        BY <2>4 DEF DiscoverResult
    <2>6. BadVersion => DiscoverResult = {"otherVersion"}
        BY <2>4 DEF DiscoverResult
    <2>7. Current = "discover_result_schema" \/ Current = "protocol_version_pinned"
          \/ Current = "jsonrpc_response_envelope"
        BY <2>1, CaseFacts DEF Current, Name
    <2>8. case = 1 => Current = "discover_result_schema"
        BY <2>1, CaseFacts DEF Current, Name
    <2>9. DiscoverResult = {} => Passes(Current, Result(DiscoverResult))
        BY <2>3, <2>7 DEF Passes, RunDiscovery, CallRawOk, CallOk, Validate
    <2>10. case = 1 /\ BadVersion => ~Passes(Current, Result(DiscoverResult))
        BY <2>3, <2>6, <2>8
           DEF Passes, RunDiscovery, RunTools, RunTasks, Validate, DiscoverFlaws
    <2> QED
        BY <2>1, <2>2, <2>5, <2>9, <2>10, ServedTyped DEF Guilty
<1>2. CASE Name = "tools"
    <2>1. suite = 2 /\ case \in {1, 2, 3}
        BY <1>0, <1>2, SuiteFacts DEF Name
    <2>2. Receive(Result(ListResult)) /\ fault' = fault
        BY <1>2, <2>1, CaseFacts DEF LonghaulServes, Current, Name
    <2>3. Result(ListResult).has = "result" /\ Result(ListResult).flaws = ListResult
        BY DEF Result
    <2>4. BadRegistry <=> ListResult # {}
        BY <1>0, <1>2 DEF BadRegistry, Selected
    <2>5. ListResult = {} \/ ListResult = {"badList"}
        BY DEF ListResult
    <2>6. Current = "tools_list_schema" \/ Current = "tools_field_is_array"
          \/ Current = "cache_metadata_types"
        BY <2>1, CaseFacts DEF Current, Name
    <2>7. case = 1 => Current = "tools_list_schema"
        BY <2>1, CaseFacts DEF Current, Name
    <2>8. ListResult = {} => Passes(Current, Result(ListResult))
        BY <2>3, <2>6 DEF Passes, RunTools, CallRawOk, CallOk, Validate
    <2>9. case = 1 /\ BadRegistry => ~Passes(Current, Result(ListResult))
        BY <2>3, <2>4, <2>5, <2>7
           DEF Passes, RunDiscovery, RunTools, RunTasks, Validate, ListFlaws
    <2> QED
        BY <2>1, <2>2, <2>4, <2>8, <2>9, ServedTyped DEF Guilty
<1>3. CASE Name = "tasks"
    <2>1. suite = 3 /\ case \in {1, 2, 3, 4}
        BY <1>0, <1>3, SuiteFacts DEF Name
    <2>2. Current = "get_missing_task" \/ Current = "cancel_missing_task"
          \/ Current = "update_missing_task" \/ Current = "tasks_list_removed"
        BY <2>1, CaseFacts DEF Current, Name
    <2>3. CASE Receive(Error("methodNotFound")) /\ Current = "tasks_list_removed" /\ fault' = fault
        <3>1. Passes(Current, Error("methodNotFound"))
            BY <2>3 DEF Passes, RunTasks, ExpectError, CallOk, Error
        <3> QED
            BY <2>1, <2>3, <3>1, ServedTyped DEF Guilty
    <2>4. CASE Receive(TaskReply(tasks[TaskId])) /\ Current # "tasks_list_removed" /\ fault' = fault
        <3>1. TaskReply(tasks[TaskId]) = Error("invalidParams")
            BY DEF TaskReply, Refused, TaskId, Unused
        <3>2. Passes(Current, Error("invalidParams"))
            BY <2>2, <2>4 DEF Passes, RunTasks, ExpectError, CallOk, Error
        <3> QED
            BY <2>1, <2>4, <3>1, <3>2, ServedTyped DEF Guilty
    <2>5. CASE Receive(Error("internal")) /\ Current # "tasks_list_removed" /\ fault' = TRUE
        <3>1. Error("internal").code = "internal" /\ Error("invalidParams").code = "invalidParams"
            BY DEF Error
        <3>2. ~Passes(Current, Error("internal"))
            BY <2>2, <2>5, <3>1 DEF Passes, RunDiscovery, RunTools, RunTasks, ExpectError
        <3> QED
            BY <2>5, <3>2, ServedTyped
    <2> QED
        BY <1>3, <2>2, <2>3, <2>4, <2>5 DEF LonghaulServes
<1> QED
    BY <1>0, <1>1, <1>2, <1>3, SuiteFacts DEF Name

LEMMA GuiltStep ==
    ASSUME TypeOK, Unused, VerdictInv, GuiltInv, [Next]_vars
    PROVE  GuiltInv'
<1> SUFFICES ASSUME setup.server = "longhaul", setup' = setup PROVE GuiltInv'
    <2>1. setup' = setup
        BY DEF Next, Step, SkipSuite, Send, Record, EndSuite, Exit, AnyServes, LonghaulServes,
               Expire, Receive, OtherClients, vars
    <2> QED
        BY <2>1 DEF GuiltInv
<1>0. (BadVersion' <=> BadVersion) /\ (BadRegistry' <=> BadRegistry)
      /\ suite \in 1..4 /\ case \in 1..5
    BY DEF BadVersion, BadRegistry, ListResult, TypeOK
<1>8. Step \/ OtherClients \/ UNCHANGED vars => (Found' <=> Found)
    BY FoundStep
<1>1. CASE SkipSuite
    <2>1. (Found' <=> Found) /\ fault' = fault /\ suite' = suite + 1 /\ case' = 1 /\ call' = "none"
          /\ call = "none" /\ suite < 4 /\ Name \notin setup.selected
        BY <1>8, <1>1 DEF Step, SkipSuite, NextSuite, NoHistory, TypeOK, Selected
    <2>2. CASE suite = 1
        <3>1. ~BadVersion /\ ~Begun(2) /\ ~Begun(2)'
            BY <2>1, <2>2, SuiteFacts DEF BadVersion, Name, Begun
        <3> QED
            BY <1>0, <2>1, <3>1 DEF GuiltInv
    <2>3. CASE suite = 2
        <3>1. ~BadRegistry /\ Begun(1) /\ Begun(1)'
            BY <2>1, <2>3, SuiteFacts DEF BadRegistry, Name, Begun
        <3> QED
            BY <1>0, <2>1, <3>1 DEF GuiltInv
    <2>4. CASE suite = 3
        <3>1. Begun(1) /\ Begun(1)' /\ Begun(2) /\ Begun(2)'
            BY <2>1, <2>4 DEF Begun
        <3> QED
            BY <1>0, <2>1, <3>1 DEF GuiltInv
    <2> QED
        BY <1>0, <2>1, <2>2, <2>3, <2>4
<1>2. CASE EndSuite
    <2>1. /\ (Found' <=> Found) /\ fault' = fault /\ suite' = suite + 1 /\ case' = 1
          /\ call' = call /\ suite < 4 /\ case > Len(Script[Name])
        BY <1>8, <1>2 DEF Step, EndSuite, NextSuite, NoHistory, Selected
    <2>2. Len(Script[Name]) \in {3, 4}
        <3>1. suite = 1 \/ suite = 2 \/ suite = 3
            BY <1>0, <2>1
        <3> QED
            BY <3>1, SuiteFacts DEF Name
    <2>3. case > 1
        <3>1. case > 3 \/ case > 4
            BY <2>1, <2>2
        <3> QED
            BY <1>0, <3>1
    <2>4. call = "none"
        BY <1>0, <2>1, <2>2 DEF TypeOK
    <2>5. (Begun(1)' <=> Begun(1)) /\ (Begun(2)' <=> Begun(2))
        BY <1>0, <2>1, <2>3, <2>4 DEF Begun
    <2> QED
        BY <1>0, <2>1, <2>5 DEF GuiltInv
<1>3. CASE Record
    <2>1. (Begun(1)' <=> Begun(1)) /\ (Begun(2)' <=> Begun(2))
        BY <1>0, <1>3 DEF Record, Begun
    <2> QED
        BY <1>8, <1>0, <1>3, <2>1 DEF Step, Record, NoHistory, GuiltInv
<1>4. CASE Send \/ Exit \/ OtherClients \/ UNCHANGED vars
    <2>1. /\ suite' = suite /\ case' = case /\ (call' = "answered" <=> call = "answered")
          /\ (Found' <=> Found) /\ fault' = fault
        BY <1>8, <1>4 DEF Step, Send, Exit, OtherClients, vars, NoVerdict, NoHistory
    <2>2. (Begun(1)' <=> Begun(1)) /\ (Begun(2)' <=> Begun(2))
        BY <2>1 DEF Begun
    <2> QED
        BY <1>0, <2>1, <2>2 DEF GuiltInv
<1>5. CASE LonghaulServes
    BY <1>5, LonghaulAnswers, GuiltReceive DEF LonghaulServes
<1>6. CASE Expire
    <2>1. ~Passes(Current, Nothing)
        <3>1. Nothing.has = "nothing"
            BY DEF Nothing
        <3> QED
            BY <3>1 DEF Passes, RunDiscovery, RunTools, RunTasks, ExpectError, CallRawOk, CallOk
    <2> QED
        BY <1>6, <2>1, AnswersTyped, GuiltReceive DEF Expire
<1>7. ~AnyServes
    BY DEF AnyServes
<1> QED
    BY <1>1, <1>2, <1>3, <1>4, <1>5, <1>6, <1>7 DEF Next, Step

\* Whatever a server of this crate is built from and whoever uses it: it passes
\* unless it is misconfigured, its store fails or it is too slow.
THEOREM LonghaulPasses == Spec => []LonghaulConforms
<1>1. Init => GuiltInv
    BY DEF Init, GuiltInv, Found, Begun
<1>2. ASSUME TypeOK, VerdictInv, GuiltInv PROVE LonghaulConforms
    <2> SUFFICES ASSUME Over, setup.server = "longhaul"
                 PROVE  exit = "success" <=> ~fault /\ Conforms
        BY DEF LonghaulConforms
    <2>1. suite = 4
        BY <1>2 DEF Over, TypeOK
    <2>2. Begun(1) /\ Begun(2)
        BY <2>1 DEF Begun
    <2>3. exit = "success" <=> ~Found
        BY <1>2, <2>1 DEF Over, TypeOK, VerdictInv, Found, Selected
    <2>4. ListResult = {} <=>
            \A i \in DOMAIN setup.entries : Replaced(i) \/ GoodTool(setup.entries[i])
        <3>1. ListResult = {} <=> \A e \in Registered(setup.entries) : GoodTool(e)
            BY DEF ListResult
        <3> QED
            BY <3>1 DEF Registered, Replaced
    <2>5. Conforms <=> ~BadVersion /\ ~BadRegistry
        BY <2>4 DEF Conforms, BadVersion, BadRegistry
    <2> QED
        BY <1>2, <2>2, <2>3, <2>5 DEF GuiltInv
<1> QED
    BY <1>1, <1>2, GuiltStep, TypeCorrect, VerdictAlways, UnusedAlways, PTL DEF Spec
-----------------------------------------------------------------------------
(* Liveness.  As in Indexer_proofs, weak fairness is stated with the guards of *)
(* the actions, since the provers cannot evaluate ENABLED.                     *)

CanStep ==
    \/ suite < 4 /\ (~Selected \/ call # "sent")
    \/ suite = 4 /\ exit = "running"

CanExpire == call = "sent"

FairRun ==
    /\ []<>~CanStep \/ []<><<Step>>_vars
    /\ []<>~CanExpire \/ []<><<Expire>>_vars

At(s, c)  == suite = s /\ case = c
Begins(s) == At(s, 1)

\* Where the runner can be after a step: it goes through a case in three steps,
\* then on to the next case or suite, and never back.
LEMMA RunnerMoves ==
    ASSUME TypeOK, [Next]_vars, suite < 4
    PROVE  \/ UNCHANGED <<suite, case, call>>
           \/ /\ UNCHANGED <<suite, case>>
              /\ \/ call = "none" /\ call' = "sent"
                 \/ call = "sent" /\ call' = "answered"
           \/ call = "answered" /\ suite' = suite /\ case' = case + 1 /\ call' = "none"
           \/ call = "none" /\ suite' = suite + 1 /\ case' = 1 /\ call' = "none"
<1>1. CASE SkipSuite
    BY <1>1 DEF SkipSuite, NextSuite, TypeOK
<1>2. CASE Send
    BY <1>2 DEF Send
<1>3. CASE Record
    BY <1>3 DEF Record
<1>4. CASE EndSuite
    BY <1>4 DEF EndSuite, NextSuite, TypeOK
<1>5. CASE AnyServes \/ LonghaulServes \/ Expire
    BY <1>5 DEF AnyServes, LonghaulServes, Expire, Receive
<1>6. CASE Exit \/ OtherClients \/ UNCHANGED vars
    BY <1>6 DEF Exit, OtherClients, vars
<1> QED
    BY <1>1, <1>2, <1>3, <1>4, <1>5, <1>6 DEF Next, Step

\* A case comes to its end, and the runner to the next case or suite.
LEMMA CaseEnds ==
    ASSUME NEW s \in 1..3, NEW t, t = s + 1, NEW c \in 1..5, NEW d, d = c + 1
    PROVE  Spec /\ FairRun => (At(s, c) ~> At(s, d) \/ Begins(t))
<1> DEFINE Stage(k) == At(s, c) /\ call = k
           Out == At(s, d) \/ Begins(t)
<1>1. TypeOK /\ At(s, c) => Stage("none") \/ Stage("sent") \/ Stage("answered")
    BY DEF TypeOK
<1>2. TypeOK /\ [Next]_vars /\ Stage("none") => Stage("none")' \/ Stage("sent")' \/ Out'
    BY RunnerMoves DEF At, Begins, TypeOK
<1>3. TypeOK /\ [Next]_vars /\ Stage("sent") => Stage("sent")' \/ Stage("answered")'
    BY RunnerMoves DEF At, Begins, TypeOK
<1>4. TypeOK /\ [Next]_vars /\ Stage("answered") => Stage("answered")' \/ Out'
    BY RunnerMoves DEF At, Begins, TypeOK
<1>5. TypeOK /\ <<Step>>_vars /\ Stage("none") => ~Stage("none")'
    BY DEF Step, SkipSuite, Send, Record, EndSuite, Exit, NextSuite, At, TypeOK
<1>6. TypeOK /\ <<Step>>_vars /\ Stage("answered") => ~Stage("answered")'
    BY DEF Step, SkipSuite, Send, Record, EndSuite, Exit, NextSuite, At, TypeOK
<1>7. <<Expire>>_vars => ~Stage("sent")'
    BY DEF Expire, Receive
<1>8. (Stage("none") => CanStep) /\ (Stage("answered") => CanStep) /\ (Stage("sent") => CanExpire)
    BY DEF CanStep, CanExpire, At
<1> HIDE DEF Stage, Out
<1>9. Spec /\ FairRun => (Stage("answered") ~> Out)
    BY <1>4, <1>6, <1>8, TypeCorrect, PTL DEF Spec, FairRun
<1>10. Spec /\ FairRun => (Stage("sent") ~> Out)
    BY <1>3, <1>7, <1>8, <1>9, TypeCorrect, PTL DEF Spec, FairRun
<1>11. Spec /\ FairRun => (Stage("none") ~> Out)
    BY <1>2, <1>5, <1>8, <1>10, TypeCorrect, PTL DEF Spec, FairRun
<1>12. Spec /\ FairRun => (At(s, c) ~> Out)
    BY <1>1, <1>9, <1>10, <1>11, TypeCorrect, PTL DEF Spec
<1> QED
    BY <1>12 DEF Out

\* A suite has at most four cases.  Each of them is the lemma with numbers for
\* its constants.
LEMMA SuiteEnds ==
    ASSUME NEW s \in 1..3, NEW t, t = s + 1
    PROVE  Spec /\ FairRun => (Begins(s) ~> Begins(t))
<1>1. Spec /\ FairRun => (At(s, 1) ~> At(s, 2) \/ Begins(t))
    <2> SUFFICES ASSUME NEW c, c = 1, NEW d, d = 2
                 PROVE  Spec /\ FairRun => (At(s, 1) ~> At(s, 2) \/ Begins(t))
        OBVIOUS
    <2>0. c \in 1..5 /\ d = c + 1
        OBVIOUS
    <2>1. Spec /\ FairRun => (At(s, c) ~> At(s, d) \/ Begins(t))
        BY <2>0, CaseEnds, Zenon
    <2>2. (At(s, 1) => At(s, c)) /\ (At(s, d) => At(s, 2))
        BY DEF At
    <2> QED
        BY <2>1, <2>2, PTL
<1>2. Spec /\ FairRun => (At(s, 2) ~> At(s, 3) \/ Begins(t))
    <2> SUFFICES ASSUME NEW c, c = 2, NEW d, d = 3
                 PROVE  Spec /\ FairRun => (At(s, 2) ~> At(s, 3) \/ Begins(t))
        OBVIOUS
    <2>0. c \in 1..5 /\ d = c + 1
        OBVIOUS
    <2>1. Spec /\ FairRun => (At(s, c) ~> At(s, d) \/ Begins(t))
        BY <2>0, CaseEnds, Zenon
    <2>2. (At(s, 2) => At(s, c)) /\ (At(s, d) => At(s, 3))
        BY DEF At
    <2> QED
        BY <2>1, <2>2, PTL
<1>3. Spec /\ FairRun => (At(s, 3) ~> At(s, 4) \/ Begins(t))
    <2> SUFFICES ASSUME NEW c, c = 3, NEW d, d = 4
                 PROVE  Spec /\ FairRun => (At(s, 3) ~> At(s, 4) \/ Begins(t))
        OBVIOUS
    <2>0. c \in 1..5 /\ d = c + 1
        OBVIOUS
    <2>1. Spec /\ FairRun => (At(s, c) ~> At(s, d) \/ Begins(t))
        BY <2>0, CaseEnds, Zenon
    <2>2. (At(s, 3) => At(s, c)) /\ (At(s, d) => At(s, 4))
        BY DEF At
    <2> QED
        BY <2>1, <2>2, PTL
<1>4. Spec /\ FairRun => (At(s, 4) ~> At(s, 5) \/ Begins(t))
    <2> SUFFICES ASSUME NEW c, c = 4, NEW d, d = 5
                 PROVE  Spec /\ FairRun => (At(s, 4) ~> At(s, 5) \/ Begins(t))
        OBVIOUS
    <2>0. c \in 1..5 /\ d = c + 1
        OBVIOUS
    <2>1. Spec /\ FairRun => (At(s, c) ~> At(s, d) \/ Begins(t))
        BY <2>0, CaseEnds, Zenon
    <2>2. (At(s, 4) => At(s, c)) /\ (At(s, d) => At(s, 5))
        BY DEF At
    <2> QED
        BY <2>1, <2>2, PTL
<1>5. Spec /\ FairRun => (At(s, 5) ~> At(s, 6) \/ Begins(t))
    <2> SUFFICES ASSUME NEW c, c = 5, NEW d, d = 6
                 PROVE  Spec /\ FairRun => (At(s, 5) ~> At(s, 6) \/ Begins(t))
        OBVIOUS
    <2>0. c \in 1..5 /\ d = c + 1
        OBVIOUS
    <2>1. Spec /\ FairRun => (At(s, c) ~> At(s, d) \/ Begins(t))
        BY <2>0, CaseEnds, Zenon
    <2>2. (At(s, 5) => At(s, c)) /\ (At(s, d) => At(s, 6))
        BY DEF At
    <2> QED
        BY <2>1, <2>2, PTL
<1>6. TypeOK => ~At(s, 6)
    BY DEF TypeOK, At
<1>7. Begins(s) => At(s, 1)
    BY DEF Begins
<1> QED
    BY <1>1, <1>2, <1>3, <1>4, <1>5, <1>6, <1>7, TypeCorrect, PTL DEF Spec

\* A run ends, though no call of it may ever be answered.
THEOREM RunsEnd == Spec /\ FairRun => RunEnds
<1>1. Init => Begins(1)
    BY DEF Init, At, Begins
<1>2. Spec /\ FairRun => (Begins(1) ~> Begins(2))
    <2> SUFFICES ASSUME NEW s, s = 1, NEW t, t = 2
                 PROVE  Spec /\ FairRun => (Begins(1) ~> Begins(2))
        OBVIOUS
    <2>1. Spec /\ FairRun => (Begins(s) ~> Begins(t))
        BY SuiteEnds
    <2>2. (Begins(1) => Begins(s)) /\ (Begins(t) => Begins(2))
        BY DEF At, Begins
    <2> QED
        BY <2>1, <2>2, PTL
<1>3. Spec /\ FairRun => (Begins(2) ~> Begins(3))
    <2> SUFFICES ASSUME NEW s, s = 2, NEW t, t = 3
                 PROVE  Spec /\ FairRun => (Begins(2) ~> Begins(3))
        OBVIOUS
    <2>1. Spec /\ FairRun => (Begins(s) ~> Begins(t))
        BY SuiteEnds
    <2>2. (Begins(2) => Begins(s)) /\ (Begins(t) => Begins(3))
        BY DEF At, Begins
    <2> QED
        BY <2>1, <2>2, PTL
<1>4. Spec /\ FairRun => (Begins(3) ~> Begins(4))
    <2> SUFFICES ASSUME NEW s, s = 3, NEW t, t = 4
                 PROVE  Spec /\ FairRun => (Begins(3) ~> Begins(4))
        OBVIOUS
    <2>1. Spec /\ FairRun => (Begins(s) ~> Begins(t))
        BY SuiteEnds
    <2>2. (Begins(3) => Begins(s)) /\ (Begins(t) => Begins(4))
        BY DEF At, Begins
    <2> QED
        BY <2>1, <2>2, PTL
<1>5. TypeOK /\ [Next]_vars /\ Begins(4) => Begins(4)' \/ Over'
    <2> SUFFICES ASSUME TypeOK, [Next]_vars, Begins(4) PROVE Begins(4)' \/ Over'
        OBVIOUS
    <2>1. CASE Exit
        BY <2>1 DEF Exit, Over
    <2>2. CASE OtherClients \/ UNCHANGED vars
        BY <2>2 DEF OtherClients, vars, At, Begins
    <2> QED
        BY <2>1, <2>2 DEF Next, Step, SkipSuite, Send, Record, EndSuite, AnyServes,
                          LonghaulServes, Expire, At, Begins, Selected, TypeOK
<1>6. TypeOK /\ Begins(4) /\ <<Step>>_vars => Over'
    BY DEF Step, SkipSuite, Send, Record, EndSuite, Exit, At, Begins, Selected, Over, TypeOK
<1>7. Begins(4) => CanStep \/ Over
    BY DEF At, Begins, CanStep, Over
<1>8. Spec /\ FairRun => (Begins(4) ~> Over)
    BY <1>5, <1>6, <1>7, TypeCorrect, PTL DEF Spec, FairRun
<1> QED
    BY <1>1, <1>2, <1>3, <1>4, <1>8, PTL DEF Spec, RunEnds
=============================================================================
