------------------------ MODULE ToolRoundTrip_proofs ------------------------
(***************************************************************************)
(* Theorems about ToolRoundTrip, for any number of attempts, candidates    *)
(* and task ids.                                                           *)
(***************************************************************************)
EXTENDS ToolRoundTrip, TLAPS

-----------------------------------------------------------------------------
\* Replies

LEMMA ReplyFacts ==
    /\ NoReply \in Reply /\ Invalid \in Reply /\ StoreError \in Reply
    /\ \A id \in Ids : Handle(id) \in Reply
    /\ \A s \in SUBSET Subs : InputRequired(s) \in Reply
    /\ NoReply.kind = "none" /\ Invalid.kind = "invalid" /\ StoreError.kind = "storeError"
    /\ \A id : Handle(id).kind = "task" /\ Handle(id).task = id /\ Handle(id).offered = {}
    /\ \A s : InputRequired(s).kind = "inputRequired" /\ InputRequired(s).offered = s
    /\ NoReply.offered = {} /\ Invalid.offered = {} /\ StoreError.offered = {}
<1>1. Invalid = [kind |-> "invalid", task |-> None, offered |-> {}]
    BY DEF Invalid, NoReply
<1>2. StoreError = [kind |-> "storeError", task |-> None, offered |-> {}]
    BY DEF StoreError, NoReply
<1> QED
    BY <1>1, <1>2 DEF Reply, NoReply, Handle, InputRequired

LEMMA ReplyKinds ==
    ASSUME NEW r \in Reply
    PROVE  /\ r.kind = "task" => r.task \in Ids
           /\ r.offered \in SUBSET Subs
           /\ r.kind = "inputRequired" => r.offered \in SUBSET Subs
    BY DEF Reply

-----------------------------------------------------------------------------
\* What a spawn does: a task of this attempt under an id that had none and its
\* handle as the answer, or an error and nothing else.
Spawned(a, dir, id) ==
    /\ id \in Ids /\ store[id] = NoTask
    /\ store' = [store EXCEPT ![id] = [dir |-> dir, by |-> a]]
    /\ reply' = [reply EXCEPT ![a] = Handle(id)]
    /\ step' = [step EXCEPT ![a] = "answered"]

Refused(a, r) ==
    /\ UNCHANGED store
    /\ reply' = [reply EXCEPT ![a] = r]
    /\ step' = [step EXCEPT ![a] = "answered"]

LEMMA SpawnCases ==
    ASSUME NEW a, NEW dir, Spawn(a, dir)
    PROVE  (\E id \in Ids : Spawned(a, dir, id)) \/ Refused(a, StoreError)
    BY DEF Spawn, Spawned, Refused, Answer, Goto

\* The steps of an attempt, by what they do to step, reply and store.
Proceeds(a) ==
    /\ step[a] \in {"called", "isDir", "readDir", "look"}
    /\ step' \in {[step EXCEPT ![a] = s] : s \in {"isDir", "readDir", "look"}}
    /\ UNCHANGED <<reply, store>>
    /\ \A b \in Attempts \ {a} : todo'[b] = todo[b] /\ found'[b] = found[b]
    /\ todo' \in [Attempts -> SUBSET Subs] /\ found' \in [Attempts -> SUBSET Subs]
    /\ step'[a] # "look" => todo'[a] = {} /\ found'[a] = {}
    /\ seen \subseteq seen' /\ seen' \subseteq Paths
    /\ found'[a] \subseteq found[a] \cup seen'
    /\ step[a] = "called" => Root \in seen' /\ ~Retries(request[a])

\* r is an answer that the attempt may get from its step.
Answers(a, r) ==
    /\ Refused(a, r)
    /\ \/ r = StoreError
       \/ r = Invalid /\ step[a] = "called" /\ ~Retries(request[a])
       \/ r = Invalid /\ request[a].choice \notin request[a].token.candidates
       \/ step[a] = "look" /\ r = InputRequired(found[a])

Indexes(a, dir, id) ==
    /\ Spawned(a, dir, id)
    /\ \/ step[a] = "isDir" /\ dir = Root
       \/ step[a] = "look" /\ (dir = Root \/ dir \in found[a])
       \/ /\ step[a] = "called" /\ Retries(request[a])
          /\ dir = request[a].choice /\ dir \in request[a].token.candidates

Ends(a) ==
    /\ step[a] \in {"called", "isDir", "look"}
    /\ \A b \in Attempts \ {a} : todo'[b] = todo[b] /\ found'[b] = found[b]
    /\ todo' \in [Attempts -> SUBSET Subs] /\ found' \in [Attempts -> SUBSET Subs]
    /\ todo'[a] = {} /\ found'[a] = {}
    /\ UNCHANGED seen
    /\ \/ \E r \in Reply : Answers(a, r)
       \/ \E dir \in Paths, id \in Ids : Indexes(a, dir, id)

LEMMA ServeCases ==
    ASSUME TypeOK, NEW a \in Attempts, Serve(a)
    PROVE  /\ Proceeds(a) \/ Ends(a)
           /\ UNCHANGED <<fsVars, request, clientVars>>
<1> USE DEF TypeOK
<1>1. CASE Exists(a)
    <2>1. /\ UNCHANGED <<fsVars, request, todo, found, clientVars>>
          /\ step[a] = "called" /\ ~Retries(request[a])
        BY <1>1 DEF Exists
    <2>2. CASE Answer(a, Invalid) /\ UNCHANGED <<store, seen>>
        <3>1. Answers(a, Invalid)
            BY <2>1, <2>2 DEF Answers, Refused, Answer, Goto
        <3> QED
            BY <2>1, <2>2, <3>1, ReplyFacts DEF Ends
    <2>3. CASE Goto(a, "isDir") /\ seen' = seen \cup {Root} /\ UNCHANGED <<reply, store>>
        BY <2>1, <2>3 DEF Proceeds, Goto, Paths
    <2> QED
        BY <1>1, <2>2, <2>3 DEF Exists
<1>2. CASE IsDir(a)
    <2>1. UNCHANGED <<fsVars, request, todo, found, clientVars>> /\ step[a] = "isDir"
        BY <1>2 DEF IsDir, Spawn
    <2>2. CASE Goto(a, "readDir") /\ UNCHANGED <<reply, store, seen>>
        BY <2>1, <2>2 DEF Proceeds, Goto
    <2>3. CASE Spawn(a, Root)
        <3>0. UNCHANGED seen
            BY <2>3 DEF Spawn
        <3>1. CASE Refused(a, StoreError)
            BY <2>1, <3>0, <3>1, ReplyFacts DEF Ends, Answers
        <3>2. ASSUME NEW id \in Ids, Spawned(a, Root, id) PROVE Ends(a)
            <4>1. Indexes(a, Root, id)
                BY <2>1, <3>2 DEF Indexes
            <4> QED
                BY <2>1, <3>0, <4>1 DEF Ends, Paths
        <3> QED
            BY <2>1, <2>3, <3>1, <3>2, SpawnCases
    <2> QED
        BY <1>2, <2>1, <2>2, <2>3 DEF IsDir
<1>3. CASE ReadDir(a)
    BY <1>3 DEF ReadDir, Proceeds, Goto
<1>4. ASSUME NEW e \in Subs, LookAt(a, e) PROVE Proceeds(a) /\ UNCHANGED <<fsVars, request, clientVars>>
    <2>1. step[a] = "look" /\ UNCHANGED <<step, reply, store, request, clientVars>>
        BY <1>4 DEF LookAt
    <2>2. step' = [step EXCEPT ![a] = "look"]
        BY <2>1
    <2>3. /\ found' = [found EXCEPT ![a] = @ \cup ({e} \cap subs)]
          /\ seen' = seen \cup ({e} \cap subs)
          /\ todo' = [todo EXCEPT ![a] = @ \ {e}]
        BY <1>4 DEF LookAt
    <2> QED
        BY <1>4, <2>1, <2>2, <2>3 DEF LookAt, Proceeds, Paths
<1>5. CASE Decide(a)
    <2>1. /\ step[a] = "look" /\ todo[a] = {}
          /\ found' = [found EXCEPT ![a] = {}]
          /\ UNCHANGED <<fsVars, request, todo, seen, clientVars>>
        BY <1>5 DEF Decide, Spawn
    <2>2. CASE Answer(a, InputRequired(found[a])) /\ UNCHANGED store
        <3>1. Answers(a, InputRequired(found[a]))
            BY <2>1, <2>2 DEF Answers, Refused, Answer, Goto
        <3>2. InputRequired(found[a]) \in Reply
            BY ReplyFacts
        <3> QED
            BY <2>1, <3>1, <3>2 DEF Ends
    <2>3. ASSUME NEW dir \in found[a] \cup {Root}, Spawn(a, dir) PROVE Ends(a)
        <3>1. CASE Refused(a, StoreError)
            BY <2>1, <3>1, ReplyFacts DEF Ends, Answers
        <3>2. ASSUME NEW id \in Ids, Spawned(a, dir, id) PROVE Ends(a)
            <4>1. Indexes(a, dir, id)
                BY <2>1, <3>2 DEF Indexes
            <4>2. dir \in Paths
                BY DEF Paths
            <4> QED
                BY <2>1, <4>1, <4>2 DEF Ends
        <3> QED
            BY <2>3, <3>1, <3>2, SpawnCases
    <2> QED
        BY <1>5, <2>1, <2>2, <2>3 DEF Decide
<1>6. CASE HandleRetry(a)
    <2>1. /\ step[a] = "called" /\ Retries(request[a])
          /\ UNCHANGED <<fsVars, request, todo, found, seen, clientVars>>
        BY <1>6 DEF HandleRetry, Spawn
    <2>2. CASE /\ request[a].choice \notin request[a].token.candidates
               /\ Answer(a, Invalid) /\ UNCHANGED store
        <3>1. Answers(a, Invalid)
            BY <2>1, <2>2 DEF Answers, Refused, Answer, Goto
        <3> QED
            BY <2>1, <3>1, ReplyFacts DEF Ends
    <2>3. CASE request[a].choice \in request[a].token.candidates /\ Spawn(a, request[a].choice)
        <3>1. CASE Refused(a, StoreError)
            BY <2>1, <3>1, ReplyFacts DEF Ends, Answers
        <3>2. ASSUME NEW id \in Ids, Spawned(a, request[a].choice, id) PROVE Ends(a)
            <4>1. Indexes(a, request[a].choice, id)
                BY <2>1, <2>3, <3>2 DEF Indexes
            <4>2. request[a].choice \in Paths
                BY <2>3, PathsAssumption DEF Request, Token, Paths
            <4> QED
                BY <2>1, <4>1, <4>2 DEF Ends
        <3> QED
            BY <2>1, <2>3, <3>1, <3>2, SpawnCases
    <2> QED
        BY <1>6, <2>1, <2>2, <2>3 DEF HandleRetry
<1>7. CASE MissingPath(a)
    <2>1. /\ UNCHANGED <<fsVars, request, todo, found, store, seen, clientVars>>
          /\ step[a] = "called" /\ ~Retries(request[a]) /\ Answer(a, Invalid)
        BY <1>7 DEF MissingPath
    <2>2. Answers(a, Invalid)
        BY <2>1 DEF Answers, Refused, Answer, Goto
    <2> QED
        BY <2>1, <2>2, ReplyFacts DEF Ends
<1> QED
    BY <1>1, <1>2, <1>3, <1>4, <1>5, <1>6, <1>7 DEF Serve

-----------------------------------------------------------------------------
\* What the client does: it sends the first call, or a retry, whose token is from
\* a server only if it was handed on.
Sends(r) ==
    /\ Send(r)
    /\ r \in Request
    /\ r.token.from = "server" => r.token \in {offered} \cup {request[a].token : a \in Attempts}
    /\ phase' \in {"calling", "retrying"}
    /\ UNCHANGED offered

LEMMA RequestFacts ==
    /\ NoToken \in Token /\ Garbled \in Token
    /\ \A s \in SUBSET Paths : Own(s) \in Token /\ Issued(s) \in Token
    /\ NoToken.from = "none" /\ Garbled.from = "garbled"
    /\ \A s : Own(s).from = "client" /\ Issued(s).from = "server" /\ Issued(s).candidates = s
    /\ \A path \in BOOLEAN : /\ FirstCall(path) \in Request /\ ~Retries(FirstCall(path))
                             /\ FirstCall(path).token = NoToken
    /\ \A choice \in Paths \cup {None}, token \in Token :
          Retry(choice, token) \in Request /\ Retry(choice, token).token = token
    /\ \A s \in SUBSET Subs : s \in SUBSET Paths
    /\ NoToken.candidates = {}
<1>1. /\ NoToken \in Token /\ Garbled \in Token
      /\ \A s \in SUBSET Paths : Own(s) \in Token /\ Issued(s) \in Token
      /\ NoToken.from = "none" /\ Garbled.from = "garbled" /\ NoToken.candidates = {}
      /\ \A s : Own(s).from = "client" /\ Issued(s).from = "server" /\ Issued(s).candidates = s
    BY DEF NoToken, Garbled, Own, Issued, Token
<1>2. \A path \in BOOLEAN : /\ FirstCall(path) \in Request /\ ~Retries(FirstCall(path))
                            /\ FirstCall(path).token = NoToken
    BY <1>1 DEF FirstCall, Request, Retries
<1>3. \A choice \in Paths \cup {None}, token \in Token :
          Retry(choice, token) \in Request /\ Retry(choice, token).token = token
    BY DEF Retry, Request
<1>4. \A s \in SUBSET Subs : s \in SUBSET Paths
    BY DEF Paths
<1> QED
    BY <1>1, <1>2, <1>3, <1>4

LEMMA SendCases ==
    ASSUME TypeOK, Call \/ Choose \/ Resend
    PROVE  \E r \in Request : Sends(r)
<1> USE DEF TypeOK
<1>1. CASE Call
    <2>1. PICK path \in BOOLEAN : Send(FirstCall(path))
        BY <1>1 DEF Call
    <2>2. Sends(FirstCall(path))
        BY <1>1, <2>1, RequestFacts DEF Call, Sends
    <2> QED
        BY <2>2, RequestFacts
<1>2. CASE Choose
    <2>0. phase' = "retrying" /\ UNCHANGED offered /\ offered \in Token
        BY <1>2, RequestFacts DEF Choose
    <2>1. ASSUME NEW choice \in Paths \cup {None}, NEW s \in OwnLists,
                 NEW token \in {offered, Garbled, Own(s)}, Send(Retry(choice, token))
          PROVE  Sends(Retry(choice, token))
        <3>1. token \in Token
            BY <2>0, RequestFacts, OwnListsAssumption
        <3>2. token.from = "server" => token = offered
            BY RequestFacts
        <3> QED
            BY <2>0, <2>1, <3>1, <3>2, RequestFacts DEF Sends
    <2>2. ASSUME NEW choice \in Paths \cup {None}, NEW token \in {offered, Garbled},
                 Send(Retry(choice, token))
          PROVE  Sends(Retry(choice, token))
        <3>1. token \in Token
            BY <2>0, RequestFacts
        <3>2. token.from = "server" => token = offered
            BY RequestFacts
        <3> QED
            BY <2>0, <2>2, <3>1, <3>2, RequestFacts DEF Sends
    <2>3. ASSUME NEW r, r = [FirstCall(TRUE) EXCEPT !.responses = TRUE], Send(r)
          PROVE  Sends(r)
        <3>1. r \in Request /\ r.token = NoToken
            BY <2>3, RequestFacts DEF FirstCall, Request
        <3> QED
            BY <2>0, <2>3, <3>1, RequestFacts DEF Sends
    <2>4. ASSUME NEW r, r = [FirstCall(TRUE) EXCEPT !.token = offered], Send(r)
          PROVE  Sends(r)
        <3>1. r \in Request /\ r.token = offered
            BY <2>0, <2>4 DEF FirstCall, Request
        <3> QED
            BY <2>0, <2>4, <3>1 DEF Sends
    <2>5. \E r : Sends(r)
        BY <1>2, <2>1, <2>2, <2>3, <2>4 DEF Choose
    <2> QED
        BY <2>5 DEF Sends
<1>3. CASE Resend
    <2>1. current \in Attempts /\ request[current] \in Request
        BY <1>3 DEF Resend
    <2>2. Sends(request[current])
        BY <1>3, <2>1 DEF Resend, Sends
    <2> QED
        BY <2>1, <2>2
<1> QED
    BY <1>1, <1>2, <1>3

LEMMA SendFacts ==
    ASSUME TypeOK, NEW r \in Request, Send(r)
    PROVE  /\ current' \in Attempts /\ current' = current + 1
           /\ step[current'] = "unused" /\ reply[current'] = NoReply
           /\ step' = [step EXCEPT ![current'] = "called"]
           /\ request' = [request EXCEPT ![current'] = r]
           /\ \A a \in Attempts : a > current' <=> step'[a] = "unused"
           /\ \A a \in Attempts : step'[a] = "answered" <=> reply[a] # NoReply
           /\ UNCHANGED <<fsVars, todo, found, reply, store, seen>>
<1> USE DEF TypeOK
<1>1. current' \in Attempts /\ current' = current + 1
    BY AttemptsAssumption DEF Send, Attempts
<1>2. step[current'] = "unused"
    BY <1>1, AttemptsAssumption DEF Attempts
<1>3. reply[current'] = NoReply
    BY <1>1, <1>2
<1>4. /\ step' = [step EXCEPT ![current'] = "called"]
      /\ request' = [request EXCEPT ![current'] = r]
      /\ UNCHANGED <<fsVars, todo, found, reply, store, seen>>
    BY DEF Send
<1>5. \A a \in Attempts : a > current' <=> step'[a] = "unused"
    BY <1>1, <1>2, <1>4, AttemptsAssumption DEF Attempts
<1>6. \A a \in Attempts : step'[a] = "answered" <=> reply[a] # NoReply
    BY <1>1, <1>2, <1>3, <1>4
<1> QED
    BY <1>1, <1>2, <1>3, <1>4, <1>5, <1>6

LEMMA NextCases ==
    ASSUME TypeOK, [Next]_vars
    PROVE  \/ \E a \in Attempts : Proceeds(a) /\ UNCHANGED <<fsVars, request, clientVars>>
           \/ \E a \in Attempts : Ends(a) /\ UNCHANGED <<fsVars, request, clientVars>>
           \/ \E a \in Attempts : Lose(a)
           \/ \E r \in Request : Sends(r)
           \/ Receive
           \/ FsChange
           \/ UNCHANGED vars
<1>1. ASSUME NEW a \in Attempts, Serve(a)
      PROVE  \E b \in Attempts : /\ Proceeds(b) \/ Ends(b)
                                 /\ UNCHANGED <<fsVars, request, clientVars>>
    BY <1>1, ServeCases
<1>2. CASE Call \/ Choose \/ Resend
    BY <1>2, SendCases
<1> QED
    BY <1>1, <1>2 DEF Next

-----------------------------------------------------------------------------
\* Type correctness.

LEMMA InitFacts ==
    ASSUME Init
    PROVE  /\ request \in [Attempts -> Request]
           /\ \A a \in Attempts : ~Retries(request[a]) /\ request[a].token = NoToken
<1>1. FirstCall(FALSE) \in Request /\ ~Retries(FirstCall(FALSE)) /\ FirstCall(FALSE).token = NoToken
    BY RequestFacts
<1> QED
    BY <1>1 DEF Init

LEMMA TypeInit == Init => TypeOK
<1> SUFFICES ASSUME Init PROVE TypeOK
    OBVIOUS
<1>1. /\ root \in {"gone", "file", "dir"} /\ subs \subseteq Subs /\ (subs # {} => root = "dir")
      /\ offered = NoToken /\ seen = {} /\ phase = "calling"
    BY DEF Init
<1>2. /\ reply \in [Attempts -> Reply] /\ store \in [Ids -> {NoTask}]
      /\ step \in [Attempts -> {"unused"}]
      /\ todo \in [Attempts -> {{}}] /\ found \in [Attempts -> {{}}]
      /\ \A a \in Attempts : reply[a] = NoReply
    BY ReplyFacts DEF Init
<1>3. current = 0 /\ current \in 0..MaxAttempts /\ \A a \in Attempts : a > current
    BY AttemptsAssumption DEF Init, Attempts
<1> QED
    BY <1>1, <1>2, <1>3, InitFacts DEF TypeOK

LEMMA TypeStep == TypeOK /\ [Next]_vars => TypeOK'
<1> SUFFICES ASSUME TypeOK, [Next]_vars PROVE TypeOK'
    OBVIOUS
<1>1. ASSUME NEW a \in Attempts, Proceeds(a), UNCHANGED <<fsVars, request, clientVars>>
      PROVE  TypeOK'
    BY <1>1 DEF Proceeds, fsVars, clientVars, TypeOK
<1>2. ASSUME NEW a \in Attempts, Ends(a), UNCHANGED <<fsVars, request, clientVars>>
      PROVE  TypeOK'
    <2>1. ASSUME NEW r \in Reply, Answers(a, r) PROVE TypeOK'
        <3>1. r # NoReply
            BY <2>1, ReplyFacts DEF Answers
        <3>2. /\ step' = [step EXCEPT ![a] = "answered"]
              /\ reply' = [reply EXCEPT ![a] = r]
              /\ UNCHANGED store
            BY <2>1 DEF Answers, Refused
        <3> QED
            BY <1>2, <3>1, <3>2 DEF Ends, fsVars, clientVars, TypeOK
    <2>2. ASSUME NEW dir \in Paths, NEW id \in Ids, Indexes(a, dir, id) PROVE TypeOK'
        <3>1. Handle(id) # NoReply /\ Handle(id) \in Reply
            BY ReplyFacts
        <3>2. /\ step' = [step EXCEPT ![a] = "answered"]
              /\ reply' = [reply EXCEPT ![a] = Handle(id)]
              /\ store' = [store EXCEPT ![id] = [dir |-> dir, by |-> a]]
            BY <2>2 DEF Indexes, Spawned
        <3> QED
            BY <1>2, <3>1, <3>2 DEF Ends, fsVars, clientVars, TypeOK
    <2> QED
        BY <1>2, <2>1, <2>2 DEF Ends, TypeOK
<1>3. ASSUME NEW a \in Attempts, Lose(a) PROVE TypeOK'
    BY <1>3, ReplyFacts DEF Lose, Goto, fsVars, clientVars, TypeOK
<1>4. ASSUME NEW r \in Request, Sends(r) PROVE TypeOK'
    <2>1. Send(r) /\ phase' \in {"calling", "retrying"} /\ UNCHANGED offered
        BY <1>4 DEF Sends
    <2>2. /\ current' \in Attempts
          /\ step' = [step EXCEPT ![current'] = "called"]
          /\ request' = [request EXCEPT ![current'] = r]
          /\ \A a \in Attempts : a > current' <=> step'[a] = "unused"
          /\ \A a \in Attempts : step'[a] = "answered" <=> reply[a] # NoReply
          /\ step[current'] = "unused"
          /\ UNCHANGED <<root, subs, todo, found, reply, store, seen>>
        BY <2>1, SendFacts DEF fsVars
    <2>3. current' \in 0..MaxAttempts
        BY <2>2, AttemptsAssumption DEF Attempts
    <2>4. \A a \in Attempts : step'[a] # "look" => todo'[a] = {} /\ found'[a] = {}
        BY <2>2 DEF TypeOK
    <2>5. step' \in [Attempts -> {"unused", "called", "isDir", "readDir", "look",
                                  "answered", "lost"}]
          /\ request' \in [Attempts -> Request]
        BY <2>2 DEF TypeOK
    <2> QED
        BY <2>1, <2>2, <2>3, <2>4, <2>5 DEF TypeOK
<1>5. CASE Receive
    <2>1. current \in Attempts /\ UNCHANGED <<fsVars, serverVars, current>>
        BY <1>5 DEF Receive, WaitsFor, TypeOK
    <2>2. reply[current].offered \in SUBSET Subs
        BY <2>1, ReplyKinds DEF TypeOK
    <2> QED
        BY <1>5, <2>1, <2>2 DEF Receive, fsVars, serverVars, TypeOK
<1>6. CASE FsChange
    BY <1>6 DEF FsChange, serverVars, clientVars, TypeOK
<1>7. CASE UNCHANGED vars
    BY <1>7 DEF vars, fsVars, serverVars, clientVars, TypeOK
<1> QED
    BY <1>1, <1>2, <1>3, <1>4, <1>5, <1>6, <1>7, NextCases

\* Every variable keeps its type.  The locals of an attempt are gone when it is
\* over, and there is an answer exactly while the attempt is answered.
THEOREM TypeCorrect == Spec => []TypeOK
<1>1. Init => TypeOK
    BY TypeInit
<1>2. TypeOK /\ [Next]_vars => TypeOK'
    BY TypeStep
<1> QED
    BY <1>1, <1>2, PTL DEF Spec

-----------------------------------------------------------------------------
\* An answer tells what was stored.  An attempt stores at most once, when it is
\* answered: before that no task is its own.
EffectInv ==
    /\ AnswerTellsEffect
    /\ \A a \in Attempts : step[a] \notin {"answered", "lost"} => TasksOf(a) = {}

LEMMA TasksAfterSpawn ==
    ASSUME TypeOK, NEW a \in Attempts, NEW dir \in Paths, NEW id \in Ids, Spawned(a, dir, id)
    PROVE  /\ TasksOf(a)' = TasksOf(a) \cup {id}
           /\ \A b \in Attempts \ {a} : TasksOf(b)' = TasksOf(b)
<1>1. store'[id].by = a /\ store[id].by = 0
    BY DEF Spawned, NoTask, TypeOK
<1>2. \A i \in Ids \ {id} : store'[i] = store[i]
    BY DEF Spawned, TypeOK
<1>3. \A b \in Attempts : b # 0
    BY AttemptsAssumption DEF Attempts
<1> QED
    BY <1>1, <1>2, <1>3 DEF TasksOf

LEMMA EffectStep == TypeOK /\ EffectInv /\ [Next]_vars => EffectInv'
<1> SUFFICES ASSUME TypeOK, EffectInv, [Next]_vars PROVE EffectInv'
    OBVIOUS
<1>1. ASSUME NEW a \in Attempts, Proceeds(a) PROVE EffectInv'
    <2>1. \A b \in Attempts : TasksOf(b)' = TasksOf(b)
        BY <1>1 DEF Proceeds, TasksOf
    <2>2. \A b \in Attempts : step'[b] = step[b] \/ (b = a /\ step'[b] \notin {"answered", "lost"})
        BY <1>1 DEF Proceeds, TypeOK
    <2>3. TasksOf(a) = {} /\ UNCHANGED reply
        BY <1>1 DEF Proceeds, EffectInv
    <2> QED
        BY <2>1, <2>2, <2>3 DEF EffectInv, AnswerTellsEffect
<1>2. ASSUME NEW a \in Attempts, Ends(a) PROVE EffectInv'
    <2>0. TasksOf(a) = {}
        BY <1>2 DEF Ends, EffectInv
    <2>1. ASSUME NEW r \in Reply, Answers(a, r) PROVE EffectInv'
        <3>1. r.kind # "task"
            BY <2>1, ReplyFacts DEF Answers
        <3>2. \A b \in Attempts : TasksOf(b)' = TasksOf(b)
            BY <2>1 DEF Answers, Refused, TasksOf
        <3>3. /\ step'[a] = "answered" /\ reply'[a] = r
              /\ \A b \in Attempts \ {a} : step'[b] = step[b] /\ reply'[b] = reply[b]
            BY <2>1 DEF Answers, Refused, TypeOK
        <3> QED
            BY <2>0, <3>1, <3>2, <3>3 DEF EffectInv, AnswerTellsEffect
    <2>2. ASSUME NEW dir \in Paths, NEW id \in Ids, Indexes(a, dir, id) PROVE EffectInv'
        <3>0. Spawned(a, dir, id)
            BY <2>2 DEF Indexes
        <3>1. TasksOf(a)' = {id} /\ \A b \in Attempts \ {a} : TasksOf(b)' = TasksOf(b)
            BY <2>0, <3>0, TasksAfterSpawn
        <3>2. /\ step'[a] = "answered" /\ reply'[a] = Handle(id)
              /\ \A b \in Attempts \ {a} : step'[b] = step[b] /\ reply'[b] = reply[b]
            BY <3>0 DEF Spawned, TypeOK
        <3> QED
            BY <3>1, <3>2, ReplyFacts DEF EffectInv, AnswerTellsEffect
    <2> QED
        BY <1>2, <2>1, <2>2 DEF Ends
<1>3. ASSUME NEW a \in Attempts, Lose(a) PROVE EffectInv'
    <2>1. \A b \in Attempts : TasksOf(b)' = TasksOf(b)
        BY <1>3 DEF Lose, TasksOf
    <2>2. /\ step'[a] = "lost"
          /\ \A b \in Attempts \ {a} : step'[b] = step[b] /\ reply'[b] = reply[b]
        BY <1>3 DEF Lose, Goto, TypeOK
    <2> QED
        BY <2>1, <2>2 DEF EffectInv, AnswerTellsEffect
<1>4. ASSUME NEW r \in Request, Sends(r) PROVE EffectInv'
    <2>1. Send(r)
        BY <1>4 DEF Sends
    <2>2. /\ current' \in Attempts /\ step[current'] = "unused"
          /\ step' = [step EXCEPT ![current'] = "called"]
          /\ UNCHANGED <<reply, store>>
        BY <2>1, SendFacts
    <2>3. \A b \in Attempts : TasksOf(b)' = TasksOf(b)
        BY <2>2 DEF TasksOf
    <2>4. step'[current'] \notin {"answered", "lost"} /\ TasksOf(current') = {}
          /\ \A b \in Attempts \ {current'} : step'[b] = step[b]
        BY <2>2 DEF TypeOK, EffectInv
    <2> QED
        BY <2>2, <2>3, <2>4 DEF EffectInv, AnswerTellsEffect
<1>5. CASE Receive \/ FsChange \/ UNCHANGED vars
    BY <1>5 DEF Receive, FsChange, vars, serverVars, EffectInv, AnswerTellsEffect, TasksOf
<1> QED
    BY <1>1, <1>2, <1>3, <1>4, <1>5, NextCases

LEMMA EffectInvariant == Spec => []EffectInv
<1>1. Init => EffectInv
    BY AttemptsAssumption DEF Init, EffectInv, AnswerTellsEffect, TasksOf, NoTask, Attempts
<1>2. TypeOK /\ EffectInv /\ [Next]_vars => EffectInv'
    BY EffectStep
<1> QED
    BY <1>1, <1>2, TypeCorrect, PTL DEF Spec

\* An attempt that was answered with a handle has stored that task and no other,
\* one that was answered with anything else has stored none.
THEOREM AnswersTellTheEffect == Spec => []AnswerTellsEffect
<1>1. EffectInv => AnswerTellsEffect
    BY DEF EffectInv
<1> QED
    BY <1>1, EffectInvariant, PTL

-----------------------------------------------------------------------------
\* The choice.  Only handle_retry sees one; it accepts what the token offers, and
\* the task under a handle is not replaced.
ChoiceInv ==
    /\ HonestRetryAccepted
    /\ \A a \in Attempts : Retries(request[a]) =>
        /\ step[a] \in {"called", "answered", "lost"}
        /\ reply[a].kind = "task" => /\ store[reply[a].task].dir = request[a].choice
                                     /\ request[a].choice # None
    /\ phase = "done" => reply[current].kind = "task"

LEMMA ChoiceStep == TypeOK /\ ChoiceInv /\ [Next]_vars => ChoiceInv'
<1> SUFFICES ASSUME TypeOK, ChoiceInv, [Next]_vars PROVE ChoiceInv'
    OBVIOUS
<1>1. ASSUME NEW a \in Attempts, Proceeds(a), UNCHANGED <<fsVars, request, clientVars>>
      PROVE  ChoiceInv'
    <2>1. ~Retries(request[a])
        BY <1>1 DEF Proceeds, ChoiceInv
    <2>2. \A b \in Attempts \ {a} : step'[b] = step[b]
        BY <1>1 DEF Proceeds, TypeOK
    <2> QED
        BY <1>1, <2>1, <2>2 DEF Proceeds, ChoiceInv, HonestRetryAccepted, clientVars
<1>2. ASSUME NEW a \in Attempts, Ends(a), UNCHANGED <<fsVars, request, clientVars>>
      PROVE  ChoiceInv'
    <2>0. phase = "done" => current # a
        BY <1>2, ReplyFacts DEF Ends, ChoiceInv, TypeOK
    <2>1. ASSUME NEW r \in Reply, Answers(a, r) PROVE ChoiceInv'
        <3>1. r.kind # "task" /\ UNCHANGED store
            BY <2>1, ReplyFacts DEF Answers, Refused
        <3>2. Retries(request[a]) /\ request[a].choice \in request[a].token.candidates =>
                  r # Invalid
            BY <2>1, ReplyFacts DEF Answers, ChoiceInv
        <3>3. /\ step'[a] = "answered" /\ reply'[a] = r
              /\ \A b \in Attempts \ {a} : step'[b] = step[b] /\ reply'[b] = reply[b]
            BY <2>1 DEF Answers, Refused, TypeOK
        <3>4. UNCHANGED <<request, phase, current>>
            BY <1>2 DEF clientVars
        <3>5. phase = "done" => reply'[current].kind = "task"
            BY <2>0, <3>3 DEF ChoiceInv, TypeOK
        <3> QED
            BY <3>1, <3>2, <3>3, <3>4, <3>5 DEF ChoiceInv, HonestRetryAccepted
    <2>2. ASSUME NEW dir \in Paths, NEW id \in Ids, Indexes(a, dir, id) PROVE ChoiceInv'
        <3>0. Spawned(a, dir, id)
            BY <2>2 DEF Indexes
        <3>1. store'[id].dir = dir /\ \A i \in Ids \ {id} : store'[i] = store[i]
            BY <3>0 DEF Spawned, TypeOK
        <3>2. Retries(request[a]) => dir = request[a].choice /\ dir # None
            BY <2>2, PathsAssumption DEF Indexes, ChoiceInv, Paths
        <3>3. /\ step'[a] = "answered" /\ reply'[a] = Handle(id)
              /\ \A b \in Attempts \ {a} : step'[b] = step[b] /\ reply'[b] = reply[b]
            BY <3>0 DEF Spawned, TypeOK
        <3>4. \A b \in Attempts : Retries(request[b]) /\ reply[b].kind = "task" =>
                  reply[b].task # id /\ reply[b].task \in Ids
            BY <3>0, ReplyKinds DEF Spawned, NoTask, ChoiceInv, TypeOK
        <3>5. UNCHANGED <<request, phase, current>>
            BY <1>2 DEF clientVars
        <3>6. phase = "done" => reply'[current].kind = "task"
            BY <3>3, ReplyFacts DEF ChoiceInv, TypeOK
        <3>7. Handle(id) # Invalid /\ Handle(id).task = id
            BY ReplyFacts
        <3> QED
            BY <3>1, <3>2, <3>3, <3>4, <3>5, <3>6, <3>7 DEF ChoiceInv, HonestRetryAccepted
    <2> QED
        BY <1>2, <2>1, <2>2 DEF Ends
<1>3. ASSUME NEW a \in Attempts, Lose(a) PROVE ChoiceInv'
    <2>1. /\ step'[a] = "lost" /\ reply'[a] = NoReply
          /\ \A b \in Attempts \ {a} : step'[b] = step[b] /\ reply'[b] = reply[b]
          /\ UNCHANGED <<request, store, phase, current>>
        BY <1>3 DEF Lose, Goto, TypeOK, clientVars
    <2>2. phase = "done" => current # a
        BY <1>3, ReplyFacts DEF Lose, WaitsFor, ChoiceInv, TypeOK
    <2>3. phase = "done" => reply'[current].kind = "task"
        BY <2>1, <2>2 DEF ChoiceInv, TypeOK
    <2> QED
        BY <2>1, <2>3, ReplyFacts DEF ChoiceInv, HonestRetryAccepted
<1>4. ASSUME NEW r \in Request, Sends(r) PROVE ChoiceInv'
    <2>1. Send(r) /\ phase' # "done"
        BY <1>4 DEF Sends
    <2>2. /\ current' \in Attempts /\ reply[current'] = NoReply
          /\ step' = [step EXCEPT ![current'] = "called"]
          /\ request' = [request EXCEPT ![current'] = r]
          /\ UNCHANGED <<reply, store>>
        BY <2>1, SendFacts
    <2>3. /\ step'[current'] = "called" /\ request'[current'] = r
          /\ \A b \in Attempts \ {current'} : step'[b] = step[b] /\ request'[b] = request[b]
        BY <2>2 DEF TypeOK
    <2> QED
        BY <2>1, <2>2, <2>3, ReplyFacts DEF ChoiceInv, HonestRetryAccepted
<1>5. CASE Receive
    <2>1. UNCHANGED <<step, request, reply, store, current>>
        BY <1>5 DEF Receive, serverVars
    <2>2. phase' = "done" => reply[current].kind = "task"
        BY <1>5 DEF Receive, TypeOK
    <2> QED
        BY <2>1, <2>2 DEF ChoiceInv, HonestRetryAccepted
<1>6. CASE FsChange \/ UNCHANGED vars
    BY <1>6 DEF FsChange, vars, serverVars, clientVars, ChoiceInv, HonestRetryAccepted
<1> QED
    BY <1>1, <1>2, <1>3, <1>4, <1>5, <1>6, NextCases

LEMMA ChoiceInvariant == Spec => []ChoiceInv
<1>1. Init => ChoiceInv
    BY ReplyFacts, InitFacts DEF Init, ChoiceInv, HonestRetryAccepted
<1>2. TypeOK /\ ChoiceInv /\ [Next]_vars => ChoiceInv'
    BY ChoiceStep
<1> QED
    BY <1>1, <1>2, TypeCorrect, PTL DEF Spec

\* A client that has chosen and has a handle has the task of its choice.
THEOREM HandlesAreForChoices == Spec => []HandleIsForChoice
<1>1. TypeOK /\ ChoiceInv => HandleIsForChoice
    BY DEF ChoiceInv, HandleIsForChoice, TypeOK
<1> QED
    BY <1>1, TypeCorrect, ChoiceInvariant, PTL

\* A choice that was offered is never refused.
THEOREM HonestRetriesAccepted == Spec => []HonestRetryAccepted
<1>1. ChoiceInv => HonestRetryAccepted
    BY DEF ChoiceInv
<1> QED
    BY <1>1, ChoiceInvariant, PTL

-----------------------------------------------------------------------------
\* What is indexed was seen, unless a client's own token listed it.  So was all
\* that is found, offered, or handed on.
SeenInv ==
    /\ OnlySeenAreIndexed
    /\ offered.candidates \subseteq seen
    /\ \A a \in Attempts :
        /\ found[a] \subseteq seen
        /\ reply[a].offered \subseteq seen
        /\ request[a].token.from = "server" => request[a].token.candidates \subseteq seen
        /\ step[a] \in {"isDir", "readDir", "look"} => Root \in seen

LEMMA SeenStep == TypeOK /\ EffectInv /\ SeenInv /\ [Next]_vars => SeenInv'
<1> SUFFICES ASSUME TypeOK, EffectInv, SeenInv, [Next]_vars PROVE SeenInv'
    OBVIOUS
<1>1. ASSUME NEW a \in Attempts, Proceeds(a), UNCHANGED <<fsVars, request, clientVars>>
      PROVE  SeenInv'
    <2>1. /\ UNCHANGED <<reply, store, request, offered>>
          /\ seen \subseteq seen' /\ found'[a] \subseteq seen' /\ Root \in seen'
          /\ \A b \in Attempts \ {a} : step'[b] = step[b] /\ found'[b] = found[b]
        BY <1>1 DEF Proceeds, SeenInv, TypeOK, clientVars
    <2> QED
        BY <2>1 DEF SeenInv, OnlySeenAreIndexed
<1>2. ASSUME NEW a \in Attempts, Ends(a), UNCHANGED <<fsVars, request, clientVars>>
      PROVE  SeenInv'
    <2>0. /\ UNCHANGED <<request, offered, seen>> /\ found'[a] = {}
          /\ \A b \in Attempts \ {a} : found'[b] = found[b]
        BY <1>2 DEF Ends, clientVars
    <2>1. ASSUME NEW r \in Reply, Answers(a, r) PROVE SeenInv'
        <3>1. r.offered \subseteq seen
            BY <2>1, ReplyFacts DEF Answers, SeenInv
        <3>2. /\ step'[a] = "answered" /\ reply'[a] = r /\ UNCHANGED store
              /\ \A b \in Attempts \ {a} : step'[b] = step[b] /\ reply'[b] = reply[b]
            BY <2>1 DEF Answers, Refused, TypeOK
        <3> QED
            BY <2>0, <3>1, <3>2 DEF SeenInv, OnlySeenAreIndexed
    <2>2. ASSUME NEW dir \in Paths, NEW id \in Ids, Indexes(a, dir, id) PROVE SeenInv'
        <3>0. Spawned(a, dir, id)
            BY <2>2 DEF Indexes
        <3>1. dir \in seen \/ CarriesOwn(request[a])
            <4>1. CASE dir \in request[a].token.candidates /\ Retries(request[a])
                <5>1. request[a].token.from # "none" /\ request[a].token \in Token
                    BY <4>1 DEF Retries, Request, TypeOK
                <5>2. request[a].token.from \in {"server", "client"}
                    BY <4>1, <5>1 DEF Token
                <5> QED
                    BY <4>1, <5>2 DEF CarriesOwn, SeenInv
            <4> QED
                BY <2>2, <4>1 DEF Indexes, SeenInv
        <3>2. store'[id].dir = dir /\ store'[id].by = a /\ \A i \in Ids \ {id} : store'[i] = store[i]
            BY <3>0 DEF Spawned, TypeOK
        <3>3. /\ step'[a] = "answered" /\ reply'[a] = Handle(id)
              /\ \A b \in Attempts \ {a} : step'[b] = step[b] /\ reply'[b] = reply[b]
            BY <3>0 DEF Spawned, TypeOK
        <3> QED
            BY <2>0, <3>1, <3>2, <3>3, ReplyFacts DEF SeenInv, OnlySeenAreIndexed
    <2> QED
        BY <1>2, <2>1, <2>2 DEF Ends
<1>3. ASSUME NEW a \in Attempts, Lose(a) PROVE SeenInv'
    <2>1. /\ step'[a] = "lost" /\ reply'[a] = NoReply /\ found'[a] = {}
          /\ \A b \in Attempts \ {a} :
                step'[b] = step[b] /\ reply'[b] = reply[b] /\ found'[b] = found[b]
          /\ UNCHANGED <<request, store, seen, offered>>
        BY <1>3 DEF Lose, Goto, TypeOK, clientVars
    <2> QED
        BY <2>1, ReplyFacts DEF SeenInv, OnlySeenAreIndexed
<1>4. ASSUME NEW r \in Request, Sends(r) PROVE SeenInv'
    <2>1. Send(r) /\ UNCHANGED offered
        BY <1>4 DEF Sends
    <2>2. r.token.from = "server" => r.token.candidates \subseteq seen
        BY <1>4 DEF Sends, SeenInv
    <2>3. /\ current' \in Attempts
          /\ step' = [step EXCEPT ![current'] = "called"]
          /\ request' = [request EXCEPT ![current'] = r]
          /\ UNCHANGED <<found, reply, store, seen>>
        BY <2>1, SendFacts
    <2>4. /\ step'[current'] = "called" /\ request'[current'] = r
          /\ \A b \in Attempts \ {current'} : step'[b] = step[b] /\ request'[b] = request[b]
        BY <2>3 DEF TypeOK
    <2>5. \A id \in Ids : store[id].by # current'
        BY <2>1, <2>3, SendFacts DEF EffectInv, TasksOf
    <2> QED
        BY <2>1, <2>2, <2>3, <2>4, <2>5 DEF SeenInv, OnlySeenAreIndexed
<1>5. CASE Receive
    <2>1. current \in Attempts /\ UNCHANGED <<step, request, found, reply, store, seen>>
        BY <1>5 DEF Receive, WaitsFor, serverVars
    <2>2. offered'.candidates \subseteq seen
        BY <1>5, <2>1, RequestFacts DEF Receive, SeenInv
    <2> QED
        BY <2>1, <2>2 DEF SeenInv, OnlySeenAreIndexed
<1>6. CASE FsChange \/ UNCHANGED vars
    BY <1>6 DEF FsChange, vars, serverVars, clientVars, SeenInv, OnlySeenAreIndexed
<1> QED
    BY <1>1, <1>2, <1>3, <1>4, <1>5, <1>6, NextCases

\* No task is for a path that no server has seen, unless the client that asked
\* for it wrote the token itself.
THEOREM OnlySeenIsIndexed == Spec => []OnlySeenAreIndexed
<1>1. Init => SeenInv
    BY ReplyFacts, RequestFacts, InitFacts DEF Init, SeenInv, OnlySeenAreIndexed
<1>2. TypeOK /\ EffectInv /\ SeenInv /\ [Next]_vars => SeenInv'
    BY SeenStep
<1>3. SeenInv => OnlySeenAreIndexed
    BY DEF SeenInv
<1> QED
    BY <1>1, <1>2, <1>3, TypeCorrect, EffectInvariant, PTL DEF Spec
=============================================================================
