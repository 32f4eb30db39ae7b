--------------------------- MODULE ToolRoundTrip ---------------------------
(***************************************************************************)
(* The inputRequired round trip of index_directory (examples/indexer/src/  *)
(* main.rs): a call on a directory with several sub-directories named like *)
(* src is answered with a question and a token that lists them; the client *)
(* calls again with its choice and the token.                              *)
(*                                                                         *)
(* Each call is an HTTP request of its own, an attempt.  Answers get lost  *)
(* and servers die; then the client sends the same call again, to the same *)
(* server or another one, while the earlier attempt may still be running.  *)
(* Servers keep nothing between attempts but the tasks.  Other programs    *)
(* change the directory at any time, between any two looks at it.          *)
(***************************************************************************)
EXTENDS Naturals, FiniteSets

CONSTANTS Subs,         \* the entries with "src" in their names
          Root,         \* the path in the arguments
          Elsewhere,    \* a path that nobody has offered
          Ids,          \* task ids: Uuid::new_v4() never repeats one
          MaxAttempts,  \* bound: how often the client calls
          OwnLists,     \* bound: what a client may list in a token of its own
          None

ASSUME PathsAssumption ==
    /\ {Root, Elsewhere, None} \cap Subs = {}
    /\ Root # Elsewhere /\ Root # None /\ Elsewhere # None
ASSUME IdsAssumption == None \notin Ids
ASSUME AttemptsAssumption == MaxAttempts \in Nat

Paths == Subs \cup {Root, Elsewhere}
Attempts == 1..MaxAttempts

ASSUME OwnListsAssumption == OwnLists \subseteq SUBSET Paths

\* requestState: there is none, or it does not parse, or it lists candidates.
\* Nobody signs it: a server cannot tell what a server has written, which the
\* clients hand on, from what a client has.
Token == [from : {"none", "garbled"}, candidates : {{}}]
    \cup [from : {"server", "client"}, candidates : SUBSET Paths]

NoToken   == [from |-> "none", candidates |-> {}]
Garbled   == [from |-> "garbled", candidates |-> {}]
Issued(s) == [from |-> "server", candidates |-> s]
Own(s)    == [from |-> "client", candidates |-> s]

\* The parameters of a call: whether arguments has a path, which is Root, whether
\* there are inputResponses, the selectedPath among them, and requestState.
Request == [path : BOOLEAN, responses : BOOLEAN, choice : Paths \cup {None}, token : Token]

\* Only a call with both is a retry.  The tool ignores the arguments of one, and
\* one of the two alone.
Retries(r) == r.responses /\ r.token.from # "none"

\* A ToolCallOutcome or a ToolError, as the client reads it.
Reply == [kind : {"none", "invalid", "storeError"}, task : {None}, offered : {{}}]
    \cup [kind : {"task"}, task : Ids, offered : {{}}]
    \cup [kind : {"inputRequired"}, task : {None}, offered : SUBSET Subs]

NoReply          == [kind |-> "none", task |-> None, offered |-> {}]
Invalid          == [NoReply EXCEPT !.kind = "invalid"]
StoreError       == [NoReply EXCEPT !.kind = "storeError"]
Handle(id)       == [kind |-> "task", task |-> id, offered |-> {}]
InputRequired(s) == [kind |-> "inputRequired", task |-> None, offered |-> s]

VARIABLES root,      \* what is at Root
          subs,      \* those of Subs that are directories now
          step,      \* where each attempt is in the tool's call
          request,   \* what each attempt carries
          todo,      \* the entries that the attempt has yet to look at
          found,     \* the candidates it has found
          reply,     \* what it is answered with
          store,     \* the directory and the attempt of each task
          phase,     \* the client
          current,   \* the attempt it waits for, 0 at first
          offered,   \* the token it was last given
          seen       \* history: the paths a server has seen to be there

fsVars == <<root, subs>>
serverVars == <<step, request, todo, found, reply, store, seen>>
clientVars == <<phase, current, offered>>
vars == <<fsVars, serverVars, clientVars>>

NoTask == [dir |-> None, by |-> 0]

TypeOK ==
    /\ root \in {"gone", "file", "dir"}
    /\ subs \subseteq Subs
    /\ subs # {} => root = "dir"
    /\ step \in [Attempts -> {"unused", "called", "isDir", "readDir", "look",
                              "answered", "lost"}]
    /\ request \in [Attempts -> Request]
    /\ todo \in [Attempts -> SUBSET Subs]
    /\ found \in [Attempts -> SUBSET Subs]
    /\ reply \in [Attempts -> Reply]
    /\ store \in [Ids -> [dir : Paths, by : Attempts] \cup {NoTask}]
    /\ phase \in {"calling", "choosing", "retrying", "done", "failed"}
    /\ current \in 0..MaxAttempts
    /\ phase # "calling" => current \in Attempts
    /\ offered = NoToken \/ offered \in {Issued(s) : s \in SUBSET Subs}
    /\ seen \subseteq Paths
    /\ \A a \in Attempts :
        /\ a > current <=> step[a] = "unused"
        /\ step[a] = "answered" <=> reply[a] # NoReply
        /\ step[a] # "look" => todo[a] = {} /\ found[a] = {}

FirstCall(path) == [path |-> path, responses |-> FALSE, choice |-> None, token |-> NoToken]

Init ==
    /\ root \in {"gone", "file", "dir"}
    /\ subs \in IF root = "dir" THEN SUBSET Subs ELSE {{}}
    /\ step = [a \in Attempts |-> "unused"]
    /\ request = [a \in Attempts |-> FirstCall(FALSE)]
    /\ todo = [a \in Attempts |-> {}]
    /\ found = [a \in Attempts |-> {}]
    /\ reply = [a \in Attempts |-> NoReply]
    /\ store = [id \in Ids |-> NoTask]
    /\ phase = "calling"
    /\ current = 0
    /\ offered = NoToken
    /\ seen = {}

-----------------------------------------------------------------------------
\* IndexDirectoryTool::call, one action per look at the file system.

Goto(a, s) == step' = [step EXCEPT ![a] = s]

Answer(a, r) ==
    /\ Goto(a, "answered")
    /\ reply' = [reply EXCEPT ![a] = r]

\* Mutant: a handle is returned although the insert failed.
SpawnInsertIgnored(a, dir) ==
    /\ \E id \in Ids :
        /\ store[id] = NoTask
        /\ Answer(a, Handle(id))
        /\ store' \in {store, [store EXCEPT ![id] = [dir |-> dir, by |-> a]]}
    /\ UNCHANGED <<request, seen>>

\* spawn_index_task: a fresh id, and an insert that can fail.
Spawn(a, dir) ==
    /\ \/ \E id \in Ids :
            /\ store[id] = NoTask
            /\ store' = [store EXCEPT ![id] = [dir |-> dir, by |-> a]]
            /\ Answer(a, Handle(id))
       \/ Answer(a, StoreError) /\ UNCHANGED store
    /\ UNCHANGED <<request, seen>>

\* There is no path among the arguments.
MissingPath(a) ==
    /\ step[a] = "called"
    /\ ~Retries(request[a])
    /\ ~request[a].path
    /\ Answer(a, Invalid)
    /\ UNCHANGED <<fsVars, request, todo, found, store, seen, clientVars>>

\* root.exists()
Exists(a) ==
    /\ step[a] = "called"
    /\ ~Retries(request[a])
    /\ request[a].path
    /\ \/ root = "gone" /\ Answer(a, Invalid) /\ UNCHANGED seen
       \/ root # "gone" /\ Goto(a, "isDir") /\ seen' = seen \cup {Root} /\ UNCHANGED reply
    /\ UNCHANGED <<fsVars, request, todo, found, store, clientVars>>

\* root.is_dir(); what is no directory by now is indexed as it is.
IsDir(a) ==
    /\ step[a] = "isDir"
    /\ \/ root = "dir" /\ Goto(a, "readDir") /\ UNCHANGED <<request, reply, store, seen>>
       \/ root # "dir" /\ Spawn(a, Root)
    /\ UNCHANGED <<fsVars, todo, found, clientVars>>

\* root.read_dir(); an error counts as no entries.  Which names it lists depends
\* on when they come and go, and not all that are listed are directories.
ReadDir(a) ==
    /\ step[a] = "readDir"
    /\ Goto(a, "look")
    /\ \E listed \in IF root = "dir" THEN SUBSET Subs ELSE {{}} :
        todo' = [todo EXCEPT ![a] = listed]
    /\ UNCHANGED <<fsVars, request, found, reply, store, seen, clientVars>>

\* The filter's is_dir() on one entry.
LookAt(a, e) ==
    /\ step[a] = "look"
    /\ e \in todo[a]
    /\ todo' = [todo EXCEPT ![a] = @ \ {e}]
    /\ LET there == {e} \cap subs
       IN  /\ found' = [found EXCEPT ![a] = @ \cup there]
           /\ seen' = seen \cup there
    /\ UNCHANGED <<fsVars, step, request, reply, store, clientVars>>

\* Several candidates: ask.  One: index it.  None: index the root.
Decide(a) ==
    /\ step[a] = "look"
    /\ todo[a] = {}
    /\ \/ /\ Cardinality(found[a]) > 1
          /\ Answer(a, InputRequired(found[a]))
          /\ UNCHANGED <<request, store, seen>>
       \/ \E e \in found[a] : found[a] = {e} /\ Spawn(a, e)
       \/ found[a] = {} /\ Spawn(a, Root)
    /\ found' = [found EXCEPT ![a] = {}]
    /\ UNCHANGED <<fsVars, todo, clientVars>>

\* Mutant: the choice is not looked for in the token.
HandleRetryTrusting(a) ==
    /\ step[a] = "called"
    /\ Retries(request[a])
    /\ LET choice == request[a].choice
       IN  \/ choice # None /\ Spawn(a, choice)
           \/ choice = None /\ Answer(a, Invalid) /\ UNCHANGED <<request, store, seen>>
    /\ UNCHANGED <<fsVars, todo, found, clientVars>>

\* Mutant: the choice is looked for in the directory as it is now.
HandleRetryRelists(a) ==
    /\ step[a] = "called"
    /\ Retries(request[a])
    /\ LET choice == request[a].choice
       IN  \/ choice \in subs /\ Spawn(a, choice)
           \/ choice \notin subs /\ Answer(a, Invalid) /\ UNCHANGED <<request, store, seen>>
    /\ UNCHANGED <<fsVars, todo, found, clientVars>>

\* Mutant: any candidate of the token is taken.
HandleRetryAny(a) ==
    /\ step[a] = "called"
    /\ Retries(request[a])
    /\ LET choice == request[a].choice
       IN  \/ /\ choice \in request[a].token.candidates
              /\ \E e \in request[a].token.candidates : Spawn(a, e)
           \/ choice \notin request[a].token.candidates /\ Answer(a, Invalid)
                /\ UNCHANGED <<request, store, seen>>
    /\ UNCHANGED <<fsVars, todo, found, clientVars>>

\* handle_retry does not look at the file system.  A token that does not parse,
\* and a choice that is missing or is not in the token, are refused.
HandleRetry(a) ==
    /\ step[a] = "called"
    /\ Retries(request[a])
    /\ LET choice == request[a].choice
       IN  \/ choice \in request[a].token.candidates /\ Spawn(a, choice)
           \/ choice \notin request[a].token.candidates /\ Answer(a, Invalid)
                /\ UNCHANGED <<request, store, seen>>
    /\ UNCHANGED <<fsVars, todo, found, clientVars>>

Serve(a) ==
    \/ MissingPath(a)
    \/ Exists(a)
    \/ IsDir(a)
    \/ ReadDir(a)
    \/ \E e \in Subs : LookAt(a, e)
    \/ Decide(a)
    \/ HandleRetry(a)

\* An answer that the client has read, or has given up on, cannot get lost.
WaitsFor(a) == a = current /\ a \in Attempts /\ phase \in {"calling", "retrying"}

\* Mutant: the answer to an attempt that was lost is still there.
LoseKeepsReply(a) ==
    /\ step[a] \notin {"unused", "lost"}
    /\ step[a] = "answered" => WaitsFor(a)
    /\ Goto(a, "lost")
    /\ todo' = [todo EXCEPT ![a] = {}]
    /\ found' = [found EXCEPT ![a] = {}]
    /\ UNCHANGED <<fsVars, request, reply, store, seen, clientVars>>

\* The server dies, or the answer does not arrive, or the handler panics: the
\* token of a candidate whose name is not UTF-8 cannot be written (to_string of
\* a RequestStateToken is unwrapped).
Lose(a) ==
    /\ step[a] \notin {"unused", "lost"}
    /\ step[a] = "answered" => WaitsFor(a)
    /\ Goto(a, "lost")
    /\ todo' = [todo EXCEPT ![a] = {}]
    /\ found' = [found EXCEPT ![a] = {}]
    /\ reply' = [reply EXCEPT ![a] = NoReply]
    /\ UNCHANGED <<fsVars, request, store, seen, clientVars>>

-----------------------------------------------------------------------------
\* The client.  It waits for its last attempt only.

\* The next attempt, with the given request.
Send(r) ==
    /\ current < MaxAttempts
    /\ current' = current + 1
    /\ step' = [step EXCEPT ![current'] = "called"]
    /\ request' = [request EXCEPT ![current'] = r]
    /\ UNCHANGED <<fsVars, todo, found, reply, store, seen>>

\* The first call, and the same again when the client tires of waiting.
Call ==
    /\ phase = "calling"
    /\ \E path \in BOOLEAN : Send(FirstCall(path))
    /\ UNCHANGED <<phase, offered>>

\* A call with a choice, which need not be one of the offers, and a token: as it
\* came, or garbled, or one that the client has written itself, for which it need
\* not have been asked anything.  CallToolParams::retry sends both and no
\* arguments; another client leaves out one of the two.
Retry(choice, token) ==
    [path |-> FALSE, responses |-> TRUE, choice |-> choice, token |-> token]

Choose ==
    /\ phase = "choosing" \/ current = 0
    /\ phase' = "retrying"
    /\ \/ \E choice \in Paths \cup {None},
             token \in {offered, Garbled} \cup {Own(s) : s \in OwnLists} :
            Send(Retry(choice, token))
       \/ Send([FirstCall(TRUE) EXCEPT !.responses = TRUE])
       \/ Send([FirstCall(TRUE) EXCEPT !.token = offered])
    /\ UNCHANGED offered

\* The same again.
Resend ==
    /\ phase = "retrying"
    /\ Send(request[current])
    /\ UNCHANGED <<phase, offered>>

\* The client reads the outcome.  After an error of a retry it chooses anew.
Receive ==
    /\ WaitsFor(current)
    /\ step[current] = "answered"
    /\ \/ /\ reply[current].kind = "task"
          /\ phase' = "done"
          /\ UNCHANGED offered
       \/ /\ reply[current].kind = "inputRequired"
          /\ phase' = "choosing"
          /\ offered' = Issued(reply[current].offered)
       \/ /\ reply[current].kind \in {"invalid", "storeError"}
          /\ phase' = IF phase = "calling" THEN "failed" ELSE "choosing"
          /\ UNCHANGED offered
    /\ UNCHANGED <<fsVars, serverVars, current>>

\* Another program changes the directory.
FsChange ==
    /\ root' \in {"gone", "file", "dir"}
    /\ subs' \in IF root' = "dir" THEN SUBSET Subs ELSE {{}}
    /\ UNCHANGED <<serverVars, clientVars>>

Next ==
    \/ \E a \in Attempts : Serve(a) \/ Lose(a)
    \/ Call
    \/ Choose
    \/ Resend
    \/ Receive
    \/ FsChange

Spec == Init /\ [][Next]_vars

-----------------------------------------------------------------------------
TasksOf(a) == {id \in Ids : store[id].by = a}

\* Whatever order answers come in: an attempt that was answered with a handle has
\* stored that task and no other, one that was answered with a question or an
\* error has stored none.  Tasks are doubled only by calling twice.
AnswerTellsEffect ==
    \A a \in Attempts : step[a] = "answered" =>
        TasksOf(a) = IF reply[a].kind = "task" THEN {reply[a].task} ELSE {}

\* A client that has retried with a choice and has a handle in the end, after lost
\* answers and answers to calls it had given up on, has the task of its choice.
HandleIsForChoice ==
    phase = "done" /\ Retries(request[current]) =>
        store[reply[current].task].dir = request[current].choice

\* A choice from the token is never refused, however often it is sent again,
\* whichever server gets it, and whatever has become of the directory since the
\* question.
HonestRetryAccepted ==
    \A a \in Attempts :
        Retries(request[a]) /\ request[a].choice \in request[a].token.candidates =>
            reply[a] # Invalid

CarriesOwn(r) == Retries(r) /\ r.token.from = "client"

\* No task is for a path that no server has seen, with the one exception that the
\* code has: a client may write the token itself.  A choice other than the
\* candidates does not get past a token that a server has written.
OnlySeenAreIndexed ==
    \A id \in Ids : store[id] # NoTask =>
        store[id].dir \in seen \/ CarriesOwn(request[store[id].by])
=============================================================================
