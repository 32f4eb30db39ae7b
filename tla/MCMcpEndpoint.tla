--------------------------- MODULE MCMcpEndpoint ---------------------------
(* Requests for TLC: one set varies what the outer layers look at, the other *)
(* what the handlers look at.                                               *)
EXTENDS McpEndpoint, TLC

CONSTANTS t1, c1, c2

Plain == [version |-> "current", header |-> "none", size |-> "fits", form |-> "object",
          methods |-> <<"tools/list">>, asValue |-> TRUE, asRequest |-> TRUE,
          params |-> "valid", tool |-> "index_directory", id |-> t1, to |-> "completed"]

Headers == {"none", "unreadable", "tools/list"}

Bodies == {<<>>, <<"tools/list">>, <<"tasks/cancel">>, <<"notString">>,
           <<"tools/list", "tasks/cancel">>, <<"tasks/cancel", "tools/list">>}

\* Every header against every body, and what else the outer layers refuse.
EnvelopeRequests ==
    {[Plain EXCEPT !.header = h, !.methods = ms] : h \in Headers, ms \in Bodies}
    \cup {[Plain EXCEPT !.header = h, !.size = s] : h \in Headers, s \in {"over2MB", "over4MB"}}
    \cup {[Plain EXCEPT !.header = "tools/list", !.methods = <<"tasks/cancel">>,
                        !.asValue = FALSE, !.asRequest = ok] : ok \in BOOLEAN}
    \cup {[Plain EXCEPT !.header = h, !.form = "array", !.methods = ms] :
            h \in Headers, ms \in {<<>>, <<"tools/list">>, <<"tasks/cancel">>, <<"notString">>}}
    \cup {[Plain EXCEPT !.version = v] : v \in {"other", "none"}}

\* Every method, with params of every kind.
MethodRequests ==
    {[Plain EXCEPT !.methods = <<m>>, !.params = p] : m \in Methods, p \in {"valid", "invalid"}}
    \cup {[Plain EXCEPT !.methods = <<"tools/call">>, !.tool = "unknown"]}
    \cup {[Plain EXCEPT !.methods = <<"tasks/update">>, !.to = s] : s \in TaskStatus}

AllRequests == EnvelopeRequests \cup MethodRequests

ClientSymmetry == Permutations(Clients)
=============================================================================
