-------------------------- MODULE MCSharedIndexer ---------------------------
(* The instance of SharedIndexer that TLC checks: one task, a request       *)
(* handler on each of two servers.                                         *)
EXTENDS SharedIndexer

CONSTANTS w, m, near, far, here, there

HomeOfAll == [c \in Callers |-> IF c = far THEN there ELSE here]

Workers == [id \in TaskIds |-> w]

Monitors == [id \in TaskIds |-> m]
=============================================================================
