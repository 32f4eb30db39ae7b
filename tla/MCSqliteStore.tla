--------------------------- MODULE MCSqliteStore ---------------------------
(* Instances of SqliteStore for TLC: one or two stores, two or three calling *)
(* threads.                                                                *)
EXTENDS SqliteStore, TLC

CONSTANTS a, b, c3, one, two

\* All callers share one connection.
HomeShared == [c \in Callers |-> one]

\* Caller a has a process of its own; the others share the second one.
HomeApart == [c \in Callers |-> IF c = a THEN one ELSE two]

CallerSymmetry == Permutations(Callers)

\* Of HomeApart: the threads of the second process.
NeighbourSymmetry == Permutations(Callers \ {a})
=============================================================================
