--------------------------- MODULE MCToolRoundTrip --------------------------
(* The instance of ToolRoundTrip that TLC checks. *)
EXTENDS ToolRoundTrip, TLC

\* A client that writes a token of its own lists a path of its own.
SmallLists == {{Elsewhere}}

\* No definition tells one candidate, or one task id, from another.
Symmetry == Permutations(Subs) \cup Permutations(Ids)
=============================================================================
