------------------------------ MODULE MCGrants ------------------------------
(* One recipient, who is an administrator too, two others, and two calls in *)
(* flight in one process.                                                   *)
EXTENDS RawTraceGrants, TLC

CONSTANTS u, a, b, c1, c2

OneServer == [c \in Calls |-> "s1"]
Symmetry  == Permutations({a, b}) \cup Permutations({c1, c2})
=============================================================================
