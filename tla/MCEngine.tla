------------------------------ MODULE MCEngine ------------------------------
(***************************************************************************)
(* Small workflows for TLC.  Fork and join with conditions is where edge   *)
(* readiness, skipping and resumption meet: a join hears from one branch   *)
(* that ran and one that was skipped.                                      *)
(***************************************************************************)
EXTENDS WorkflowEngine

\* a forks to b and c, both join in j.
DiamondSteps == {"a", "b", "c", "j"}
DiamondEdges == {<<"a", "b">>, <<"a", "c">>, <<"b", "j">>, <<"c", "j">>}
DiamondConds == {<<"a", "b">>, <<"b", "j">>}

\* a and b run side by side and join in j.
JoinSteps == {"a", "b", "j"}
JoinEdges == {<<"a", "j">>, <<"b", "j">>}

\* b after a, j after either: skipping b leaves j to its other way in.
TriangleSteps == {"a", "b", "j"}
TriangleEdges == {<<"a", "b">>, <<"a", "j">>, <<"b", "j">>}
TriangleConds == {<<"a", "b">>, <<"a", "j">>}

\* a, then j if the condition holds.
ChainSteps == {"a", "j"}
ChainEdges == {<<"a", "j">>}

RetryA == [s \in Steps |-> IF s = "a" THEN 1 ELSE 0]
NoRetry == [s \in Steps |-> 0]
CostOne == [s \in Steps |-> 1]
=============================================================================
