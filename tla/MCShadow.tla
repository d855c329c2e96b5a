------------------------------ MODULE MCShadow ------------------------------
(* Two recipients, three keys, two runs scheduling at once.  The workflows  *)
(* disagree about r1's cap and about whom to ask about k3.                  *)
EXTENDS ShadowStore

FourAsks == {[key |-> "k1", to |-> "r1", cap |-> 1], [key |-> "k2", to |-> "r1", cap |-> 2],
             [key |-> "k3", to |-> "r1", cap |-> 2], [key |-> "k3", to |-> "r2", cap |-> 1]}
=============================================================================
