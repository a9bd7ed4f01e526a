-------------------------- MODULE MCLeaderElection --------------------------
(* Instances of LeaderElection for TLC; the constants are in the cfgs.      *)
EXTENDS LeaderElection, TLC

CONSTANTS a, b

\* One candidate whose activations overlap, and a rival.
MCTasks == (a :> 2) @@ (b :> 1)
=============================================================================
