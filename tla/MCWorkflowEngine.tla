-------------------------- MODULE MCWorkflowEngine --------------------------
(* Instances of WorkflowEngine for TLC; the constants are in the cfgs.      *)
EXTENDS WorkflowEngine, TLC

CONSTANTS i1, i2, s1, s2, s3

\* A review in the middle, and two waits in a row; signals for both.
MCDefinition == (i1 :> <<"task", "wait", "task">>) @@ (i2 :> <<"wait", "wait">>)
MCTarget     == (s1 :> i1) @@ (s2 :> i2) @@ (s3 :> i2)

\* One instance that waits once, and one signal.
MCReview     == i1 :> <<"wait">>
MCReviewer   == s1 :> i1
=============================================================================
