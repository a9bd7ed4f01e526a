--------------------------- MODULE MCMemoryQueue ---------------------------
(* Instances of MemoryQueue for TLC; the constants are given in the cfgs.   *)
EXTENDS MemoryQueue

MCPriorities  == {0, 1}
MCMaxAttempts == {0, 2}
MCOneRetry    == {2}
=============================================================================
