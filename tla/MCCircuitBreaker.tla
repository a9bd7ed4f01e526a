-------------------------- MODULE MCCircuitBreaker --------------------------
(* An instance of CircuitBreaker for TLC; the constants are in the cfg.     *)
EXTENDS CircuitBreaker
=============================================================================
