--------------------------- MODULE MCCircuitBreaker ---------------------------
(* TLC instances of CircuitBreaker. *)
EXTENDS CircuitBreaker, TLC

CallerSymmetry == Permutations(Callers)
=============================================================================
