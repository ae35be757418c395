----------------------------- MODULE MCRateLimit -----------------------------
(* TLC instances of RateLimit. *)
EXTENDS RateLimit, TLC

CallerSymmetry == Permutations(Callers)
=============================================================================
