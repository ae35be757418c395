---------------------------- MODULE MCRunService ----------------------------
(* TLC instances of CodagentApp over RunService. *)
EXTENDS CodagentApp, TLC

OfAgent == <<"agent">>
OfRegistry == <<"registry">>
MirrorAndMetrics == <<"store", "metrics">>

ServiceSymmetry == Permutations(Runs) \cup Permutations(Sessions)
=============================================================================
