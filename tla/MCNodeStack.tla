----------------------------- MODULE MCNodeStack -----------------------------
(* The TLC instance of a single thread under NodeStack, with fairness. *)
EXTENDS NodeStack
=============================================================================
