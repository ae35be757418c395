---------------------------- MODULE MCRunStream -----------------------------
(***************************************************************************)
(* TLC instances of RunStream.                                              *)
(***************************************************************************)
EXTENDS RunStream, TLC

ClientSymmetry == Permutations(Clients)
=============================================================================
