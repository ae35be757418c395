---------------------------- MODULE MCBudgetGate ----------------------------
(***************************************************************************)
(* TLC instances of BudgetGate: two runs of one user beside a run of another. *)
(***************************************************************************)
EXTENDS BudgetGate, TLC

CONSTANTS r1, r2, r3, u1, u2

Shared == (r1 :> u1) @@ (r2 :> u1) @@ (r3 :> u2)

Mixed == ("output_tokens" :> 3) @@ ("usd" :> 7) @@ ("steps" :> 4)
             @@ ("input_tokens" :> 2)
=============================================================================
