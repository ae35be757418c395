---------------------------- MODULE MCServedRun -----------------------------
(***************************************************************************)
(* TLC instances of ServedRun: one hook of the application.                 *)
(***************************************************************************)
EXTENDS ServedRun

UserOnly == <<"user">>
=============================================================================
