----------------------------- MODULE MCRunTask ------------------------------
(***************************************************************************)
(* Middleware stacks for the TLC instances of RunTask.  The registry puts   *)
(* the mirror after the application's own middleware (runs.py:398-401).     *)
(***************************************************************************)
EXTENDS RunTask

UserAndMirror == <<"user", "mirror">>
UserOnly == <<"user">>
=============================================================================
