---------------------------- MODULE BreakerPromise ----------------------------
(***************************************************************************)
(* What circuit_breaker promises the caller of a tool                       *)
(* (src/codagent/tools/circuit.py:3-6): calls go through until Threshold     *)
(* failures in a row; then every call fails fast for ResetAfter ticks; then  *)
(* one trial call decides whether it closes or opens again.                  *)
(***************************************************************************)
EXTENDS Integers

CONSTANTS Threshold, ResetAfter

VARIABLES phase,   \* "closed", "open" or "half_open"
          streak,  \* failures in a row while closed
          cooling  \* ticks left to fail fast

pvars == <<phase, streak, cooling>>

PromiseInit == phase = "closed" /\ streak = 0 /\ cooling = 0

CallSucceeds ==
    /\ phase = "closed"
    /\ streak' = 0
    /\ UNCHANGED <<phase, cooling>>

CallFails ==
    /\ phase = "closed"
    /\ IF streak + 1 < Threshold
       THEN streak' = streak + 1 /\ UNCHANGED <<phase, cooling>>
       ELSE phase' = "open" /\ streak' = 0 /\ cooling' = ResetAfter

CoolDown ==
    /\ phase = "open" /\ cooling > 0
    /\ cooling' = cooling - 1
    /\ UNCHANGED <<phase, streak>>

TrialStarts ==
    /\ phase = "open" /\ cooling = 0
    /\ phase' = "half_open"
    /\ UNCHANGED <<streak, cooling>>

TrialSucceeds ==
    /\ phase = "half_open"
    /\ phase' = "closed"
    /\ UNCHANGED <<streak, cooling>>

TrialFails ==
    /\ phase = "half_open"
    /\ phase' = "open" /\ cooling' = ResetAfter
    /\ UNCHANGED streak

PromiseNext ==
    \/ CallSucceeds \/ CallFails \/ CoolDown
    \/ TrialStarts \/ TrialSucceeds \/ TrialFails

PromiseSpec == PromiseInit /\ [][PromiseNext]_pvars
=============================================================================
