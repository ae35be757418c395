----------------------------- MODULE RunOutcome -----------------------------
(***************************************************************************)
(* What run_task promises about one run, whatever its upstream, middleware  *)
(* and contracts do: the status moves forward, one outcome is announced by  *)
(* one terminal event that agrees with the status, and the stream is closed *)
(* only after it (runs.py:234-242).                                         *)
(***************************************************************************)

VARIABLES status,   \* AgentRun.status
          outcome,  \* the name of the terminal event, "none" before it
          closed    \* the run is done

outcomeVars == <<status, outcome, closed>>

\* The status that goes with each terminal event.
StatusOf ==
    [o \in {"run.done", "run.contract_failed", "run.budget_exceeded",
            "run.cancelled", "run.failed"} |->
        CASE o = "run.done" -> "completed"
          [] o = "run.cancelled" -> "cancelled"
          [] OTHER -> "failed"]

OutcomeInit ==
    /\ status = "queued"
    /\ outcome = "none"
    /\ closed = FALSE

Begin ==
    /\ status = "queued"
    /\ status' = "running"
    /\ UNCHANGED <<outcome, closed>>

\* A run that never started running can only fail or be cancelled.
Conclude(o) ==
    /\ outcome = "none"
    /\ status = "queued" => o \in {"run.failed", "run.cancelled"}
    /\ outcome' = o
    /\ status' = StatusOf[o]
    /\ UNCHANGED closed

CloseStream ==
    /\ outcome # "none"
    /\ closed' = TRUE
    /\ UNCHANGED <<status, outcome>>

OutcomeNext == Begin \/ (\E o \in DOMAIN StatusOf : Conclude(o)) \/ CloseStream

OutcomeSpec == OutcomeInit /\ [][OutcomeNext]_outcomeVars
=============================================================================
