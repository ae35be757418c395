---------------------------- MODULE CircuitBreaker ----------------------------
(***************************************************************************)
(* circuit_breaker (src/codagent/tools/circuit.py): one breaker shared by    *)
(* the threads that call one decorated tool.  A call takes the breaker's     *)
(* lock twice, before the tool runs and after it has returned or raised, so  *)
(* each locked section is one action and the tool runs between two of them.  *)
(*                                                                         *)
(* Time is counted in ticks of the monotonic clock.  The code compares only  *)
(* now - opened_at with reset_after, so the model keeps that difference and  *)
(* lets it stop at ResetAfter.                                               *)
(***************************************************************************)
EXTENDS Integers, FiniteSets

CONSTANTS Callers,    \* threads calling the tool
          Threshold,  \* failure_threshold
          ResetAfter, \* reset_after, in ticks
          MaxFailures \* bound on the failures counted without a success

\* circuit_breaker raises ValueError otherwise.
ASSUME ConfigIsValid ==
    /\ Threshold \in Nat \ {0}
    /\ ResetAfter \in Nat \ {0}
    /\ MaxFailures \in Nat

VARIABLES state,    \* CircuitState
          failures,
          age,      \* now - opened_at, or Unset while opened_at is None
          quiet,    \* history: ticks since a call last failed
          caller,   \* what each thread is doing, or how its last call was met
          overlapped \* history: two of the calls in the tool now, or since it
                     \* was last empty, were in it together

vars == <<state, failures, age, quiet, caller, overlapped>>

Resting == {"idle", "refused"}   \* between calls
Unset == -1                      \* opened_at is None
InTool == {"call", "trial"}      \* in the tool, admitted closed or half-open
Inside == {c \in Callers : caller[c] \in InTool}

----------------------------------------------------------------------------

Init ==
    /\ state = "closed"
    /\ failures = 0
    /\ age = Unset
    /\ quiet = ResetAfter
    /\ caller = [c \in Callers |-> "idle"]
    /\ overlapped = FALSE

Enters == overlapped' = (overlapped \/ Inside # {})
Leaves(c) == overlapped' = (overlapped /\ Inside \ {c} # {})

\* Mutant of Admit: the trial goes through and the breaker stays open.
AdmitStayingOpen(c) ==
    /\ caller[c] \in Resting
    /\ state = "open" => age >= ResetAfter
    /\ caller' = [caller EXCEPT ![c] =
                      IF state = "closed" THEN "call" ELSE "trial"]
    /\ Enters
    /\ UNCHANGED <<state, failures, age, quiet>>

\* The first locked section lets the call through.
Admit(c) ==
    /\ caller[c] \in Resting
    /\ state = "open" => age >= ResetAfter
    /\ state' = IF state = "open" THEN "half_open" ELSE state
    /\ caller' = [caller EXCEPT ![c] =
                      IF state = "closed" THEN "call" ELSE "trial"]
    /\ Enters
    /\ UNCHANGED <<failures, age, quiet>>

\* Mutant of Refuse: every call refused starts the cooldown again.
RefuseAndRestart(c) ==
    /\ caller[c] \in Resting
    /\ state = "open" /\ age < ResetAfter
    /\ caller' = [caller EXCEPT ![c] = "refused"]
    /\ age' = 0
    /\ UNCHANGED <<state, failures, quiet, overlapped>>

\* The first locked section raises CircuitBreakerOpen.
Refuse(c) ==
    /\ caller[c] \in Resting
    /\ state = "open" /\ age < ResetAfter
    /\ caller' = [caller EXCEPT ![c] = "refused"]
    /\ UNCHANGED <<state, failures, age, quiet, overlapped>>

\* Mutant of Succeed: a success closes the breaker and forgets no failure.
SucceedKeepingFailures(c) ==
    /\ caller[c] \in InTool
    /\ state' = "closed"
    /\ age' = Unset
    /\ caller' = [caller EXCEPT ![c] = "idle"]
    /\ Leaves(c)
    /\ UNCHANGED <<failures, quiet>>

\* The tool returned: the second locked section.
Succeed(c) ==
    /\ caller[c] \in InTool
    /\ failures' = 0
    /\ state' = "closed"
    /\ age' = Unset
    /\ caller' = [caller EXCEPT ![c] = "idle"]
    /\ Leaves(c)
    /\ UNCHANGED quiet

\* Mutant of Fail: opened_at keeps the time the breaker first opened.
FailKeepingOpenedAt(c) ==
    /\ caller[c] \in InTool
    /\ failures < MaxFailures
    /\ failures' = failures + 1
    /\ quiet' = 0
    /\ IF failures + 1 >= Threshold
       THEN state' = "open" /\ age' = IF age = Unset THEN 0 ELSE age
       ELSE UNCHANGED <<state, age>>
    /\ caller' = [caller EXCEPT ![c] = "idle"]
    /\ Leaves(c)

\* The tool raised an Exception: the second locked section.
Fail(c) ==
    /\ caller[c] \in InTool
    /\ failures < MaxFailures
    /\ failures' = failures + 1
    /\ quiet' = 0
    /\ IF failures + 1 >= Threshold
       THEN state' = "open" /\ age' = 0
       ELSE UNCHANGED <<state, age>>
    /\ caller' = [caller EXCEPT ![c] = "idle"]
    /\ Leaves(c)

\* The tool raised a BaseException that is no Exception (KeyboardInterrupt,
\* SystemExit, CancelledError): neither branch runs.
Abandon(c) ==
    /\ caller[c] \in InTool
    /\ caller' = [caller EXCEPT ![c] = "idle"]
    /\ Leaves(c)
    /\ UNCHANGED <<state, failures, age, quiet>>

\* The monotonic clock advances.
Tick ==
    /\ age \in 0 .. ResetAfter - 1 \/ quiet < ResetAfter
    /\ age' = IF age \in 0 .. ResetAfter - 1 THEN age + 1 ELSE age
    /\ quiet' = IF quiet < ResetAfter THEN quiet + 1 ELSE quiet
    /\ UNCHANGED <<state, failures, caller, overlapped>>

Return(c) == Succeed(c) \/ Fail(c) \/ Abandon(c)

Next ==
    \/ Tick
    \/ \E c \in Callers : Admit(c) \/ Refuse(c) \/ Return(c)

Spec == Init /\ [][Next]_vars

\* The clock runs, a tool that was called returns or raises, and the agent goes
\* on calling it.
FairSpec ==
    /\ Spec
    /\ WF_vars(Tick)
    /\ \A c \in Callers : WF_vars(Return(c)) /\ WF_vars(Admit(c))

----------------------------------------------------------------------------
(* Properties.                                                              *)

\* The state, the counts and the clock have their types.
TypeOK ==
    /\ state \in {"closed", "open", "half_open"}
    /\ failures \in 0 .. MaxFailures
    /\ age \in {Unset} \cup 0 .. ResetAfter
    /\ quiet \in 0 .. ResetAfter
    /\ caller \in [Callers -> Resting \cup InTool]
    /\ overlapped \in BOOLEAN

\* The three fields of _Breaker, written by different branches, agree however
\* calls overlap: it is closed exactly below the threshold and exactly while
\* opened_at is None.  So the assertion of circuit.py:41 never fails, and any
\* failure while half-open opens it again.
FieldsAgree ==
    /\ (state = "closed") <=> (failures < Threshold)
    /\ (state = "closed") <=> age = Unset

\* While it is open or half-open, opened_at is the time of the last failure.
OpenedAtLastFailure == age # Unset => age = quiet

\* The tool is tried again only when no call of it has failed for ResetAfter
\* ticks: a call admitted long before that fails late puts the trial off.
TrialAfterQuiet == state = "half_open" => quiet >= ResetAfter

\* The inductive invariant.
BreakerInv == TypeOK /\ FieldsAgree /\ OpenedAtLastFailure /\ TrialAfterQuiet

\* A breaker that opened does not stay open: late failures push the cooldown
\* back, but only finitely often, and a refused call never does.
NeverStuckOpen == (state = "open") ~> (state # "open")

\* Calls that do not overlap are alone in the tool, and the state between the
\* two locked sections is the one they were admitted in.
CallKnowsState ==
    ~overlapped => \A c \in Inside :
        /\ Inside = {c}
        /\ caller[c] = "call" => state = "closed"
        /\ caller[c] = "trial" => state = "half_open"

\* The fields of the machine that the docs describe.
Promise == INSTANCE BreakerPromise WITH
    phase <- state,
    streak <- IF state = "closed" THEN failures ELSE 0,
    cooling <- IF state = "open" THEN ResetAfter - age ELSE 0

\* Whenever its calls do not overlap, from however many threads they come and
\* whatever overlapped before, the breaker takes the steps of the machine its
\* docs describe and no other.
ImplementsPromise ==
    /\ Promise!PromiseInit
    /\ [][overlapped \/ Promise!PromiseNext]_(Promise!pvars)
=============================================================================
