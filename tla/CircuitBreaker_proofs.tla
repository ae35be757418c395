------------------------- MODULE CircuitBreaker_proofs -------------------------
(***************************************************************************)
(* Proofs about CircuitBreaker, for any number of threads and any           *)
(* configuration.                                                           *)
(***************************************************************************)
EXTENDS CircuitBreaker, TLAPS

\* The initial breaker satisfies the inductive invariant.
LEMMA InitBreakerInv == Init => BreakerInv
  <1> SUFFICES ASSUME Init PROVE BreakerInv
    OBVIOUS
  <1> USE ConfigIsValid DEF Init, Resting, InTool, Unset
  <1>1. overlapped \in BOOLEAN
    OBVIOUS
  <1>2. TypeOK
    BY <1>1 DEF TypeOK
  <1>3. FieldsAgree /\ OpenedAtLastFailure /\ TrialAfterQuiet
    BY DEF FieldsAgree, OpenedAtLastFailure, TrialAfterQuiet
  <1>4. QED
    BY <1>2, <1>3 DEF BreakerInv

\* Every step of every thread preserves it.
LEMMA StepKeepsBreakerInv == BreakerInv /\ [Next]_vars => BreakerInv'
  <1> SUFFICES ASSUME BreakerInv, [Next]_vars PROVE BreakerInv'
    OBVIOUS
  <1> USE ConfigIsValid
      DEF BreakerInv, TypeOK, FieldsAgree, OpenedAtLastFailure,
          TrialAfterQuiet, Resting, InTool, Unset, Enters, Leaves
  <1>1. CASE Tick
    BY <1>1 DEF Tick
  <1>2. ASSUME NEW c \in Callers, Admit(c) PROVE BreakerInv'
    BY <1>2 DEF Admit
  <1>3. ASSUME NEW c \in Callers, Refuse(c) PROVE BreakerInv'
    BY <1>3 DEF Refuse
  <1>4. ASSUME NEW c \in Callers, Succeed(c) PROVE BreakerInv'
    BY <1>4 DEF Succeed
  <1>5. ASSUME NEW c \in Callers, Fail(c) PROVE BreakerInv'
    BY <1>5 DEF Fail
  <1>6. ASSUME NEW c \in Callers, Abandon(c) PROVE BreakerInv'
    BY <1>6 DEF Abandon
  <1>7. CASE UNCHANGED vars
    BY <1>7 DEF vars
  <1>8. QED
    BY <1>1, <1>2, <1>3, <1>4, <1>5, <1>6, <1>7 DEF Next, Return

\* However calls overlap, the breaker's fields agree, and it is tried again only
\* after reset_after without a failure.
THEOREM BreakerInvHolds == Spec => []BreakerInv
  BY InitBreakerInv, StepKeepsBreakerInv, PTL DEF Spec

\* The state, the failure count and opened_at never disagree: the assertion of
\* circuit.py:41 holds in every execution.
THEOREM BreakerFieldsAgree == Spec => []FieldsAgree
  <1>1. BreakerInv => FieldsAgree
    BY DEF BreakerInv
  <1>2. QED
    BY <1>1, BreakerInvHolds, PTL

\* A trial only starts after reset_after ticks without a failed call.
THEOREM TrialsWaitForQuiet == Spec => []TrialAfterQuiet
  <1>1. BreakerInv => TrialAfterQuiet
    BY DEF BreakerInv
  <1>2. QED
    BY <1>1, BreakerInvHolds, PTL

----------------------------------------------------------------------------
(* Calls that do not overlap: the breaker takes the documented steps.       *)

\* The calls in the tool after a call came in, or went out.
LEMMA InsideAfter ==
    ASSUME TypeOK, NEW c \in Callers
    PROVE  /\ Admit(c) => Inside' = Inside \cup {c} /\ c \notin Inside
           /\ Return(c) => Inside' = Inside \ {c} /\ c \in Inside
  BY DEF TypeOK, Admit, Return, Succeed, Fail, Abandon, Inside, InTool, Resting

\* A step preserves what a call that does not overlap others knows.
LEMMA StepKeepsCallKnowsState ==
    ASSUME BreakerInv, CallKnowsState, [Next]_vars
    PROVE  CallKnowsState'
  <1> USE DEF BreakerInv, TypeOK, CallKnowsState
  <1>1. CASE Tick \/ UNCHANGED vars
    BY <1>1 DEF Tick, vars, Inside
  <1>2. ASSUME NEW c \in Callers, Admit(c) PROVE CallKnowsState'
    <2> SUFFICES ASSUME ~overlapped' PROVE CallKnowsState'
      OBVIOUS
    <2>1. Inside' = {c}
      BY <1>2, InsideAfter DEF Admit, Enters
    <2>2. /\ caller'[c] = "call" => state' = "closed"
          /\ caller'[c] = "trial" => state' = "half_open"
      BY <1>2 DEF Admit
    <2>3. QED
      BY <2>1, <2>2
  <1>3. ASSUME NEW c \in Callers, Refuse(c) PROVE CallKnowsState'
    BY <1>3 DEF Refuse, Inside, InTool, Resting
  <1>4. ASSUME NEW c \in Callers, Return(c) PROVE CallKnowsState'
    <2> SUFFICES ASSUME ~overlapped' PROVE CallKnowsState'
      OBVIOUS
    <2>1. Inside' = {}
      <3>1. ~overlapped \/ Inside \ {c} = {}
        BY <1>4 DEF Return, Succeed, Fail, Abandon, Leaves
      <3>2. QED
        BY <1>4, <3>1, InsideAfter
    <2>2. QED
      BY <2>1
  <1>5. QED
    BY <1>1, <1>2, <1>3, <1>4 DEF Next

\* While calls do not overlap, every step is a step of the promise or none.
LEMMA StepRefinesPromise ==
    ASSUME BreakerInv, BreakerInv', CallKnowsState, [Next]_vars, ~overlapped
    PROVE  Promise!PromiseNext \/ UNCHANGED Promise!pvars
  <1> USE ConfigIsValid
      DEF BreakerInv, TypeOK, FieldsAgree, OpenedAtLastFailure,
          CallKnowsState, Inside, Resting, InTool, Unset
  <1>1. CASE Tick
    BY <1>1 DEF Tick, Promise!pvars, Promise!PromiseNext, Promise!CoolDown
  <1>2. ASSUME NEW c \in Callers, Admit(c)
        PROVE Promise!TrialStarts \/ UNCHANGED Promise!pvars
    BY <1>2 DEF Admit, Promise!TrialStarts, Promise!pvars
  <1>3. ASSUME NEW c \in Callers, Refuse(c) \/ Abandon(c)
        PROVE UNCHANGED Promise!pvars
    BY <1>3 DEF Refuse, Abandon, Promise!pvars
  <1>4. ASSUME NEW c \in Callers, Succeed(c)
        PROVE Promise!CallSucceeds \/ Promise!TrialSucceeds
    BY <1>4 DEF Succeed, Promise!CallSucceeds, Promise!TrialSucceeds
  <1>5. ASSUME NEW c \in Callers, Fail(c)
        PROVE Promise!CallFails \/ Promise!TrialFails
    <2>1. failures \in Nat /\ failures' = failures + 1
      BY <1>5 DEF Fail
    <2>2. CASE failures + 1 < Threshold
      <3>1. state = "closed" /\ state' = "closed"
        BY <1>5, <2>1, <2>2 DEF Fail
      <3>2. QED
        BY <2>1, <2>2, <3>1 DEF Promise!CallFails
    <2>3. CASE failures + 1 >= Threshold /\ caller[c] = "call"
      <3>1. state = "closed" /\ state' = "open" /\ age' = 0
        BY <1>5, <2>3 DEF Fail
      <3>2. QED
        BY <2>1, <2>3, <3>1 DEF Promise!CallFails
    <2>4. CASE caller[c] = "trial"
      <3>1. state = "half_open" /\ state' = "open" /\ age' = 0
        BY <1>5, <2>1, <2>4 DEF Fail
      <3>2. QED
        BY <3>1 DEF Promise!TrialFails
    <2>5. QED
      <3>1. caller[c] \in {"call", "trial"}
        BY <1>5 DEF Fail
      <3>2. failures + 1 < Threshold \/ failures + 1 >= Threshold
        BY <2>1
      <3>3. QED
        BY <2>2, <2>3, <2>4, <3>1, <3>2
  <1>6. CASE UNCHANGED vars
    BY <1>6 DEF vars, Promise!pvars
  <1>7. QED
    BY <1>1, <1>2, <1>3, <1>4, <1>5, <1>6
       DEF Next, Return, Promise!PromiseNext

\* A breaker shared by any number of threads is, whenever their calls do not
\* overlap, the three-state machine of circuit.py:3-6: the cooldown is respected
\* and one trial decides.
THEOREM BreakerKeepsPromise == Spec => ImplementsPromise
  <1>1. Init => Promise!PromiseInit /\ CallKnowsState
    BY ConfigIsValid
       DEF Init, Promise!PromiseInit, CallKnowsState, Inside, InTool
  <1>2. BreakerInv /\ CallKnowsState /\ [Next]_vars => CallKnowsState'
    BY StepKeepsCallKnowsState
  <1>3. BreakerInv /\ BreakerInv' /\ CallKnowsState /\ [Next]_vars
            => [overlapped \/ Promise!PromiseNext]_(Promise!pvars)
    BY StepRefinesPromise
  <1>4. QED
    BY <1>1, <1>2, <1>3, BreakerInvHolds, PTL DEF Spec, ImplementsPromise
=============================================================================
