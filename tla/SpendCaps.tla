------------------------------ MODULE SpendCaps ------------------------------
(***************************************************************************)
(* CostTracker, BudgetCap and StepBudget (src/codagent/observability): the   *)
(* threads of an agent share a tracker and a step budget, and each watches   *)
(* the tracker through a cap of its own.  A turn is StepBudget.step, the     *)
(* model's call, then BudgetCap.record_call.                                *)
(*                                                                         *)
(* Nothing is locked.  CPython 3.10 and later switch threads at calls, and   *)
(* self.input_tokens += int(n) calls int between its read and its write: the *)
(* counter is read in one step and written in another.  The increments of    *)
(* calls and steps call nothing.                                            *)
(*                                                                         *)
(* Prices are whole numbers per token; the rounding of floats is left out.   *)
(***************************************************************************)
EXTENDS Integers, FiniteSetsExt

CONSTANTS Callers, Models,
          None,
          Usages,      \* what calls report: records of input, output and model
          Defaults,    \* prices.json: input and output price of priced models
          Override,    \* the file given to update_prices_from_disk
          Caps,        \* each caller's BudgetCap.usd
          MaxSteps,    \* StepBudget.max_steps
          MaxTrackers  \* bound on the trackers made one after the other

ASSUME NoneIsNoModel == None \notin Models
ASSUME UsagesAreUsages ==
    Usages \subseteq [input : Nat, output : Nat, model : Models \cup {None}]
ASSUME PriceListsArePrices ==
    \A list \in {Defaults, Override} :
        /\ DOMAIN list \subseteq Models
        /\ \A m \in DOMAIN list : list[m].input \in Nat /\ list[m].output \in Nat
\* BudgetCap raises ValueError otherwise.
ASSUME CapsArePositive == Caps \in [Callers -> Nat \ {0}]
\* A process has some threads, and a model's context bounds what a call uses.
ASSUME AFewOfEach ==
    /\ IsFiniteSet(Callers) /\ Callers # {}
    /\ IsFiniteSet(Usages) /\ Usages # {}
ASSUME BoundsAreNat == MaxSteps \in Nat /\ MaxTrackers \in Nat

VARIABLES registry, \* MODEL_PRICES
          tracker,  \* the CostTracker
          steps,    \* StepBudget.steps
          turn,     \* each caller's phase, its call's usage and what it has read
          trackers, \* trackers made so far
          truth     \* history: what was recorded on this tracker, whether calls
                    \* overlapped and whether one came before a model was known

vars == <<registry, tracker, steps, turn, trackers, truth>>

NewTracker(list, m) == [input |-> 0, output |-> 0, calls |-> 0, model |-> m,
                        prices |-> list]

\* CostTracker(model=, prices=): a model and a price list of the caller's own may
\* be given; a tracker copies the registry otherwise.
NewTrackers == {NewTracker(list, m) : list \in {registry, Override},
                                      m \in Models \cup {None}}

NoTruth == [input |-> 0, output |-> 0, overlapped |-> FALSE, unnamed |-> FALSE]
Waiting == [phase |-> "idle", usage |-> None, read |-> 0]
Recording == {c \in Callers : turn[c].phase \in {"input", "output"}}

\* CostTracker.total_usd: the first model named prices every token.
Usd(t) ==
    IF t.model \notin DOMAIN t.prices THEN 0
    ELSE t.input * t.prices[t.model].input + t.output * t.prices[t.model].output

Exceeded(c) == Usd(tracker) >= Caps[c]

\* Without a prices file nothing is priced.
Init ==
    /\ registry \in {Defaults, <<>>}
    /\ tracker \in NewTrackers
    /\ steps = 0
    /\ turn = [c \in Callers |-> Waiting]
    /\ trackers = 1
    /\ truth = NoTruth

\* dict.update
Updated(list, more) ==
    [m \in DOMAIN list \cup DOMAIN more |->
        IF m \in DOMAIN more THEN more[m] ELSE list[m]]

\* Mutant of UpdatePrices: trackers share the registry instead of a copy.
UpdatePricesOfAll ==
    /\ registry' = Updated(registry, Override)
    /\ tracker' = [tracker EXCEPT !.prices = Updated(registry, Override)]
    /\ UNCHANGED <<steps, turn, trackers, truth>>

\* update_prices_from_disk: trackers that exist keep their copy.
UpdatePrices ==
    /\ registry' = Updated(registry, Override)
    /\ UNCHANGED <<tracker, steps, turn, trackers, truth>>

\* Between two sessions the application makes a new tracker.
MakeTracker ==
    /\ trackers < MaxTrackers
    /\ \A c \in Callers : turn[c].phase \in {"idle", "stopped"}
    /\ tracker' \in NewTrackers
    /\ trackers' = trackers + 1
    /\ turn' = [c \in Callers |-> Waiting]
    /\ steps' = 0
    /\ truth' = NoTruth
    /\ UNCHANGED registry

\* StepBudget.step before the model is called: the count goes on past the
\* limit, and the caller is stopped.
Step(c) ==
    /\ turn[c].phase = "idle"
    /\ steps' = steps + 1
    /\ turn' = [turn EXCEPT ![c].phase =
                    IF steps + 1 > MaxSteps THEN "stopped" ELSE "calling"]
    /\ UNCHANGED <<registry, tracker, trackers, truth>>

\* The model answers; record_call counts it and reads input_tokens.
BeginRecord(c, u) ==
    /\ turn[c].phase = "calling"
    /\ tracker' = [tracker EXCEPT !.calls = @ + 1]
    /\ turn' = [turn EXCEPT ![c] = [phase |-> "input", usage |-> u,
                                    read |-> tracker.input]]
    /\ truth' = [truth EXCEPT
           !.overlapped = @ \/ Recording # {},
           !.unnamed = @ \/ (u.model = None /\ tracker.model = None)]
    /\ UNCHANGED <<registry, steps, trackers>>

\* input_tokens is written, output_tokens read.
StoreInput(c) ==
    /\ turn[c].phase = "input"
    /\ tracker' = [tracker EXCEPT !.input = turn[c].read + turn[c].usage.input]
    /\ turn' = [turn EXCEPT ![c].phase = "output", ![c].read = tracker.output]
    /\ truth' = [truth EXCEPT !.input = @ + turn[c].usage.input]
    /\ UNCHANGED <<registry, steps, trackers>>

\* Mutant of StoreOutput: the input tokens are added to the output.
StoreOutputTyped(c) ==
    /\ turn[c].phase = "output"
    /\ tracker' = [tracker EXCEPT
           !.output = turn[c].read + turn[c].usage.input,
           !.model = IF @ = None THEN turn[c].usage.model ELSE @]
    /\ turn' = [turn EXCEPT ![c].phase = "check"]
    /\ truth' = [truth EXCEPT !.output = @ + turn[c].usage.output]
    /\ UNCHANGED <<registry, steps, trackers>>

\* output_tokens is written, and the first model named is kept.
StoreOutput(c) ==
    /\ turn[c].phase = "output"
    /\ tracker' = [tracker EXCEPT
           !.output = turn[c].read + turn[c].usage.output,
           !.model = IF @ = None THEN turn[c].usage.model ELSE @]
    /\ turn' = [turn EXCEPT ![c].phase = "check"]
    /\ truth' = [truth EXCEPT !.output = @ + turn[c].usage.output]
    /\ UNCHANGED <<registry, steps, trackers>>

\* Mutant of Check: the cap must be passed, not reached.
CheckStrictly(c) ==
    /\ turn[c].phase = "check"
    /\ turn' = [turn EXCEPT ![c] =
           [Waiting EXCEPT !.phase =
               IF Usd(tracker) > Caps[c] THEN "stopped" ELSE "idle"]]
    /\ UNCHANGED <<registry, tracker, steps, trackers, truth>>

\* BudgetCap.check: the caller is stopped once its cap is reached.
Check(c) ==
    /\ turn[c].phase = "check"
    /\ turn' = [turn EXCEPT ![c] =
           [Waiting EXCEPT !.phase = IF Exceeded(c) THEN "stopped" ELSE "idle"]]
    /\ UNCHANGED <<registry, tracker, steps, trackers, truth>>

Next ==
    \/ UpdatePrices \/ MakeTracker
    \/ \E c \in Callers :
           \/ Step(c) \/ StoreInput(c) \/ StoreOutput(c) \/ Check(c)
           \/ \E u \in Usages : BeginRecord(c, u)

Spec == Init /\ [][Next]_vars

----------------------------------------------------------------------------
(* Properties.                                                              *)

\* Calls recorded at once may lose tokens, and even take back tokens counted
\* before, but never add any; as long as no two overlap the tracker is exact.
OnlyOverlapsLose ==
    /\ tracker.input <= truth.input /\ tracker.output <= truth.output
    /\ ~truth.overlapped =>
           tracker.input = truth.input /\ tracker.output = truth.output

\* A cap that was reached stays reached, although callers go on with the call
\* they are in and others may record under another cap: nobody who was stopped
\* would have been let through later.  Only overlapping calls can undo it.
ExceededStays ==
    [][(trackers' = trackers /\ ~truth'.overlapped)
        => \A c \in Callers : Exceeded(c) => Exceeded(c)']_vars

CostOf(u) ==
    IF tracker.model \notin DOMAIN tracker.prices THEN 0
    ELSE LET p == tracker.prices[tracker.model]
         IN u.input * p.input + u.output * p.output

\* The overshoot of the caps is one call for each caller, whatever prices are
\* loaded meanwhile, while no tokens are lost and no call came before the first
\* that named its model; those are free until then and priced in one go.
SpendIsCapped ==
    (~truth.overlapped /\ ~truth.unnamed) =>
        Usd(tracker) < Max({Caps[c] : c \in Callers})
                       + Cardinality(Callers) * Max({CostOf(u) : u \in Usages})
=============================================================================
