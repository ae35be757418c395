---------------------------- MODULE Unlocked_proofs ----------------------------
(***************************************************************************)
(* Proofs about what threads share without a lock: the tracker of SpendCaps,  *)
(* for any callers, reports, prices and caps, and the wrappers of NodeStack,  *)
(* for any threads, keys, ttl and limits.                                   *)
(***************************************************************************)
EXTENDS SpendCaps, NodeStack, FiniteSetTheorems, SequenceTheorems,
        WellFoundedInduction, TLAPS

----------------------------------------------------------------------------
(* The tracker: what it counts, and what it loses.                          *)

IsPriceList(list) ==
    /\ DOMAIN list \subseteq Models
    /\ \A m \in DOMAIN list : list[m].input \in Nat /\ list[m].output \in Nat

Phases == {"idle", "calling", "input", "output", "check", "stopped"}

TypeOK ==
    /\ tracker \in [input : Nat, output : Nat, calls : Nat,
                    model : Models \cup {None}, prices : {tracker.prices}]
    /\ turn \in [Callers -> [phase : Phases, usage : Usages \cup {None}, read : Nat]]
    /\ \A c \in Recording : turn[c].usage \in Usages
    /\ truth \in [input : Nat, output : Nat, overlapped : BOOLEAN, unnamed : BOOLEAN]

\* What a caller has read is no more than was recorded; while no calls overlap
\* it is what the tracker has, and one caller at most is recording.
Reads ==
    \A c \in Callers :
        /\ turn[c].phase = "input" => turn[c].read <= truth.input
        /\ turn[c].phase = "output" => turn[c].read <= truth.output

Alone ==
    ~truth.overlapped =>
        /\ \A c, d \in Recording : c = d
        /\ \A c \in Callers :
               /\ turn[c].phase = "input" => turn[c].read = tracker.input
               /\ turn[c].phase = "output" => turn[c].read = tracker.output

CapsInv == TypeOK /\ Reads /\ Alone /\ OnlyOverlapsLose

\* The counters start at zero, for the first tracker and for every later one.
LEMMA InitCapsInv == Init => CapsInv
  BY DEF Init, NewTrackers, NewTracker, NoTruth, Waiting, Recording, CapsInv, TypeOK, Phases, Reads,
         Alone, OnlyOverlapsLose

\* Steps that leave the tracker's counters alone.
LEMMA PricesKeep == ASSUME CapsInv, UpdatePrices \/ UNCHANGED vars PROVE CapsInv'
  BY DEF UpdatePrices, vars, CapsInv, TypeOK, Reads, Alone, OnlyOverlapsLose, Recording

\* Counting a step, or checking a cap, records nothing.
LEMMA TurnKeeps ==
    ASSUME CapsInv, NEW c \in Callers, Step(c) \/ Check(c) PROVE CapsInv'
  <1> USE DEF CapsInv, TypeOK, Phases, Reads, Alone, OnlyOverlapsLose, Recording
  <1>1. CASE Step(c)
    BY <1>1 DEF Step
  <1>2. CASE Check(c)
    BY <1>2 DEF Check, Waiting
  <1>3. QED
    BY <1>1, <1>2

\* A new tracker starts when nobody is recording.
LEMMA MakeTrackerKeeps == ASSUME CapsInv, MakeTracker PROVE CapsInv'
  BY DEF MakeTracker, NewTrackers, NewTracker, NoTruth, Waiting, Recording, CapsInv, TypeOK, Phases,
         Reads, Alone, OnlyOverlapsLose

\* A call that begins while another records is an overlap.
LEMMA BeginRecordKeeps ==
    ASSUME CapsInv, NEW c \in Callers, NEW u \in Usages, BeginRecord(c, u)
    PROVE  CapsInv'
  <1>1. /\ turn' = [turn EXCEPT ![c] = [phase |-> "input", usage |-> u,
                                        read |-> tracker.input]]
        /\ tracker' = [tracker EXCEPT !.calls = @ + 1]
        /\ truth'.input = truth.input /\ truth'.output = truth.output
        /\ truth'.overlapped = (truth.overlapped \/ Recording # {})
        /\ truth'.overlapped \in BOOLEAN /\ truth'.unnamed \in BOOLEAN
    BY DEF BeginRecord, CapsInv, TypeOK
  <1>2. /\ tracker.input \in Nat /\ tracker.output \in Nat /\ tracker.calls \in Nat
        /\ tracker'.input = tracker.input /\ tracker'.output = tracker.output
    BY <1>1 DEF CapsInv, TypeOK
  <1>3. turn'[c].phase = "input" /\ turn'[c].read = tracker.input /\ turn'[c].usage = u
    BY <1>1 DEF CapsInv, TypeOK
  <1>4. \A d \in Callers : d # c => turn'[d] = turn[d]
    BY <1>1 DEF CapsInv, TypeOK
  <1>5. TypeOK'
    <2>1. tracker' \in [input : Nat, output : Nat, calls : Nat,
                        model : Models \cup {None}, prices : {tracker'.prices}]
      BY <1>1, <1>2 DEF CapsInv, TypeOK
    <2>2. turn' \in [Callers -> [phase : Phases, usage : Usages \cup {None}, read : Nat]]
      BY <1>1, <1>2 DEF CapsInv, TypeOK, Phases
    <2>3. \A d \in Recording' : turn'[d].usage \in Usages
      BY <1>3, <1>4 DEF CapsInv, TypeOK, Recording
    <2>4. truth' \in [input : Nat, output : Nat, overlapped : BOOLEAN, unnamed : BOOLEAN]
      <3>1. truth' = [truth EXCEPT !.overlapped = truth'.overlapped,
                                   !.unnamed = truth'.unnamed]
        BY <1>1 DEF BeginRecord, CapsInv, TypeOK
      <3>2. QED
        BY <1>1, <3>1 DEF CapsInv, TypeOK
    <2>5. QED
      BY <2>1, <2>2, <2>3, <2>4 DEF TypeOK
  <1>6. Reads'
    BY <1>1, <1>2, <1>3, <1>4 DEF CapsInv, Reads, OnlyOverlapsLose
  <1>7. Alone'
    BY <1>1, <1>2, <1>3, <1>4 DEF CapsInv, Alone, Recording
  <1>8. OnlyOverlapsLose'
    BY <1>1, <1>2 DEF CapsInv, OnlyOverlapsLose
  <1>9. QED
    BY <1>5, <1>6, <1>7, <1>8 DEF CapsInv

\* What was read is at most what was recorded, and the same if nobody overlaps.
LEMMA StoreInputKeeps ==
    ASSUME CapsInv, NEW c \in Callers, StoreInput(c) PROVE CapsInv'
  <1>1. turn[c].usage.input \in Nat /\ turn[c].usage.model \in Models \cup {None}
    BY UsagesAreUsages DEF StoreInput, CapsInv, TypeOK, Recording
  <1>2. /\ turn[c].phase = "input" /\ turn[c].read \in Nat
        /\ tracker.input \in Nat /\ tracker.output \in Nat
        /\ truth.input \in Nat /\ truth.output \in Nat
    BY DEF StoreInput, CapsInv, TypeOK
  <1>3. /\ tracker'.input = turn[c].read + turn[c].usage.input
        /\ tracker'.output = tracker.output
        /\ truth'.input = truth.input + turn[c].usage.input
        /\ truth'.output = truth.output
        /\ truth'.overlapped = truth.overlapped
    BY DEF StoreInput, CapsInv, TypeOK
  <1>4. /\ turn'[c].phase = "output" /\ turn'[c].usage = turn[c].usage
        /\ turn'[c].read = tracker.output
        /\ \A d \in Callers : d # c => turn'[d] = turn[d]
    BY DEF StoreInput, CapsInv, TypeOK
  <1>5. TypeOK'
    <2>1. tracker' \in [input : Nat, output : Nat, calls : Nat,
                        model : Models \cup {None}, prices : {tracker'.prices}]
      BY <1>1, <1>2 DEF StoreInput, CapsInv, TypeOK
    <2>2. turn' \in [Callers -> [phase : Phases, usage : Usages \cup {None}, read : Nat]]
      BY <1>2 DEF StoreInput, CapsInv, TypeOK, Phases
    <2>3. \A d \in Recording' : turn'[d].usage \in Usages
      BY <1>2, <1>4 DEF CapsInv, TypeOK, Recording
    <2>4. truth' \in [input : Nat, output : Nat, overlapped : BOOLEAN, unnamed : BOOLEAN]
      BY <1>1, <1>2 DEF StoreInput, CapsInv, TypeOK
    <2>5. QED
      BY <2>1, <2>2, <2>3, <2>4 DEF TypeOK
  <1>6. Reads'
    BY <1>1, <1>2, <1>3, <1>4 DEF CapsInv, TypeOK, Reads, OnlyOverlapsLose
  <1>7. Alone'
    BY <1>1, <1>2, <1>3, <1>4 DEF CapsInv, Alone, Recording
  <1>8. OnlyOverlapsLose'
    BY <1>1, <1>2, <1>3 DEF CapsInv, Reads, Alone, OnlyOverlapsLose
  <1>9. QED
    BY <1>5, <1>6, <1>7, <1>8 DEF CapsInv

\* What was read is at most what was recorded, and the same if nobody overlaps.
LEMMA StoreOutputKeeps ==
    ASSUME CapsInv, NEW c \in Callers, StoreOutput(c) PROVE CapsInv'
  <1>1. turn[c].usage.output \in Nat /\ turn[c].usage.model \in Models \cup {None}
    BY UsagesAreUsages DEF StoreOutput, CapsInv, TypeOK, Recording
  <1>2. /\ turn[c].phase = "output" /\ turn[c].read \in Nat
        /\ tracker.input \in Nat /\ tracker.output \in Nat
        /\ truth.input \in Nat /\ truth.output \in Nat
    BY DEF StoreOutput, CapsInv, TypeOK
  <1>3. /\ tracker'.output = turn[c].read + turn[c].usage.output
        /\ tracker'.input = tracker.input
        /\ truth'.output = truth.output + turn[c].usage.output
        /\ truth'.input = truth.input
        /\ truth'.overlapped = truth.overlapped
    BY DEF StoreOutput, CapsInv, TypeOK
  <1>4. /\ turn'[c].phase = "check" /\ turn'[c].usage = turn[c].usage
        /\ turn'[c].read = turn[c].read
        /\ \A d \in Callers : d # c => turn'[d] = turn[d]
    BY DEF StoreOutput, CapsInv, TypeOK
  <1>5. TypeOK'
    <2>1. tracker' \in [input : Nat, output : Nat, calls : Nat,
                        model : Models \cup {None}, prices : {tracker'.prices}]
      <3> DEFINE o == turn[c].read + turn[c].usage.output
                 m == IF tracker.model = None THEN turn[c].usage.model
                      ELSE tracker.model
      <3>1. tracker' = [tracker EXCEPT !.output = o, !.model = m]
        BY DEF StoreOutput
      <3>2. o \in Nat /\ m \in Models \cup {None}
        BY <1>1, <1>2 DEF CapsInv, TypeOK
      <3> HIDE DEF o, m
      <3>3. QED
        BY <3>1, <3>2 DEF CapsInv, TypeOK
    <2>2. turn' \in [Callers -> [phase : Phases, usage : Usages \cup {None}, read : Nat]]
      BY <1>2 DEF StoreOutput, CapsInv, TypeOK, Phases
    <2>3. \A d \in Recording' : turn'[d].usage \in Usages
      BY <1>2, <1>4 DEF CapsInv, TypeOK, Recording
    <2>4. truth' \in [input : Nat, output : Nat, overlapped : BOOLEAN, unnamed : BOOLEAN]
      BY <1>1, <1>2 DEF StoreOutput, CapsInv, TypeOK
    <2>5. QED
      BY <2>1, <2>2, <2>3, <2>4 DEF TypeOK
  <1>6. Reads'
    BY <1>1, <1>2, <1>3, <1>4 DEF CapsInv, TypeOK, Reads, OnlyOverlapsLose
  <1>7. Alone'
    BY <1>1, <1>2, <1>3, <1>4 DEF CapsInv, Alone, Recording
  <1>8. OnlyOverlapsLose'
    BY <1>1, <1>2, <1>3 DEF CapsInv, Reads, Alone, OnlyOverlapsLose
  <1>9. QED
    BY <1>5, <1>6, <1>7, <1>8 DEF CapsInv

\* Calls recorded at once lose tokens and never add any; the others are counted
\* exactly.
THEOREM OverlapsAloneLose == Spec => []OnlyOverlapsLose
  <1>1. CapsInv /\ [Next]_vars => CapsInv'
    BY PricesKeep, TurnKeeps, MakeTrackerKeeps, BeginRecordKeeps, StoreInputKeeps,
       StoreOutputKeeps
    DEF Next
  <1>2. CapsInv => OnlyOverlapsLose
    BY DEF CapsInv
  <1>3. QED
    BY <1>1, <1>2, InitCapsInv, PTL DEF Spec

----------------------------------------------------------------------------
(* Caps that were reached stay reached.                                     *)

Pricing == IsPriceList(registry) /\ IsPriceList(tracker.prices) /\ trackers \in Nat

\* Whatever the prices, no tokens cost nothing.
LEMMA NothingCostsNothing ==
    ASSUME NEW t, IsPriceList(t.prices), t.input = 0, t.output = 0 PROVE Usd(t) = 0
  BY DEF Usd, IsPriceList

\* Loading a file leaves a list of prices.
LEMMA PricingStays ==
    /\ Init => Pricing
    /\ CapsInv /\ Pricing /\ [Next]_vars => Pricing'
  <1>1. IsPriceList(Defaults) /\ IsPriceList(Override) /\ IsPriceList(<<>>)
    BY PriceListsArePrices DEF IsPriceList
  <1>2. ASSUME Init PROVE Pricing
    BY <1>1, <1>2 DEF Init, NewTrackers, NewTracker, Pricing
  <1>3. ASSUME CapsInv, Pricing, [Next]_vars PROVE Pricing'
    <2>1. IsPriceList(Updated(registry, Override))
      BY <1>1, <1>3 DEF Pricing, IsPriceList, Updated
    <2>2. CASE UpdatePrices
      BY <2>1, <2>2, <1>3 DEF UpdatePrices, Pricing
    <2>3. CASE MakeTracker
      BY <1>1, <2>3, <1>3 DEF MakeTracker, NewTrackers, NewTracker, Pricing
    <2>4. CASE \E c \in Callers :
                  \/ Step(c) \/ StoreInput(c) \/ StoreOutput(c) \/ Check(c)
                  \/ \E u \in Usages : BeginRecord(c, u)
      <3>1. tracker'.prices = tracker.prices
        BY <2>4, <1>3 DEF Step, StoreInput, StoreOutput, Check, BeginRecord, CapsInv, TypeOK
      <3>2. registry' = registry /\ trackers' = trackers
        BY <2>4 DEF Step, StoreInput, StoreOutput, Check, BeginRecord
      <3>3. QED
        BY <3>1, <3>2, <1>3 DEF Pricing
    <2>5. CASE UNCHANGED vars
      BY <2>5, <1>3 DEF vars, Pricing
    <2>6. QED
      BY <2>2, <2>3, <2>4, <2>5, <1>3 DEF Next
  <1>4. QED
    BY <1>2, <1>3

\* More tokens at the same prices cost no less, and an unnamed model is free.
LEMMA UsdGrows ==
    ASSUME NEW t, NEW u, IsPriceList(t.prices), u.prices = t.prices,
           t.input \in Nat, t.output \in Nat, u.input \in Nat, u.output \in Nat,
           t.input <= u.input, t.output <= u.output,
           t.model = None \/ u.model = t.model
    PROVE  Usd(t) \in Nat /\ Usd(u) \in Nat /\ Usd(t) <= Usd(u)
  <1>1. ASSUME NEW a \in Nat, NEW b \in Nat, NEW p \in Nat, a <= b
        PROVE  a * p \in Nat /\ b * p \in Nat /\ a * p <= b * p
    BY <1>1
  <1>2. CASE u.model \notin DOMAIN u.prices
    BY <1>2, NoneIsNoModel DEF Usd, IsPriceList
  <1>3. CASE u.model \in DOMAIN u.prices
    <2> DEFINE p == u.prices[u.model]
    <2>1. p.input \in Nat /\ p.output \in Nat
      BY <1>3 DEF IsPriceList
    <2>2. Usd(u) = u.input * p.input + u.output * p.output
      BY <1>3 DEF Usd
    <2>3. Usd(t) = 0 \/ Usd(t) = t.input * p.input + t.output * p.output
      BY <1>3, NoneIsNoModel DEF Usd, IsPriceList
    <2> HIDE DEF p
    <2>4. /\ t.input * p.input <= u.input * p.input
          /\ t.output * p.output <= u.output * p.output
          /\ t.input * p.input \in Nat /\ u.input * p.input \in Nat
          /\ t.output * p.output \in Nat /\ u.output * p.output \in Nat
      BY <1>1, <2>1
    <2>5. QED
      BY <2>2, <2>3, <2>4
  <1>4. QED
    BY <1>2, <1>3

\* As long as no calls overlap, a step takes no token back.
LEMMA TrackerGrows ==
    ASSUME CapsInv, CapsInv', Pricing, [Next]_vars,
           trackers' = trackers, ~truth'.overlapped
    PROVE  /\ tracker'.prices = tracker.prices
           /\ tracker.input <= tracker'.input /\ tracker.output <= tracker'.output
           /\ tracker.model = None \/ tracker'.model = tracker.model
  <1> USE DEF CapsInv, TypeOK
  <1>1. CASE tracker' = tracker
    BY <1>1
  <1>2. ASSUME NEW c \in Callers, NEW u \in Usages, BeginRecord(c, u)
        PROVE  /\ tracker'.prices = tracker.prices /\ tracker'.input = tracker.input
               /\ tracker'.output = tracker.output /\ tracker'.model = tracker.model
    BY <1>2 DEF BeginRecord
  <1>3. ASSUME NEW c \in Callers, StoreInput(c)
        PROVE  /\ tracker'.prices = tracker.prices /\ tracker.input <= tracker'.input
               /\ tracker'.output = tracker.output /\ tracker'.model = tracker.model
    <2>1. turn[c].usage.input \in Nat /\ ~truth.overlapped
      BY <1>3, UsagesAreUsages DEF StoreInput, Recording
    <2>2. turn[c].read = tracker.input
      BY <1>3, <2>1 DEF StoreInput, Alone
    <2>3. QED
      BY <1>3, <2>1, <2>2 DEF StoreInput
  <1>4. ASSUME NEW c \in Callers, StoreOutput(c)
        PROVE  /\ tracker'.prices = tracker.prices /\ tracker'.input = tracker.input
               /\ tracker.output <= tracker'.output
               /\ tracker.model = None \/ tracker'.model = tracker.model
    <2>1. turn[c].usage.output \in Nat /\ ~truth.overlapped
      BY <1>4, UsagesAreUsages DEF StoreOutput, Recording
    <2>2. turn[c].read = tracker.output
      BY <1>4, <2>1 DEF StoreOutput, Alone
    <2>3. QED
      BY <1>4, <2>1, <2>2 DEF StoreOutput
  <1>5. ~MakeTracker
    BY DEF MakeTracker, Pricing
  <1>6. CASE UpdatePrices \/ (\E c \in Callers : Step(c) \/ Check(c)) \/ UNCHANGED vars
    BY <1>1, <1>6 DEF UpdatePrices, Step, Check, vars
  <1>7. QED
    BY <1>2, <1>3, <1>4, <1>5, <1>6 DEF Next

\* A cap that was reached stays reached while no calls overlap, for any callers,
\* models and prices, whatever is loaded meanwhile.
THEOREM CapsStayReached == Spec => ExceededStays
  <1>1. ASSUME CapsInv, CapsInv', Pricing, [Next]_vars, trackers' = trackers,
               ~truth'.overlapped, NEW c \in Callers, Exceeded(c)
        PROVE  Exceeded(c)'
    <2>1. /\ Usd(tracker) \in Nat /\ Usd(tracker') \in Nat
          /\ Usd(tracker) <= Usd(tracker')
      <3>1. /\ tracker.input \in Nat /\ tracker.output \in Nat
            /\ tracker'.input \in Nat /\ tracker'.output \in Nat
        BY <1>1 DEF CapsInv, TypeOK
      <3>2. QED
        BY <1>1, <3>1, TrackerGrows, UsdGrows DEF Pricing
    <2>2. Caps[c] \in Nat
      BY CapsArePositive
    <2>3. QED
      BY <1>1, <2>1, <2>2 DEF Exceeded, Usd
  <1>2. CapsInv /\ Pricing /\ [Next]_vars => CapsInv'
    BY PricesKeep, TurnKeeps, MakeTrackerKeeps, BeginRecordKeeps, StoreInputKeeps,
       StoreOutputKeeps
    DEF Next
  <1>3. CapsInv /\ CapsInv' /\ Pricing /\ [Next]_vars =>
            [(trackers' = trackers /\ ~truth'.overlapped)
                => \A c \in Callers : Exceeded(c) => Exceeded(c)']_vars
    BY <1>1
  <1>4. QED
    BY <1>2, <1>3, InitCapsInv, PricingStays, PTL DEF Spec, ExceededStays
----------------------------------------------------------------------------
(* The overshoot of the caps.                                               *)

HighestCap == Max({Caps[c] : c \in Callers})
HighestCost == Max({CostOf(u) : u \in Usages})

\* What so many tokens cost at a tracker's prices.
TokenCost(t, input, output) ==
    IF t.model \notin DOMAIN t.prices THEN 0
    ELSE input * t.prices[t.model].input + output * t.prices[t.model].output

\* Callers whose call has begun to count and who have not been let through since.
Late == {c \in Callers : turn[c].phase \in {"output", "check", "stopped"}}

\* Until a model is named there is at most the input of one call, which names it.
FirstIsNamed ==
    (~truth.overlapped /\ ~truth.unnamed /\ tracker.model = None) =>
        /\ tracker.output = 0
        /\ \A c \in Recording : turn[c].usage.model # None
        /\ \A c \in Callers :
              turn[c].phase = "output" => tracker.input = turn[c].usage.input
        /\ (\A c \in Callers : turn[c].phase # "output") => tracker.input = 0

\* Each late caller pays for one call above the highest cap, and the call that
\* is half counted is paid for already.
LateCallersPay ==
    (~truth.overlapped /\ ~truth.unnamed) =>
        /\ Usd(tracker) < HighestCap + Cardinality(Late) * HighestCost
        /\ \A c \in Callers :
              turn[c].phase = "output" =>
                  Usd(tracker) + TokenCost(tracker, 0, turn[c].usage.output)
                      < HighestCap + Cardinality(Late) * HighestCost

SpendInv == CapsInv /\ Pricing /\ FirstIsNamed /\ LateCallersPay

\* A finite set of numbers with an element has a greatest one.
LEMMA MaxOfFinite ==
    ASSUME NEW S \in SUBSET Nat, IsFiniteSet(S), S # {}
    PROVE  Max(S) \in S /\ \A x \in S : x <= Max(S)
  <1> DEFINE HasMax(T) == \E m \in T : \A x \in T : x <= m
             Sizes == {n \in Nat : \E T \in SUBSET S :
                                     T # {} /\ ~HasMax(T) /\ Cardinality(T) = n}
             R == OpToRel(<, Nat)
  <1>1. Sizes = {}
    <2>1. SUFFICES ASSUME Sizes # {} PROVE FALSE
      OBVIOUS
    <2>2. PICK n \in Sizes : \A k \in Sizes : <<k, n>> \notin R
      <3>1. IsWellFoundedOn(R, Nat)
        BY NatLessThanWellFounded
      <3>2. Sizes \subseteq Nat
        OBVIOUS
      <3> HIDE DEF Sizes, R
      <3>3. QED
        BY <2>1, <3>1, <3>2, WFMin
    <2>3. PICK T \in SUBSET S : T # {} /\ ~HasMax(T) /\ Cardinality(T) = n
      OBVIOUS
    <2>4. PICK x \in T : TRUE
      BY <2>3
    <2>5. PICK y \in T : y > x
      BY <2>3, <2>4
    <2> DEFINE U == T \ {x}
    <2>6. y \in U /\ U \in SUBSET S
      BY <2>4, <2>5
    <2>7. Cardinality(U) = n - 1 /\ Cardinality(U) \in Nat /\ n \in Nat
      BY <2>3, <2>4, FS_Subset, FS_RemoveElement, FS_CardinalityType
    <2>8. HasMax(U)
      <3>1. SUFFICES ASSUME ~HasMax(U) PROVE FALSE
        OBVIOUS
      <3>2. n - 1 \in Sizes
        BY <2>6, <2>7, <3>1
      <3>3. <<n - 1, n>> \in R
        BY <2>7 DEF OpToRel
      <3>4. QED
        BY <2>2, <3>2, <3>3
    <2>9. PICK m \in U : \A z \in U : z <= m
      BY <2>8
    <2>10. \A z \in T : z <= m
      <3>1. x < y /\ y <= m /\ x \in Nat /\ y \in Nat /\ m \in Nat
        BY <2>4, <2>5, <2>6, <2>9
      <3>2. QED
        BY <2>9, <3>1
    <2>11. QED
      BY <2>3, <2>9, <2>10
  <1>2. HasMax(S)
    BY <1>1, FS_CardinalityType
  <1>3. QED
    BY <1>2 DEF Max

\* A number for each member of a finite set: one of them is the greatest.
LEMMA MaxOfImage ==
    ASSUME NEW S, IsFiniteSet(S), S # {}, NEW f \in [S -> Nat],
           NEW N, N = {f[x] : x \in S}
    PROVE  Max(N) \in Nat /\ \A x \in S : f[x] <= Max(N)
  <1>1. f \in Surjection(S, N)
    BY DEF Surjection
  <1>2. IsFiniteSet(N)
    BY <1>1, FS_Surjection
  <1>3. N \in SUBSET Nat /\ N # {}
    OBVIOUS
  <1>4. QED
    BY <1>2, <1>3, MaxOfFinite

\* No cap is higher than the highest, and no call dearer than the dearest.
HighestAreHighest ==
    /\ HighestCap \in Nat \ {0} /\ \A c \in Callers : Caps[c] <= HighestCap
    /\ HighestCost \in Nat
    /\ \A u \in Usages : CostOf(u) \in Nat /\ CostOf(u) <= HighestCost

\* So it is at whatever prices the tracker has.
LEMMA CapAndCost == Pricing => HighestAreHighest
  <1> SUFFICES ASSUME Pricing PROVE HighestAreHighest
    OBVIOUS
  <1>1. HighestCap \in Nat /\ \A c \in Callers : Caps[c] <= HighestCap
    <2>1. Caps \in [Callers -> Nat]
      BY CapsArePositive
    <2>2. QED
      BY <2>1, AFewOfEach, MaxOfImage DEF HighestCap
  <1>2. HighestCap # 0
    BY <1>1, CapsArePositive, AFewOfEach
  <1>3. ASSUME NEW u \in Usages PROVE CostOf(u) \in Nat
    <2>1. u.input \in Nat /\ u.output \in Nat
      BY UsagesAreUsages
    <2>2. CASE tracker.model \notin DOMAIN tracker.prices
      BY <2>2 DEF CostOf
    <2>3. CASE tracker.model \in DOMAIN tracker.prices
      <3> DEFINE p == tracker.prices[tracker.model]
      <3>1. p.input \in Nat /\ p.output \in Nat
        BY <2>3 DEF Pricing, IsPriceList
      <3>2. CostOf(u) = u.input * p.input + u.output * p.output
        BY <2>3 DEF CostOf
      <3> HIDE DEF p
      <3>3. QED
        BY <2>1, <3>1, <3>2
    <2>4. QED
      BY <2>2, <2>3
  <1>4. HighestCost \in Nat /\ \A u \in Usages : CostOf(u) <= HighestCost
    <2> DEFINE f == [u \in Usages |-> CostOf(u)]
    <2>1. f \in [Usages -> Nat] /\ \A u \in Usages : f[u] = CostOf(u)
      BY <1>3
    <2>2. HighestCost = Max({f[u] : u \in Usages})
      <3>1. {f[u] : u \in Usages} = {CostOf(u) : u \in Usages}
        BY <2>1
      <3>2. QED
        BY <3>1 DEF HighestCost
    <2> HIDE DEF f
    <2>3. QED
      BY <2>1, <2>2, AFewOfEach, MaxOfImage
  <1>5. QED
    BY <1>1, <1>2, <1>3, <1>4 DEF HighestAreHighest

\* After a step too.
LEMMA CapAndCostNext == Pricing' => HighestAreHighest'
  BY CapAndCost, PTL

\* A call that names its model is the first to count and the first to name one.
LEMMA FirstIsNamedStays ==
    ASSUME CapsInv, CapsInv', FirstIsNamed, [Next]_vars
    PROVE  FirstIsNamed'
  <1> USE DEF CapsInv, TypeOK
  <1>1. CASE UpdatePrices \/ UNCHANGED vars
    BY <1>1 DEF UpdatePrices, vars, FirstIsNamed, Recording
  <1>2. CASE MakeTracker
    BY <1>2 DEF MakeTracker, NewTrackers, NewTracker, Waiting, FirstIsNamed, Recording
  <1>3. ASSUME NEW c \in Callers, Step(c) \/ Check(c) PROVE FirstIsNamed'
    <2>1. /\ tracker' = tracker /\ truth' = truth
          /\ turn'[c].phase \in {"calling", "stopped", "idle"}
          /\ turn[c].phase \in {"idle", "check"}
          /\ \A d \in Callers : d # c => turn'[d] = turn[d]
      BY <1>3 DEF Step, Check, Waiting
    <2>2. QED
      BY <2>1 DEF FirstIsNamed, Recording
  <1>4. ASSUME NEW c \in Callers, NEW u \in Usages, BeginRecord(c, u)
        PROVE  FirstIsNamed'
    <2>1. /\ tracker'.model = tracker.model /\ tracker'.input = tracker.input
          /\ tracker'.output = tracker.output
      BY <1>4 DEF BeginRecord
    <2>2. /\ turn'[c].phase = "input" /\ turn'[c].usage = u /\ turn[c].phase = "calling"
          /\ \A d \in Callers : d # c => turn'[d] = turn[d]
      BY <1>4 DEF BeginRecord
    <2>3. ASSUME ~truth'.overlapped, ~truth'.unnamed, tracker'.model = None
          PROVE  /\ ~truth.overlapped /\ ~truth.unnamed /\ Recording = {}
                 /\ u.model # None
      BY <1>4, <2>1, <2>3 DEF BeginRecord
    <2>4. QED
      BY <2>1, <2>2, <2>3 DEF FirstIsNamed, Recording
  <1>5. ASSUME NEW c \in Callers, StoreInput(c) PROVE FirstIsNamed'
    <2>1. /\ tracker'.model = tracker.model /\ tracker'.output = tracker.output
          /\ tracker'.input = turn[c].read + turn[c].usage.input
          /\ truth'.overlapped = truth.overlapped /\ truth'.unnamed = truth.unnamed
      BY <1>5 DEF StoreInput
    <2>2. /\ turn'[c].phase = "output" /\ turn'[c].usage = turn[c].usage
          /\ turn[c].phase = "input"
          /\ \A d \in Callers : d # c => turn'[d] = turn[d]
      BY <1>5 DEF StoreInput
    <2>3. ASSUME ~truth.overlapped, ~truth.unnamed, tracker.model = None
          PROVE  /\ tracker'.input = turn[c].usage.input
                 /\ \A d \in Callers : d # c => turn[d].phase \notin {"input", "output"}
      <3>1. \A d \in Callers : d # c => turn[d].phase \notin {"input", "output"}
        BY <2>2, <2>3 DEF Alone, Recording
      <3>2. turn[c].read = tracker.input /\ tracker.input = 0
        BY <2>2, <2>3, <3>1 DEF Alone, FirstIsNamed
      <3>3. turn[c].usage.input \in Nat
        BY <2>2, UsagesAreUsages DEF Recording
      <3>4. QED
        BY <2>1, <3>1, <3>2, <3>3
    <2>4. QED
      BY <2>1, <2>2, <2>3 DEF FirstIsNamed, Recording
  <1>6. ASSUME NEW c \in Callers, StoreOutput(c) PROVE FirstIsNamed'
    <2>1. /\ tracker.model # None => tracker'.model = tracker.model
          /\ tracker.model = None => tracker'.model = turn[c].usage.model
          /\ truth'.overlapped = truth.overlapped /\ truth'.unnamed = truth.unnamed
          /\ c \in Recording
      BY <1>6 DEF StoreOutput, Recording
    <2>2. ~(~truth'.overlapped /\ ~truth'.unnamed /\ tracker'.model = None)
      BY <2>1 DEF FirstIsNamed
    <2>3. QED
      BY <2>2 DEF FirstIsNamed
  <1>7. QED
    BY <1>1, <1>2, <1>3, <1>4, <1>5, <1>6 DEF Next

\* How many callers are late, and what one more or one less makes of it.
LEMMA LateIsFinite ==
    /\ IsFiniteSet(Late) /\ Cardinality(Late) \in Nat
    /\ Cardinality(Callers) \in Nat /\ Cardinality(Late) <= Cardinality(Callers)
  <1>1. Late \in SUBSET Callers
    BY DEF Late
  <1>2. QED
    BY <1>1, AFewOfEach, FS_Subset, FS_CardinalityType

\* One call more costs a call more, and more calls cost no less.
LEMMA OneCallMore ==
    ASSUME NEW n \in Nat, NEW cost \in Nat
    PROVE  /\ n * cost \in Nat /\ (n + 1) * cost = n * cost + cost
           /\ \A m \in Nat : m >= n => m * cost >= n * cost
           /\ n # 0 => n * cost >= cost
  OBVIOUS

\* Whatever model was named, if any, tokens have a price each.
LEMMA TokensHavePrices ==
    ASSUME NEW t, IsPriceList(t.prices)
    PROVE  \E p, q \in Nat : \A i, o \in Nat : TokenCost(t, i, o) = i * p + o * q
  <1>1. CASE t.model \notin DOMAIN t.prices
    <2>1. \A i, o \in Nat : TokenCost(t, i, o) = i * 0 + o * 0
      BY <1>1 DEF TokenCost
    <2>2. QED
      BY <2>1
  <1>2. CASE t.model \in DOMAIN t.prices
    <2> DEFINE p == t.prices[t.model].input
               q == t.prices[t.model].output
    <2>1. p \in Nat /\ q \in Nat
      BY <1>2 DEF IsPriceList
    <2>2. \A i, o \in Nat : TokenCost(t, i, o) = i * p + o * q
      BY <1>2 DEF TokenCost
    <2> HIDE DEF p, q
    <2>3. QED
      BY <2>1, <2>2
  <1>3. QED
    BY <1>1, <1>2

\* So what tokens cost is a number.
LEMMA CostsAreNumbers ==
    ASSUME IsPriceList(tracker.prices)
    PROVE  \A i, o \in Nat : TokenCost(tracker, i, o) \in Nat
  <1>1. PICK p \in Nat, q \in Nat :
            \A i, o \in Nat : TokenCost(tracker, i, o) = i * p + o * q
    BY TokensHavePrices
  <1>2. \A i, o \in Nat : i * p + o * q \in Nat
    <2>1. ASSUME NEW i \in Nat, NEW o \in Nat
          PROVE  i * p \in Nat /\ o * q \in Nat
      OBVIOUS
    <2>2. QED
      BY <2>1
  <1>3. QED
    BY <1>1, <1>2

\* total_usd and the cost of a call are costs of tokens.
LEMMA CostsOfTokens ==
    /\ \A t : Usd(t) = TokenCost(t, t.input, t.output)
    /\ \A u : CostOf(u) = TokenCost(tracker, u.input, u.output)
  BY DEF Usd, CostOf, TokenCost

\* The input and then the output of a call are added to what was spent.
LEMMA SpendAddsUp ==
    ASSUME IsPriceList(tracker.prices), tracker.input \in Nat, tracker.output \in Nat,
           NEW u, u.input \in Nat, u.output \in Nat
    PROVE  /\ Usd(tracker) \in Nat /\ CostOf(u) \in Nat
           /\ TokenCost(tracker, 0, u.output) \in Nat
           /\ TokenCost(tracker, 0, u.output) <= CostOf(u)
           /\ TokenCost(tracker, tracker.input + u.input, tracker.output) \in Nat
           /\ TokenCost(tracker, tracker.input, tracker.output + u.output)
                = Usd(tracker) + TokenCost(tracker, 0, u.output)
           /\ TokenCost(tracker, tracker.input + u.input, tracker.output)
                + TokenCost(tracker, 0, u.output) = Usd(tracker) + CostOf(u)
  <1> DEFINE a == tracker.input
             b == tracker.output
             i == u.input
             o == u.output
  <1>1. a \in Nat /\ b \in Nat /\ i \in Nat /\ o \in Nat
    OBVIOUS
  <1>2. PICK p \in Nat, q \in Nat :
            \A x, y \in Nat : TokenCost(tracker, x, y) = x * p + y * q
    BY ONLY IsPriceList(tracker.prices), TokensHavePrices
  <1>3. Usd(tracker) = TokenCost(tracker, a, b) /\ CostOf(u) = TokenCost(tracker, i, o)
    BY CostsOfTokens
  <1> HIDE DEF a, b, i, o
  <1>4. a + i \in Nat /\ b + o \in Nat /\ 0 \in Nat
    BY ONLY <1>1
  <1>5. /\ TokenCost(tracker, a, b) = a * p + b * q
        /\ TokenCost(tracker, i, o) = i * p + o * q
        /\ TokenCost(tracker, 0, o) = 0 * p + o * q
        /\ TokenCost(tracker, a, b + o) = a * p + (b + o) * q
        /\ TokenCost(tracker, a + i, b) = (a + i) * p + b * q
    BY ONLY <1>1, <1>2, <1>4
  <1>6. /\ a * p \in Nat /\ b * q \in Nat /\ i * p \in Nat /\ o * q \in Nat
        /\ 0 * p = 0
        /\ (a + i) * p = a * p + i * p
        /\ (b + o) * q = b * q + o * q
    BY ONLY <1>1, p \in Nat, q \in Nat
  <1>7. QED
    <2>1. /\ Usd(tracker) \in Nat /\ CostOf(u) \in Nat
          /\ TokenCost(tracker, 0, o) \in Nat
          /\ TokenCost(tracker, 0, o) <= CostOf(u)
          /\ TokenCost(tracker, a + i, b) \in Nat
          /\ TokenCost(tracker, a, b + o) = Usd(tracker) + TokenCost(tracker, 0, o)
          /\ TokenCost(tracker, a + i, b) + TokenCost(tracker, 0, o)
               = Usd(tracker) + CostOf(u)
      BY ONLY <1>3, <1>5, <1>6
    <2>2. QED
      BY <2>1 DEF a, b, i, o

\* A call that begins to count makes its caller late, and what it will cost in
\* all is what the bound gains.
LEMMA StoreInputPays ==
    ASSUME CapsInv, Pricing, LateCallersPay, NEW c \in Callers, StoreInput(c)
    PROVE  LateCallersPay'
  <1> USE DEF CapsInv, TypeOK
  <1> DEFINE u == turn[c].usage
             bound == HighestCap + Cardinality(Late) * HighestCost
             rest == TokenCost(tracker, 0, u.output)
  <1>1. SUFFICES ASSUME ~truth'.overlapped, ~truth'.unnamed
                 PROVE  /\ Usd(tracker)' < bound'
                        /\ \A d \in Callers :
                              turn'[d].phase = "output" =>
                                  Usd(tracker)'
                                  + TokenCost(tracker', 0, turn'[d].usage.output) < bound'
    BY DEF LateCallersPay
  <1>2. /\ ~truth.overlapped /\ ~truth.unnamed
        /\ turn[c].phase = "input" /\ c \in Recording
        /\ u \in Usages /\ u.input \in Nat /\ u.output \in Nat
    BY <1>1, UsagesAreUsages DEF StoreInput, Recording
  <1>3. /\ tracker'.model = tracker.model /\ tracker'.prices = tracker.prices
        /\ tracker'.output = tracker.output
        /\ tracker'.input = tracker.input + u.input
        /\ tracker.input \in Nat /\ tracker.output \in Nat
    BY <1>2 DEF StoreInput, Alone
  <1>4. /\ turn'[c].phase = "output" /\ turn'[c].usage = u
        /\ \A d \in Callers : d # c => turn'[d] = turn[d] /\ turn[d].phase # "output"
    BY <1>2 DEF StoreInput, Alone, Recording
  <1>5. /\ Usd(tracker) \in Nat /\ CostOf(u) \in Nat /\ rest \in Nat
        /\ Usd(tracker)' \in Nat /\ Usd(tracker)' + rest = Usd(tracker) + CostOf(u)
    <2>1. Usd(tracker)' = TokenCost(tracker, tracker.input + u.input, tracker.output)
      BY <1>3 DEF Usd, TokenCost
    <2>2. IsPriceList(tracker.prices)
      BY DEF Pricing
    <2> HIDE DEF u
    <2>3. QED
      BY ONLY <1>2, <1>3, <2>1, <2>2, SpendAddsUp
  <1>6. TokenCost(tracker', 0, u.output) = rest
    BY <1>3 DEF TokenCost
  <1>7. Cardinality(Late') = Cardinality(Late) + 1 /\ Cardinality(Late) \in Nat
    <2>1. Late' = Late \cup {c} /\ c \notin Late
      BY <1>2, <1>4 DEF Late
    <2>2. QED
      BY <2>1, LateIsFinite, FS_AddElement
  <1>8. HighestCap' = HighestCap /\ HighestCost' = HighestCost
    BY <1>3 DEF HighestCap, HighestCost, CostOf
  <1>9. /\ bound' = bound + HighestCost /\ bound \in Nat
        /\ HighestCost \in Nat /\ CostOf(u) <= HighestCost
    <2>1. /\ HighestCap \in Nat /\ HighestCost \in Nat
          /\ CostOf(u) <= HighestCost
      BY <1>2, CapAndCost DEF HighestAreHighest
    <2>2. bound' = HighestCap + (Cardinality(Late) + 1) * HighestCost
      BY <1>7, <1>8
    <2>3. QED
      BY <1>7, <2>1, <2>2, OneCallMore
  <1>10. Usd(tracker) < bound
    BY <1>2 DEF LateCallersPay
  <1> HIDE DEF u, bound, rest
  <1>11. Usd(tracker)' < bound' /\ Usd(tracker)' + rest < bound'
    BY <1>5, <1>9, <1>10
  <1>12. QED
    BY <1>4, <1>6, <1>11

\* The rest of a call is added as it was paid for; the call that names the model
\* is all that was spent, and its caller is late.
LEMMA StoreOutputPays ==
    ASSUME CapsInv, Pricing, Pricing', FirstIsNamed, LateCallersPay,
           NEW c \in Callers, StoreOutput(c)
    PROVE  LateCallersPay'
  <1> USE DEF CapsInv, TypeOK
  <1> DEFINE u == turn[c].usage
             bound == HighestCap + Cardinality(Late) * HighestCost
  <1>1. SUFFICES ASSUME ~truth'.overlapped, ~truth'.unnamed
                 PROVE  /\ Usd(tracker)' < bound'
                        /\ \A d \in Callers : turn'[d].phase # "output"
    BY DEF LateCallersPay
  <1>2. /\ ~truth.overlapped /\ ~truth.unnamed
        /\ turn[c].phase = "output" /\ c \in Recording
        /\ u \in Usages /\ u.input \in Nat /\ u.output \in Nat
    BY <1>1, UsagesAreUsages DEF StoreOutput, Recording
  <1>3. /\ tracker'.prices = tracker.prices
        /\ tracker'.output = tracker.output + u.output
        /\ tracker'.input = tracker.input
        /\ tracker.model # None => tracker'.model = tracker.model
        /\ tracker.input \in Nat /\ tracker.output \in Nat
    BY <1>2 DEF StoreOutput, Alone
  <1>4. /\ turn'[c].phase = "check" /\ turn'[c].usage = u
        /\ \A d \in Callers : d # c => turn'[d] = turn[d] /\ turn[d].phase # "output"
    BY <1>2 DEF StoreOutput, Alone, Recording
  <1>5. Late' = Late /\ c \in Late
    BY <1>2, <1>4 DEF Late
  <1>6. Usd(tracker)' < bound'
    <2>1. CASE tracker.model # None
      <3>1. /\ Usd(tracker)' = TokenCost(tracker, tracker.input, tracker.output + u.output)
            /\ bound' = bound
        BY <1>3, <1>5, <2>1 DEF Usd, TokenCost, HighestCap, HighestCost, CostOf
      <3>2. Usd(tracker) + TokenCost(tracker, 0, u.output) < bound
        BY <1>2 DEF LateCallersPay
      <3>3. IsPriceList(tracker.prices)
        BY DEF Pricing
      <3> HIDE DEF u, bound
      <3>4. QED
        BY ONLY <1>2, <1>3, <3>1, <3>2, <3>3, SpendAddsUp
    <2>2. CASE tracker.model = None
      <3>1. Usd(tracker)' = CostOf(u)'
        <4>1. tracker.input = u.input /\ tracker.output = 0
          BY <1>2, <2>2 DEF FirstIsNamed
        <4>2. tracker'.input = u.input /\ tracker'.output = u.output
          BY <1>2, <1>3, <4>1
        <4>3. u' = u
          BY <1>4
        <4>4. QED
          BY <4>2, <4>3 DEF Usd, CostOf
      <3>2. /\ HighestCap' \in Nat \ {0} /\ HighestCost' \in Nat
            /\ CostOf(u)' \in Nat /\ CostOf(u)' <= HighestCost'
        <4>1. HighestAreHighest'
          BY CapAndCostNext
        <4>2. u' = u
          BY <1>4
        <4>3. QED
          BY <1>2, <4>1, <4>2 DEF HighestAreHighest
      <3>3. Cardinality(Late') \in Nat \ {0}
        BY <1>5, LateIsFinite, FS_EmptySet
      <3>4. Cardinality(Late') * HighestCost' >= HighestCost'
        BY <3>2, <3>3, OneCallMore
      <3>5. Cardinality(Late') * HighestCost' \in Nat
        BY <3>2, <3>3, OneCallMore
      <3>6. bound' = HighestCap' + Cardinality(Late') * HighestCost'
        OBVIOUS
      <3> HIDE DEF u, bound
      <3>7. QED
        BY ONLY <3>1, <3>2, <3>4, <3>5, <3>6
    <2>3. QED
      BY <2>1, <2>2
  <1>7. QED
    BY <1>4, <1>6

\* A caller let through has seen less than its cap; who is half counted then is
\* late and pays for the rest.
LEMMA CheckPays ==
    ASSUME CapsInv, Pricing, LateCallersPay, NEW c \in Callers, Check(c)
    PROVE  LateCallersPay'
  <1> USE DEF CapsInv, TypeOK
  <1> DEFINE bound == HighestCap + Cardinality(Late) * HighestCost
  <1>1. /\ tracker' = tracker /\ truth' = truth /\ turn[c].phase = "check"
        /\ \A d \in Callers : d # c => turn'[d] = turn[d]
        /\ Exceeded(c) => turn'[c].phase = "stopped"
        /\ ~Exceeded(c) => turn'[c].phase = "idle"
    BY DEF Check, Waiting
  <1>2. /\ Usd(tracker)' = Usd(tracker)
        /\ HighestCap' = HighestCap /\ HighestCost' = HighestCost
        /\ \A u : TokenCost(tracker', 0, u) = TokenCost(tracker, 0, u)
    BY <1>1 DEF Usd, HighestCap, HighestCost, CostOf
  <1>3. CASE Exceeded(c)
    <2>1. Late' = Late
      BY <1>1, <1>3 DEF Late
    <2>2. QED
      BY <1>1, <1>2, <1>3, <2>1 DEF LateCallersPay
  <1>4. CASE ~Exceeded(c)
    <2>1. Usd(tracker) < HighestCap /\ Usd(tracker) \in Nat
      <3>1. Usd(tracker) \in Nat
        <4>1. \A i, o \in Nat : TokenCost(tracker, i, o) \in Nat
          BY CostsAreNumbers DEF Pricing
        <4>2. tracker.input \in Nat /\ tracker.output \in Nat
          OBVIOUS
        <4>3. QED
          BY <4>1, <4>2, CostsOfTokens
      <3>2. Caps[c] \in Nat /\ Caps[c] <= HighestCap /\ HighestCap \in Nat
        BY CapsArePositive, CapAndCost DEF HighestAreHighest
      <3>3. QED
        BY <1>4, <3>1, <3>2 DEF Exceeded
    <2>2. /\ bound' = HighestCap + Cardinality(Late') * HighestCost
          /\ HighestCap \in Nat /\ HighestCost \in Nat
      BY <1>2, CapAndCost DEF HighestAreHighest
    <2>3. Late' \in SUBSET Late
      BY <1>1, <1>4 DEF Late
    <2>4. Cardinality(Late') \in Nat /\ IsFiniteSet(Late')
      BY <2>3, LateIsFinite, FS_Subset, FS_CardinalityType
    <2>5. Cardinality(Late') * HighestCost \in Nat
      BY <2>2, <2>4, OneCallMore
    <2>6. Usd(tracker) < bound'
      <3> HIDE DEF bound
      <3>1. QED
        BY ONLY <2>1, <2>2, <2>5
    <2>7. ASSUME NEW d \in Callers, turn'[d].phase = "output"
          PROVE  Usd(tracker) + TokenCost(tracker, 0, turn'[d].usage.output) < bound'
      <3> DEFINE u == turn'[d].usage
      <3>1. turn[d].phase = "output" /\ u = turn[d].usage /\ d \in Late'
        BY <1>1, <1>4, <2>7 DEF Late
      <3>2. u \in Usages /\ u.input \in Nat /\ u.output \in Nat
        BY <3>1, UsagesAreUsages DEF Recording
      <3>3. CostOf(u) <= HighestCost /\ CostOf(u) \in Nat
        BY <3>2, CapAndCost DEF HighestAreHighest
      <3>4. /\ TokenCost(tracker, 0, u.output) \in Nat
            /\ TokenCost(tracker, 0, u.output) <= CostOf(u)
        <4>1. /\ tracker.input \in Nat /\ tracker.output \in Nat
              /\ IsPriceList(tracker.prices)
          BY DEF Pricing
        <4> HIDE DEF u
        <4>2. QED
          BY ONLY <3>2, <4>1, SpendAddsUp
      <3>5. Cardinality(Late') # 0
        BY <2>4, <3>1, FS_EmptySet
      <3>6. Cardinality(Late') * HighestCost >= HighestCost
        BY <2>2, <2>4, <3>5, OneCallMore
      <3> HIDE DEF u, bound
      <3>7. Usd(tracker) + TokenCost(tracker, 0, u.output) < bound'
        BY ONLY <2>1, <2>2, <2>5, <3>3, <3>4, <3>6
      <3>8. QED
        BY <3>7 DEF u
    <2>8. QED
      BY <1>2, <2>6, <2>7, <1>1 DEF LateCallersPay
  <1>5. QED
    BY <1>3, <1>4

\* Nothing else spends, nobody else is let through, and a new tracker is empty.
LEMMA OthersPay ==
    ASSUME CapsInv, CapsInv', Pricing, Pricing', LateCallersPay,
           \/ UpdatePrices \/ MakeTracker \/ UNCHANGED vars
           \/ \E c \in Callers : Step(c) \/ \E u \in Usages : BeginRecord(c, u)
    PROVE  LateCallersPay'
  <1> USE DEF CapsInv, TypeOK
  <1>1. CASE MakeTracker
    <2>1. /\ tracker'.input = 0 /\ tracker'.output = 0
          /\ \A c \in Callers : turn'[c].phase = "idle"
      BY <1>1 DEF MakeTracker, NewTrackers, NewTracker, Waiting
    <2>2. Usd(tracker)' = 0
      BY <2>1, NothingCostsNothing DEF Pricing
    <2>3. HighestCap' \in Nat \ {0} /\ HighestCost' \in Nat
      BY CapAndCostNext DEF HighestAreHighest
    <2>4. Cardinality(Late') = 0
      <3>1. Late' = {}
        BY <2>1 DEF Late
      <3>2. QED
        BY <3>1, FS_EmptySet
    <2>5. 0 < HighestCap' + Cardinality(Late') * HighestCost'
      BY <2>3, <2>4
    <2>6. QED
      BY <2>1, <2>2, <2>5 DEF LateCallersPay
  <1>2. CASE UpdatePrices \/ UNCHANGED vars
    <2>1. tracker' = tracker /\ turn' = turn /\ truth' = truth
      BY <1>2 DEF UpdatePrices, vars
    <2>2. QED
      BY <2>1 DEF LateCallersPay, Usd, TokenCost, HighestCap, HighestCost, CostOf, Late
  <1>3. ASSUME NEW c \in Callers, Step(c) \/ \E u \in Usages : BeginRecord(c, u)
        PROVE  LateCallersPay'
    <2>1. /\ tracker'.model = tracker.model /\ tracker'.prices = tracker.prices
          /\ tracker'.input = tracker.input /\ tracker'.output = tracker.output
      BY <1>3 DEF Step, BeginRecord
    <2>2. /\ ~truth'.overlapped => ~truth.overlapped
          /\ ~truth'.unnamed => ~truth.unnamed
      BY <1>3 DEF Step, BeginRecord
    <2>3. /\ \A d \in Callers : d # c => turn'[d] = turn[d]
          /\ turn[c].phase \in {"idle", "calling"} /\ turn'[c].phase # "output"
      <3>1. CASE Step(c)
        BY <3>1 DEF Step
      <3>2. CASE \E u \in Usages : BeginRecord(c, u)
        <4>1. PICK u \in Usages : BeginRecord(c, u)
          BY <3>2
        <4>2. /\ turn[c].phase = "calling" /\ turn \in [Callers -> [phase : Phases,
                    usage : Usages \cup {None}, read : Nat]]
              /\ turn' = [turn EXCEPT ![c] = [phase |-> "input", usage |-> u,
                                              read |-> tracker.input]]
          BY <4>1 DEF BeginRecord
        <4>3. QED
          BY <4>2
      <3>3. QED
        BY <1>3, <3>1, <3>2
    <2>4. /\ Usd(tracker)' = Usd(tracker)
          /\ HighestCap' = HighestCap /\ HighestCost' = HighestCost
          /\ \A n : TokenCost(tracker', 0, n) = TokenCost(tracker, 0, n)
      BY <2>1 DEF Usd, TokenCost, HighestCap, HighestCost, CostOf
    <2> DEFINE bound == HighestCap + Cardinality(Late) * HighestCost
    <2>5. bound \in Nat /\ bound' \in Nat /\ bound' >= bound
      <3>1. Late \in SUBSET Late' /\ Late' \in SUBSET Callers
        BY <2>3 DEF Late
      <3>2. /\ Cardinality(Late) \in Nat /\ Cardinality(Late') \in Nat
            /\ Cardinality(Late') >= Cardinality(Late)
        BY <3>1, AFewOfEach, FS_Subset, FS_CardinalityType
      <3>3. HighestCap \in Nat /\ HighestCost \in Nat
        BY CapAndCost DEF HighestAreHighest
      <3>4. /\ Cardinality(Late) * HighestCost \in Nat
            /\ Cardinality(Late') * HighestCost \in Nat
            /\ Cardinality(Late') * HighestCost >= Cardinality(Late) * HighestCost
        BY <3>2, <3>3, OneCallMore
      <3>5. bound' = HighestCap + Cardinality(Late') * HighestCost
        BY <2>4
      <3>6. QED
        BY <3>3, <3>4, <3>5
    <2>6. /\ Usd(tracker) \in Nat
          /\ \A d \in Callers : turn[d].phase = "output" =>
                 TokenCost(tracker, 0, turn[d].usage.output) \in Nat
      <3>1. \A i, o \in Nat : TokenCost(tracker, i, o) \in Nat
        BY CostsAreNumbers DEF Pricing
      <3>2. tracker.input \in Nat /\ tracker.output \in Nat
        OBVIOUS
      <3>3. \A d \in Callers : turn[d].phase = "output" => turn[d].usage.output \in Nat
        BY UsagesAreUsages DEF Recording
      <3>4. QED
        BY <3>1, <3>2, <3>3, CostsOfTokens
    <2>7. ASSUME ~truth'.overlapped, ~truth'.unnamed
          PROVE  /\ Usd(tracker) < bound
                 /\ \A d \in Callers : turn[d].phase = "output" =>
                        Usd(tracker) + TokenCost(tracker, 0, turn[d].usage.output) < bound
      BY <2>2, <2>7 DEF LateCallersPay
    <2> HIDE DEF bound
    <2>8. ASSUME ~truth'.overlapped, ~truth'.unnamed
          PROVE  /\ Usd(tracker) < bound'
                 /\ \A d \in Callers : turn[d].phase = "output" =>
                        Usd(tracker) + TokenCost(tracker, 0, turn[d].usage.output) < bound'
      BY <2>5, <2>6, <2>7, <2>8
    <2>9. ASSUME ~truth'.overlapped, ~truth'.unnamed
          PROVE  /\ Usd(tracker)' < bound'
                 /\ \A d \in Callers : turn'[d].phase = "output" =>
                        Usd(tracker)' + TokenCost(tracker', 0, turn'[d].usage.output) < bound'
      <3>1. \A d \in Callers : turn'[d].phase = "output" =>
                turn'[d] = turn[d] /\ turn[d].phase = "output"
        BY <2>3
      <3>2. QED
        BY <2>4, <2>8, <2>9, <3>1
    <2>10. QED
      BY <2>9 DEF LateCallersPay, bound
  <1>4. QED
    BY <1>1, <1>2, <1>3

\* The spend stays within the highest cap and one call for each caller, for any
\* callers, caps, prices and calls, while no calls overlap and the first is named.
THEOREM SpendStaysCapped == Spec => []SpendIsCapped
  <1>1. Init => SpendInv
    <2>1. SUFFICES ASSUME Init PROVE FirstIsNamed /\ LateCallersPay
      BY InitCapsInv, PricingStays DEF SpendInv
    <2>2. /\ tracker.input = 0 /\ tracker.output = 0
          /\ \A c \in Callers : turn[c].phase = "idle"
      BY <2>1 DEF Init, NewTrackers, NewTracker, Waiting
    <2>3. Pricing
      BY <2>1, PricingStays
    <2>4. Usd(tracker) = 0
      BY <2>2, <2>3, NothingCostsNothing DEF Pricing
    <2>5. Cardinality(Late) = 0
      <3>1. Late = {}
        BY <2>2 DEF Late
      <3>2. QED
        BY <3>1, FS_EmptySet
    <2>6. HighestCap \in Nat \ {0} /\ HighestCost \in Nat
      BY <2>3, CapAndCost DEF HighestAreHighest
    <2>7. 0 < HighestCap + Cardinality(Late) * HighestCost
      BY <2>5, <2>6
    <2>8. QED
      BY <2>2, <2>4, <2>7 DEF FirstIsNamed, LateCallersPay, Recording
  <1>2. SpendInv /\ [Next]_vars => SpendInv'
    <2>1. SUFFICES ASSUME SpendInv, [Next]_vars PROVE SpendInv'
      OBVIOUS
    <2>2. CapsInv' /\ Pricing'
      BY <2>1, PricesKeep, TurnKeeps, MakeTrackerKeeps, BeginRecordKeeps, StoreInputKeeps,
         StoreOutputKeeps, PricingStays
      DEF Next, SpendInv
    <2>3. FirstIsNamed'
      BY <2>1, <2>2, FirstIsNamedStays DEF SpendInv
    <2>4. LateCallersPay'
      BY <2>1, <2>2, StoreInputPays, StoreOutputPays, CheckPays, OthersPay
      DEF Next, SpendInv
    <2>5. QED
      BY <2>2, <2>3, <2>4 DEF SpendInv
  <1>3. SpendInv => SpendIsCapped
    <2>1. SUFFICES ASSUME SpendInv, ~truth.overlapped, ~truth.unnamed
                   PROVE  Usd(tracker) < HighestCap + Cardinality(Callers) * HighestCost
      BY DEF SpendIsCapped, HighestCap, HighestCost
    <2>2. HighestCap \in Nat /\ HighestCost \in Nat
      BY <2>1, CapAndCost DEF SpendInv, HighestAreHighest
    <2>3. /\ Cardinality(Late) * HighestCost \in Nat
          /\ Cardinality(Callers) * HighestCost \in Nat
          /\ Cardinality(Late) * HighestCost <= Cardinality(Callers) * HighestCost
      BY <2>2, LateIsFinite, OneCallMore
    <2>4. Usd(tracker) \in Nat
      <3>1. \A i, o \in Nat : TokenCost(tracker, i, o) \in Nat
        BY <2>1, CostsAreNumbers DEF SpendInv, Pricing
      <3>2. tracker.input \in Nat /\ tracker.output \in Nat
        BY <2>1 DEF SpendInv, CapsInv, TypeOK
      <3>3. QED
        BY <3>1, <3>2, CostsOfTokens
    <2>5. Usd(tracker) < HighestCap + Cardinality(Late) * HighestCost
      BY <2>1 DEF SpendInv, LateCallersPay
    <2>6. QED
      BY <2>2, <2>3, <2>4, <2>5
  <1>4. QED
    BY <1>1, <1>2, <1>3, PTL DEF Spec

----------------------------------------------------------------------------
(* The node wrappers: with_cache's entries.                                 *)

Entry == [key : Keys, expiry : Nat, began : Nat]

\* What with_cache makes of its OrderedDict: one entry for a key, and none that
\* outlives the question it answers by more than ttl.
IsCache(q) ==
    /\ q \in Seq(Entry)
    /\ \A i, j \in 1 .. Len(q) : q[i].key = q[j].key => i = j
    /\ \A i \in 1 .. Len(q) : q[i].expiry <= q[i].began + Ttl

Holds(q, k, expiry) == \E i \in 1 .. Len(q) : q[i].key = k /\ q[i].expiry = expiry

\* Deleting one element.
LEMMA RemoveAtDeletes ==
    ASSUME NEW S, NEW s \in Seq(S), NEW i \in 1 .. Len(s)
    PROVE  /\ RemoveAt(s, i) \in Seq(S)
           /\ Len(RemoveAt(s, i)) = Len(s) - 1
           /\ \A j \in 1 .. Len(s) - 1 :
                  RemoveAt(s, i)[j] = IF j < i THEN s[j] ELSE s[j + 1]
  <1> DEFINE front == SubSeq(s, 1, i - 1)
             back == SubSeq(s, i + 1, Len(s))
  <1>1. Len(s) \in Nat /\ i \in Nat /\ \A j \in 1 .. Len(s) : s[j] \in S
    BY LenProperties, ElementOfSeq
  <1>2. /\ front \in Seq(S) /\ Len(front) = i - 1
        /\ \A j \in 1 .. i - 1 : front[j] = s[j]
    <2>1. \A j \in 1 .. i - 1 : s[j] \in S
      BY <1>1
    <2>2. /\ SubSeq(s, 1, i - 1) \in Seq(S)
          /\ Len(SubSeq(s, 1, i - 1)) = IF 1 <= i - 1 THEN i - 1 - 1 + 1 ELSE 0
          /\ \A j \in 1 .. i - 1 - 1 + 1 : SubSeq(s, 1, i - 1)[j] = s[1 + j - 1]
      BY <2>1, <1>1, SubSeqProperties
    <2>3. QED
      BY <2>2, <1>1
  <1>3. /\ back \in Seq(S) /\ Len(back) = Len(s) - i
        /\ \A j \in 1 .. Len(s) - i : back[j] = s[i + j]
    <2>1. \A j \in i + 1 .. Len(s) : s[j] \in S
      BY <1>1
    <2>2. /\ SubSeq(s, i + 1, Len(s)) \in Seq(S)
          /\ Len(SubSeq(s, i + 1, Len(s)))
                 = IF i + 1 <= Len(s) THEN Len(s) - (i + 1) + 1 ELSE 0
          /\ \A j \in 1 .. Len(s) - (i + 1) + 1 :
                 SubSeq(s, i + 1, Len(s))[j] = s[i + 1 + j - 1]
      BY <2>1, <1>1, SubSeqProperties
    <2>3. QED
      BY <2>2, <1>1
  <1>4. /\ front \o back \in Seq(S)
        /\ Len(front \o back) = Len(front) + Len(back)
        /\ \A j \in 1 .. Len(front) + Len(back) :
               (front \o back)[j] = IF j <= Len(front) THEN front[j]
                                    ELSE back[j - Len(front)]
    BY ONLY <1>2, <1>3, ConcatProperties
  <1>5. RemoveAt(s, i) = front \o back
    BY DEF RemoveAt
  <1> HIDE DEF front, back
  <1>6. Len(front) + Len(back) = Len(s) - 1
    BY <1>1, <1>2, <1>3
  <1>7. ASSUME NEW j \in 1 .. Len(s) - 1
        PROVE  (front \o back)[j] = IF j < i THEN s[j] ELSE s[j + 1]
    <2>1. CASE j < i
      BY <1>1, <1>2, <1>4, <1>6, <2>1
    <2>2. CASE ~(j < i)
      <3>1. (front \o back)[j] = back[j - (i - 1)]
        BY <1>1, <1>2, <1>4, <1>6, <2>2
      <3>2. j - (i - 1) \in 1 .. Len(s) - i /\ i + (j - (i - 1)) = j + 1
        BY <1>1, <2>2
      <3>3. QED
        BY <1>3, <2>2, <3>1, <3>2
    <2>3. QED
      BY <2>1, <2>2
  <1>8. QED
    BY <1>4, <1>5, <1>6, <1>7

LEMMA AtPlace == ASSUME NEW k, Holding(k) # {} PROVE Place(k) \in Holding(k)
  BY DEF Place

\* A lookup or a store takes the entry of its key out first.
LEMMA WithoutDeletes ==
    ASSUME IsCache(cache), NEW k
    PROVE  /\ IsCache(Without(k))
           /\ Len(Without(k)) = IF Holding(k) = {} THEN Len(cache) ELSE Len(cache) - 1
           /\ \A j \in 1 .. Len(Without(k)) : Without(k)[j].key # k
           /\ \A h, expiry : h # k /\ Holds(cache, h, expiry) => Holds(Without(k), h, expiry)
  <1> DEFINE p == Place(k)
             w == Without(k)
  <1>1. cache \in Seq(Entry) /\ Len(cache) \in Nat
    BY LenProperties DEF IsCache
  <1>2. CASE Holding(k) = {}
    BY <1>1, <1>2 DEF Without, Holding, IsCache
  <1>3. CASE Holding(k) # {}
    <2>1. p \in 1 .. Len(cache) /\ cache[p].key = k
      BY <1>3, AtPlace DEF Holding
    <2>2. /\ w \in Seq(Entry) /\ Len(w) = Len(cache) - 1
          /\ \A j \in 1 .. Len(cache) - 1 : w[j] = IF j < p THEN cache[j] ELSE cache[j + 1]
      BY <1>1, <1>3, <2>1, RemoveAtDeletes DEF Without
    <2> HIDE DEF p, w
    <2>3. \A i, j \in 1 .. Len(cache) : cache[i].key = cache[j].key => i = j
      BY DEF IsCache
    <2>4. \A j \in 1 .. Len(w) : w[j].key # k
      BY <1>1, <2>1, <2>2, <2>3
    <2>5. \A i, j \in 1 .. Len(w) : w[i].key = w[j].key => i = j
      BY <1>1, <2>1, <2>2, <2>3
    <2>6. \A i \in 1 .. Len(w) : w[i].expiry <= w[i].began + Ttl
      BY <1>1, <2>1, <2>2 DEF IsCache
    <2>7. ASSUME NEW h, NEW expiry, h # k, Holds(cache, h, expiry)
          PROVE  Holds(w, h, expiry)
      <3>1. PICK i \in 1 .. Len(cache) : cache[i].key = h /\ cache[i].expiry = expiry
        BY <2>7 DEF Holds
      <3>2. CASE i < p
        <4>1. i \in 1 .. Len(w) /\ w[i] = cache[i]
          BY <3>2, <2>1, <2>2, <1>1
        <4>2. QED
          BY <4>1, <3>1 DEF Holds
      <3>3. CASE i > p
        <4>1. i - 1 \in 1 .. Len(w) /\ w[i - 1] = cache[i]
          BY <3>3, <2>1, <2>2, <1>1
        <4>2. QED
          BY <4>1, <3>1 DEF Holds
      <3>4. QED
        BY <3>1, <3>2, <3>3, <2>1, <2>7, <1>1
    <2>8. QED
      BY <1>3, <2>2, <2>4, <2>5, <2>6, <2>7 DEF w, IsCache
  <1>4. QED
    BY <1>2, <1>3

\* The entry of a key the cache does not hold becomes the most recent one.
LEMMA AppendStores ==
    ASSUME NEW q, IsCache(q), NEW x \in Entry, x.expiry <= x.began + Ttl,
           \A j \in 1 .. Len(q) : q[j].key # x.key
    PROVE  /\ IsCache(Append(q, x))
           /\ Len(Append(q, x)) = Len(q) + 1
           /\ Holds(Append(q, x), x.key, x.expiry)
           /\ \A h, expiry : Holds(q, h, expiry) => Holds(Append(q, x), h, expiry)
  <1>1. q \in Seq(Entry) /\ Len(q) \in Nat
    BY LenProperties DEF IsCache
  <1>2. /\ Append(q, x) \in Seq(Entry)
        /\ Len(Append(q, x)) = Len(q) + 1
        /\ \A i \in 1 .. Len(q) : Append(q, x)[i] = q[i]
        /\ Append(q, x)[Len(q) + 1] = x
    BY <1>1, AppendProperties
  <1>3. \A i, j \in 1 .. Len(Append(q, x)) :
            Append(q, x)[i].key = Append(q, x)[j].key => i = j
    BY <1>1, <1>2 DEF IsCache
  <1>4. \A i \in 1 .. Len(Append(q, x)) :
            Append(q, x)[i].expiry <= Append(q, x)[i].began + Ttl
    BY <1>1, <1>2 DEF IsCache
  <1>5. QED
    BY <1>1, <1>2, <1>3, <1>4 DEF IsCache, Holds

\* popitem(last=False) takes the least recently used one.
LEMMA TailEvicts ==
    ASSUME NEW q, IsCache(q), q # <<>>
    PROVE  /\ IsCache(Tail(q))
           /\ Len(q) \in Nat
           /\ Len(Tail(q)) = Len(q) - 1
           /\ \A h, expiry : h # Head(q).key /\ Holds(q, h, expiry)
                                 => Holds(Tail(q), h, expiry)
  <1>1. q \in Seq(Entry) /\ Len(q) \in Nat
    BY LenProperties DEF IsCache
  <1>2. /\ Tail(q) \in Seq(Entry)
        /\ Len(Tail(q)) = Len(q) - 1
        /\ \A i \in 1 .. Len(Tail(q)) : Tail(q)[i] = q[i + 1]
    BY <1>1, HeadTailProperties
  <1>3. Len(q) > 0 /\ Head(q) = q[1]
    BY <1>1, EmptySeq
  <1>4. \A i, j \in 1 .. Len(Tail(q)) : Tail(q)[i].key = Tail(q)[j].key => i = j
    BY <1>1, <1>2, <1>3 DEF IsCache
  <1>5. \A i \in 1 .. Len(Tail(q)) : Tail(q)[i].expiry <= Tail(q)[i].began + Ttl
    BY <1>1, <1>2, <1>3 DEF IsCache
  <1>6. ASSUME NEW h, NEW expiry, h # Head(q).key, Holds(q, h, expiry)
        PROVE  Holds(Tail(q), h, expiry)
    <2>1. PICK i \in 1 .. Len(q) : q[i].key = h /\ q[i].expiry = expiry
      BY <1>6 DEF Holds
    <2>2. i - 1 \in 1 .. Len(Tail(q)) /\ Tail(q)[i - 1] = q[i]
      BY <1>1, <1>2, <1>3, <1>6, <2>1
    <2>3. QED
      BY <2>1, <2>2 DEF Holds
  <1>7. QED
    BY <1>1, <1>2, <1>4, <1>5, <1>6 DEF IsCache

----------------------------------------------------------------------------
(* The guard's history.                                                     *)

Occurrences(q, k) == {i \in 1 .. Len(q) : q[i] = k}

LEMMA OccurrencesAreFinite ==
    ASSUME NEW q \in Seq(Keys), NEW k
    PROVE  IsFiniteSet(Occurrences(q, k)) /\ Cardinality(Occurrences(q, k)) \in Nat
  <1>1. Len(q) \in Nat
    BY LenProperties
  <1>2. IsFiniteSet(1 .. Len(q))
    BY <1>1, FS_Interval
  <1>3. QED
    BY <1>2, FS_Subset, FS_CardinalityType DEF Occurrences

LEMMA AppendAddsOne ==
    ASSUME NEW q \in Seq(Keys), NEW x \in Keys, NEW k
    PROVE  /\ Append(q, x) \in Seq(Keys)
           /\ Cardinality(Occurrences(Append(q, x), k))
                <= Cardinality(Occurrences(q, k)) + (IF x = k THEN 1 ELSE 0)
  <1> DEFINE n == Len(q) + 1
             before == Occurrences(q, k)
             after == Occurrences(Append(q, x), k)
  <1>1. /\ Append(q, x) \in Seq(Keys)
        /\ Len(Append(q, x)) = n
        /\ \A i \in 1 .. Len(q) : Append(q, x)[i] = q[i]
        /\ Append(q, x)[n] = x
        /\ Len(q) \in Nat
    BY AppendProperties, LenProperties
  <1>2. IsFiniteSet(before) /\ Cardinality(before) \in Nat
    BY OccurrencesAreFinite
  <1>3. CASE x = k
    <2>1. after \subseteq before \cup {n}
      BY <1>1 DEF Occurrences
    <2>2. /\ IsFiniteSet(before \cup {n})
          /\ Cardinality(before \cup {n}) = IF n \in before THEN Cardinality(before)
                                            ELSE Cardinality(before) + 1
      BY <1>2, FS_AddElement
    <2>3. Cardinality(after) <= Cardinality(before \cup {n})
      BY <2>1, <2>2, FS_Subset
    <2>4. Cardinality(after) \in Nat
      BY <1>1, OccurrencesAreFinite
    <2> HIDE DEF before, after, n
    <2>5. Cardinality(after) <= Cardinality(before) + 1
      BY <2>2, <2>3, <2>4, <1>2
    <2>6. QED
      BY <1>1, <1>3, <2>5 DEF before, after
  <1>4. CASE x # k
    <2>1. after \subseteq before
      BY <1>1, <1>4 DEF Occurrences
    <2>2. Cardinality(after) <= Cardinality(before)
      BY <1>2, <2>1, FS_Subset
    <2> HIDE DEF before, after, n
    <2>3. QED
      BY <1>1, <1>2, <1>4, <2>2 DEF before, after
  <1>5. QED
    BY <1>3, <1>4

LEMMA TailAddsNone ==
    ASSUME NEW q \in Seq(Keys), Len(q) > 0, NEW k
    PROVE  /\ Tail(q) \in Seq(Keys)
           /\ Cardinality(Occurrences(Tail(q), k)) <= Cardinality(Occurrences(q, k))
  <1> DEFINE before == Occurrences(q, k)
             after == Occurrences(Tail(q), k)
             f == [i \in after |-> i + 1]
  <1>1. Len(q) \in Nat /\ q # <<>>
    BY LenProperties, EmptySeq
  <1>2. /\ Tail(q) \in Seq(Keys)
        /\ Len(Tail(q)) = Len(q) - 1
        /\ \A i \in 1 .. Len(Tail(q)) : Tail(q)[i] = q[i + 1]
    BY <1>1, HeadTailProperties
  <1>3. \A i \in after : i \in Nat /\ i + 1 \in before
    BY <1>1, <1>2 DEF Occurrences
  <1> HIDE DEF before, after
  <1>4. f \in Injection(after, before)
    BY <1>3 DEF Injection, IsInjective
  <1>5. IsFiniteSet(before)
    BY OccurrencesAreFinite DEF before
  <1> HIDE DEF f
  <1>6. Cardinality(after) <= Cardinality(before)
    BY <1>4, <1>5, FS_Injection
  <1>7. QED
    BY <1>2, <1>6 DEF before, after

----------------------------------------------------------------------------
(* The invariant.                                                           *)

CallPhases == {"idle", "backoff"} \cup InWorker

\* The phases after a miss and before the value is stored, and those in which
\* the store's eviction loop runs.
Missing == {"missed", "counting", "counted", "running", "storing"}
Evicting == {"stored", "full"}

CallRecord ==
    [phase : CallPhases, key : Keys \cup {NoKey}, attempt : Nat, since : Nat,
     now : Nat, late : BOOLEAN, disturbed : BOOLEAN, own : Nat, began : Nat,
     served : Int, calls : Nat]

StackTypeOK ==
    /\ clock \in Nat
    /\ history \in Seq(Keys)
    /\ call \in [Threads -> CallRecord]

\* A call of record r at time t with cache q: what it stored is there until it
\* expires or another call takes it out.
CallOK(r, t, q) ==
    /\ r.phase # "idle" => r.key \in Keys
    /\ r.now <= t
    /\ r.phase \in {"running", "storing"} => r.now <= r.began
    /\ r.phase \in Missing => r.own <= r.now
    /\ r.own <= r.now \/ Holds(q, r.key, r.own)
    /\ r.served < Ttl

Evictors == {c \in Threads : call[c].phase \in Evicting}
Counters(k) == {c \in Threads : call[c].phase = "counted" /\ call[c].key = k}

SizeOK == Len(cache) <= MaxSize + Cardinality(Evictors)

\* A call that has been counted will be recorded.
CountsOK ==
    \A k \in Keys :
        Cardinality(Occurrences(history, k)) + Cardinality(Counters(k))
            <= MaxRepeats + Cardinality(Threads) - 1

StackInv ==
    /\ StackTypeOK
    /\ IsCache(cache)
    /\ \A c \in Threads : CallOK(call[c], clock, cache)
    /\ SizeOK
    /\ CountsOK

LEMMA Bounds ==
    /\ Attempts \in Nat /\ Seconds \in Nat /\ Ttl \in Nat /\ Ttl > 0
    /\ MaxSize \in Nat /\ Window \in Nat /\ Window > 0
    /\ MaxRepeats \in Nat /\ MaxRepeats > 0
  BY ConfigIsValid

LEMMA ThreadSets ==
    ASSUME NEW A \in SUBSET Threads, NEW B \in SUBSET Threads
    PROVE  /\ IsFiniteSet(A) /\ Cardinality(A) \in Nat
           /\ Cardinality(Threads) \in Nat
           /\ Cardinality(A) <= Cardinality(Threads)
           /\ A \subseteq B => Cardinality(A) <= Cardinality(B)
           /\ \A c \in B : A \subseteq B \ {c} => Cardinality(A) + 1 <= Cardinality(B)
  <1>1. /\ IsFiniteSet(A) /\ IsFiniteSet(B)
        /\ Cardinality(A) <= Cardinality(Threads)
    BY ThreadsAreFinite, FS_Subset
  <1>2. /\ Cardinality(A) \in Nat /\ Cardinality(B) \in Nat
        /\ Cardinality(Threads) \in Nat
    BY <1>1, ThreadsAreFinite, FS_CardinalityType
  <1>3. A \subseteq B => Cardinality(A) <= Cardinality(B)
    BY <1>1, FS_Subset
  <1>4. ASSUME NEW c \in B, A \subseteq B \ {c}
        PROVE  Cardinality(A) + 1 <= Cardinality(B)
    <2>1. IsFiniteSet(B \ {c}) /\ Cardinality(B \ {c}) = Cardinality(B) - 1
      BY <1>1, FS_RemoveElement
    <2>2. Cardinality(A) <= Cardinality(B \ {c})
      BY <1>4, <2>1, FS_Subset
    <2>3. QED
      BY <1>2, <2>1, <2>2
  <1>5. QED
    BY <1>1, <1>2, <1>3, <1>4

LEMMA SizeKeeps ==
    ASSUME IsCache(cache), IsCache(cache'), SizeOK,
           Len(cache') <= Len(cache), Evictors \subseteq Evictors'
    PROVE  SizeOK'
  <1>1. Len(cache) \in Nat /\ Len(cache') \in Nat
    BY LenProperties DEF IsCache
  <1>2. Evictors \in SUBSET Threads /\ Evictors' \in SUBSET Threads
    BY DEF Evictors
  <1>3. /\ Cardinality(Evictors) \in Nat /\ Cardinality(Evictors') \in Nat
        /\ Cardinality(Evictors) <= Cardinality(Evictors')
    BY <1>2, ThreadSets
  <1>4. QED
    BY <1>1, <1>3, Bounds DEF SizeOK

LEMMA CountsKeep ==
    ASSUME CountsOK, history \in Seq(Keys), history' = history,
           \A k \in Keys : Counters(k)' \subseteq Counters(k)
    PROVE  CountsOK'
  <1> SUFFICES ASSUME NEW k \in Keys
               PROVE  Cardinality(Occurrences(history', k)) + Cardinality(Counters(k)')
                          <= MaxRepeats + Cardinality(Threads) - 1
    BY DEF CountsOK
  <1>1. Counters(k) \in SUBSET Threads /\ Counters(k)' \in SUBSET Threads
    BY DEF Counters
  <1>2. /\ Cardinality(Counters(k)) \in Nat /\ Cardinality(Counters(k)') \in Nat
        /\ Cardinality(Counters(k)') <= Cardinality(Counters(k))
        /\ Cardinality(Threads) \in Nat
    BY <1>1, ThreadSets
  <1>3. Cardinality(Occurrences(history, k)) \in Nat
    BY OccurrencesAreFinite
  <1>4. Cardinality(Occurrences(history, k)) + Cardinality(Counters(k))
            <= MaxRepeats + Cardinality(Threads) - 1
    BY DEF CountsOK
  <1>5. QED
    BY <1>2, <1>3, <1>4, Bounds

\* The cache is empty and no thread has called.
LEMMA InitStackInv == StackInit => StackInv
  <1> SUFFICES ASSUME StackInit PROVE StackInv
    OBVIOUS
  <1>1. /\ Idle \in CallRecord
        /\ Idle.phase = "idle" /\ Idle.now = 0 /\ Idle.own = 0 /\ Idle.served = 0
    BY DEF Idle, CallRecord, CallPhases
  <1>2. StackTypeOK
    BY <1>1, EmptySeq DEF StackInit, StackTypeOK
  <1>3. <<>> \in Seq(Entry) /\ Len(<<>>) = 0 /\ <<>> \in Seq(Keys)
    BY EmptySeq
  <1>4. IsCache(cache)
    BY <1>3 DEF IsCache, StackInit
  <1>5. \A c \in Threads : CallOK(call[c], clock, cache)
    BY <1>1, Bounds DEF StackInit, CallOK, Missing
  <1>6. SizeOK
    <2>1. Evictors \in SUBSET Threads
      BY DEF Evictors
    <2>2. Cardinality(Evictors) \in Nat
      BY <2>1, ThreadSets
    <2>3. QED
      BY <1>3, <2>2, Bounds DEF SizeOK, StackInit
  <1>7. CountsOK
    <2> SUFFICES ASSUME NEW k \in Keys
                 PROVE  Cardinality(Occurrences(history, k)) + Cardinality(Counters(k))
                          <= MaxRepeats + Cardinality(Threads) - 1
      BY DEF CountsOK
    <2>1. Occurrences(history, k) = {} /\ Counters(k) = {}
      BY <1>1, <1>3 DEF Occurrences, Counters, StackInit
    <2>2. Cardinality({}) = 0
      BY FS_EmptySet
    <2>3. Cardinality(Threads) \in Nat
      BY ThreadsAreFinite, FS_CardinalityType
    <2>4. QED
      BY <2>1, <2>2, <2>3, Bounds
  <1>8. QED
    BY <1>2, <1>4, <1>5, <1>6, <1>7 DEF StackInv

\* A step of one call that leaves cache, history and clock alone: it starts no
\* count that is one too many, and leaves the eviction loop once the cache fits.
LEMMA QuietStepKeeps ==
    ASSUME StackInv, NEW c \in Threads, NEW r \in CallRecord,
           call' = [call EXCEPT ![c] = r], UNCHANGED <<clock, cache, history>>,
           CallOK(r, clock, cache),
           call[c].phase \in Evicting /\ r.phase \notin Evicting => Len(cache) <= MaxSize,
           \/ r.phase # "counted"
           \/ call[c].phase = "counted" /\ call[c].key = r.key
           \/ Cardinality(Occurrences(history, r.key)) < MaxRepeats
    PROVE  StackInv'
  <1>1. /\ call' \in [Threads -> CallRecord] /\ call'[c] = r
        /\ \A d \in Threads : d # c => call'[d] = call[d]
    BY DEF StackInv, StackTypeOK
  <1>2. StackTypeOK'
    BY <1>1 DEF StackInv, StackTypeOK
  <1>3. IsCache(cache)'
    BY DEF StackInv, IsCache
  <1>4. \A d \in Threads : CallOK(call'[d], clock', cache')
    BY <1>1 DEF StackInv
  <1>5. SizeOK'
    <2>1. Evictors' \in SUBSET Threads /\ Len(cache) \in Nat
      BY LenProperties DEF Evictors, StackInv, IsCache
    <2>2. Cardinality(Evictors') \in Nat
      BY <2>1, ThreadSets
    <2>3. CASE Len(cache) <= MaxSize
      BY <2>1, <2>2, <2>3, Bounds DEF SizeOK
    <2>4. CASE ~(Len(cache) <= MaxSize)
      <3>1. Evictors \subseteq Evictors'
        BY <1>1, <2>4 DEF Evictors
      <3>2. Len(cache') <= Len(cache)
        BY <2>1
      <3>3. QED
        BY <1>3, <3>1, <3>2, SizeKeeps DEF StackInv
    <2>5. QED
      BY <2>3, <2>4
  <1>6. CountsOK'
    <2> SUFFICES ASSUME NEW k \in Keys
                 PROVE  Cardinality(Occurrences(history', k)) + Cardinality(Counters(k)')
                          <= MaxRepeats + Cardinality(Threads) - 1
      BY DEF CountsOK
    <2>1. Counters(k) \in SUBSET Threads /\ Counters(k)' \in SUBSET Threads
      BY DEF Counters
    <2>2. /\ Cardinality(Counters(k)) \in Nat /\ Cardinality(Counters(k)') \in Nat
          /\ Cardinality(Counters(k)') <= Cardinality(Threads)
          /\ Cardinality(Threads) \in Nat
          /\ Counters(k)' \subseteq Counters(k)
                => Cardinality(Counters(k)') <= Cardinality(Counters(k))
      BY <2>1, ThreadSets
    <2>3. Cardinality(Occurrences(history, k)) \in Nat
      BY OccurrencesAreFinite DEF StackInv, StackTypeOK
    <2>4. Cardinality(Occurrences(history, k)) + Cardinality(Counters(k))
            <= MaxRepeats + Cardinality(Threads) - 1
      BY DEF CountsOK, StackInv
    <2>5. \/ Counters(k)' \subseteq Counters(k)
          \/ Cardinality(Occurrences(history, k)) < MaxRepeats
      BY <1>1 DEF Counters
    <2>6. QED
      BY <2>2, <2>3, <2>4, <2>5, Bounds
  <1>7. QED
    BY <1>2, <1>3, <1>4, <1>5, <1>6 DEF StackInv

\* The end of a worker leaves its thread outside the stack, its record as it was.
LEMMA SettledIs ==
    ASSUME StackTypeOK, NEW c \in Threads, NEW outcome
    PROVE  /\ Settled(c, outcome) \in CallRecord
           /\ Settled(c, outcome).phase \in {"idle", "backoff"}
           /\ Settled(c, outcome).key = call[c].key
           /\ Settled(c, outcome).now = call[c].now
           /\ Settled(c, outcome).own = call[c].own
           /\ Settled(c, outcome).served = call[c].served
  <1>1. call[c] \in CallRecord
    BY DEF StackTypeOK
  <1>2. ASSUME NEW ph \in {"idle", "backoff"}
        PROVE  /\ [call[c] EXCEPT !.phase = ph, !.late = FALSE, !.disturbed = FALSE]
                     \in CallRecord
               /\ [call[c] EXCEPT !.phase = ph, !.late = FALSE, !.disturbed = FALSE].phase = ph
               /\ [call[c] EXCEPT !.phase = ph, !.late = FALSE, !.disturbed = FALSE].key
                     = call[c].key
               /\ [call[c] EXCEPT !.phase = ph, !.late = FALSE, !.disturbed = FALSE].now
                     = call[c].now
               /\ [call[c] EXCEPT !.phase = ph, !.late = FALSE, !.disturbed = FALSE].own
                     = call[c].own
               /\ [call[c] EXCEPT !.phase = ph, !.late = FALSE, !.disturbed = FALSE].served
                     = call[c].served
    BY ONLY <1>1, <1>2 DEF CallRecord, CallPhases
  <1>3. QED
    BY <1>2 DEF Settled

LEMMA SettledIsOK ==
    ASSUME StackTypeOK, NEW c \in Threads, NEW outcome, NEW t, NEW q,
           CallOK(call[c], t, q), call[c].phase # "idle"
    PROVE  CallOK(Settled(c, outcome), t, q)
  BY SettledIs DEF CallOK, Missing

\* The worker of a call ends, once the cache fits if it was in the loop.
LEMMA WorkerEndsKeeps ==
    ASSUME StackInv, NEW c \in Threads, NEW outcome, WorkerEnds(c, outcome),
           call[c].phase # "idle", UNCHANGED <<clock, cache, history>>,
           call[c].phase \in Evicting => Len(cache) <= MaxSize
    PROVE  StackInv'
  <1> DEFINE r == Settled(c, outcome)
  <1>1. r \in CallRecord /\ r.phase \in {"idle", "backoff"}
    BY SettledIs DEF StackInv
  <1>2. CallOK(r, clock, cache)
    BY SettledIsOK DEF StackInv
  <1>3. call' = [call EXCEPT ![c] = r]
    BY DEF WorkerEnds
  <1> HIDE DEF r
  <1>4. r.phase # "counted"
    BY <1>1
  <1>5. QED
    BY <1>1, <1>2, <1>3, <1>4, QuietStepKeeps

\* The fields a change of phase leaves alone.
LEMMA PhaseChange ==
    ASSUME NEW s \in CallRecord, NEW ph \in CallPhases
    PROVE  /\ [s EXCEPT !.phase = ph] \in CallRecord
           /\ [s EXCEPT !.phase = ph].phase = ph
           /\ [s EXCEPT !.phase = ph].key = s.key
           /\ [s EXCEPT !.phase = ph].now = s.now
           /\ [s EXCEPT !.phase = ph].own = s.own
           /\ [s EXCEPT !.phase = ph].began = s.began
           /\ [s EXCEPT !.phase = ph].served = s.served
  BY DEF CallRecord

LEMMA CallKeeps ==
    ASSUME StackInv, NEW c \in Threads, NEW k \in Keys, Call(c, k) PROVE StackInv'
  <1> DEFINE r == [Idle EXCEPT !.phase = "submitted", !.key = k, !.attempt = 1,
                               !.since = clock, !.calls = call[c].calls + 1]
  <1>1. call[c] \in CallRecord /\ call[c].calls \in Nat /\ clock \in Nat
    BY DEF StackInv, StackTypeOK, CallRecord
  <1>2. Idle \in CallRecord /\ Idle.now = 0 /\ Idle.own = 0 /\ Idle.served = 0
    BY DEF Idle, CallRecord, CallPhases
  <1>3. call' = [call EXCEPT ![c] = r]
    BY DEF Call
  <1>4. call[c].calls + 1 \in Nat
    BY <1>1
  <1>5. /\ r \in CallRecord /\ r.phase = "submitted" /\ r.key = k
        /\ r.now = 0 /\ r.own = 0 /\ r.served = 0
    BY ONLY <1>1, <1>2, <1>4, k \in Keys DEF CallRecord, CallPhases, InWorker
  <1> HIDE DEF r
  <1>6. CallOK(r, clock, cache)
    BY <1>1, <1>5, Bounds DEF CallOK, Missing
  <1>7. call[c].phase \notin Evicting /\ UNCHANGED <<clock, cache, history>>
    BY DEF Call, At, Evicting
  <1>8. QED
    BY <1>3, <1>5, <1>6, <1>7, QuietStepKeeps

LEMMA TimesOutKeeps ==
    ASSUME StackInv, NEW c \in Threads, TimesOut(c) PROVE StackInv'
  <1> DEFINE r == [call[c] EXCEPT !.late = TRUE]
  <1>1. call[c] \in CallRecord /\ CallOK(call[c], clock, cache)
    BY DEF StackInv, StackTypeOK
  <1>2. /\ r \in CallRecord /\ r.phase = call[c].phase /\ r.key = call[c].key
        /\ r.now = call[c].now /\ r.own = call[c].own /\ r.began = call[c].began
        /\ r.served = call[c].served
    BY <1>1 DEF CallRecord
  <1>3. call' = [call EXCEPT ![c] = r] /\ UNCHANGED <<clock, cache, history>>
    BY <1>1 DEF TimesOut, StackInv, StackTypeOK
  <1> HIDE DEF r
  <1>4. CallOK(r, clock, cache)
    BY <1>1, <1>2 DEF CallOK
  <1>5. QED
    BY <1>2, <1>3, <1>4, QuietStepKeeps

LEMMA RetryKeeps ==
    ASSUME StackInv, NEW c \in Threads, Retry(c) PROVE StackInv'
  <1> DEFINE r == [call[c] EXCEPT !.phase = "submitted", !.attempt = call[c].attempt + 1,
                                  !.since = clock]
  <1>1. /\ call[c] \in CallRecord /\ CallOK(call[c], clock, cache)
        /\ clock \in Nat /\ call[c].attempt + 1 \in Nat
    BY DEF StackInv, StackTypeOK, CallRecord
  <1>2. /\ r \in CallRecord /\ r.phase = "submitted" /\ r.key = call[c].key
        /\ r.now = call[c].now /\ r.own = call[c].own /\ r.served = call[c].served
    BY ONLY <1>1 DEF CallRecord, CallPhases, InWorker
  <1>3. call' = [call EXCEPT ![c] = r] /\ UNCHANGED <<clock, cache, history>>
    BY <1>1 DEF Retry, StackInv, StackTypeOK
  <1> HIDE DEF r
  <1>4. call[c].phase = "backoff"
    BY DEF Retry, At
  <1>5. CallOK(r, clock, cache)
    BY <1>1, <1>2, <1>4 DEF CallOK, Missing
  <1>6. QED
    BY <1>2, <1>3, <1>4, <1>5, QuietStepKeeps DEF Evicting

\* The worker of a call goes on.
LEMMA GoKeeps ==
    ASSUME StackInv, NEW c \in Threads, NEW ph \in CallPhases, Go(c, ph),
           UNCHANGED <<clock, cache, history>>, call[c].phase # "idle",
           ph \in {"running", "storing"} => call[c].phase \in {"running", "storing"},
           ph \in Missing => call[c].phase \in Missing,
           call[c].phase \in Evicting => ph \in Evicting,
           ph = "counted" => Cardinality(Occurrences(history, call[c].key)) < MaxRepeats
    PROVE  StackInv'
  <1> DEFINE r == [call[c] EXCEPT !.phase = ph]
  <1>1. call[c] \in CallRecord /\ CallOK(call[c], clock, cache)
    BY DEF StackInv, StackTypeOK
  <1>2. /\ r \in CallRecord /\ r.phase = ph /\ r.key = call[c].key
        /\ r.now = call[c].now /\ r.own = call[c].own /\ r.began = call[c].began
        /\ r.served = call[c].served
    BY <1>1, PhaseChange
  <1>3. call' = [call EXCEPT ![c] = r]
    BY <1>1 DEF Go, StackInv, StackTypeOK
  <1> HIDE DEF r
  <1>4. CallOK(r, clock, cache)
    BY <1>1, <1>2 DEF CallOK
  <1>5. QED
    BY <1>2, <1>3, <1>4, QuietStepKeeps

LEMMA ReadClockKeeps ==
    ASSUME StackInv, NEW c \in Threads, ReadClock(c) PROVE StackInv'
  <1> DEFINE r == [call[c] EXCEPT !.phase = "asked", !.now = clock]
  <1>1. /\ call[c] \in CallRecord /\ CallOK(call[c], clock, cache)
        /\ clock \in Nat /\ call[c].own \in Nat /\ call[c].now \in Nat
        /\ call[c].phase = "submitted"
    BY DEF StackInv, StackTypeOK, CallRecord, ReadClock, At
  <1>2. /\ r \in CallRecord /\ r.phase = "asked" /\ r.key = call[c].key
        /\ r.now = clock /\ r.own = call[c].own /\ r.served = call[c].served
    BY ONLY <1>1 DEF CallRecord, CallPhases, InWorker
  <1>3. call' = [call EXCEPT ![c] = r] /\ UNCHANGED <<clock, cache, history>>
    BY <1>1 DEF ReadClock, StackInv, StackTypeOK
  <1> HIDE DEF r
  <1>4. CallOK(r, clock, cache)
    BY <1>1, <1>2 DEF CallOK, Missing
  <1>5. QED
    BY <1>1, <1>2, <1>3, <1>4, QuietStepKeeps DEF Evicting

LEMMA StartCountKeeps ==
    ASSUME StackInv, NEW c \in Threads, StartCount(c) PROVE StackInv'
  <1> DEFINE r == [call[c] EXCEPT !.phase = "counting", !.disturbed = FALSE]
  <1>1. /\ call[c] \in CallRecord /\ CallOK(call[c], clock, cache)
        /\ call[c].phase = "missed"
    BY DEF StackInv, StackTypeOK, StartCount, At
  <1>2. /\ r \in CallRecord /\ r.phase = "counting" /\ r.key = call[c].key
        /\ r.now = call[c].now /\ r.own = call[c].own /\ r.served = call[c].served
    BY ONLY <1>1 DEF CallRecord, CallPhases, InWorker
  <1>3. call' = [call EXCEPT ![c] = r] /\ UNCHANGED <<clock, cache, history>>
    BY <1>1 DEF StartCount, StackInv, StackTypeOK
  <1> HIDE DEF r
  <1>4. CallOK(r, clock, cache)
    BY <1>1, <1>2 DEF CallOK, Missing
  <1>5. QED
    BY <1>1, <1>2, <1>3, <1>4, QuietStepKeeps DEF Evicting

LEMMA CountKeeps ==
    ASSUME StackInv, NEW c \in Threads, Count(c) PROVE StackInv'
  <1>1. /\ call[c].phase = "counting" /\ UNCHANGED <<clock, cache, history>>
        /\ call[c].phase \in Missing /\ call[c].phase \notin Evicting
    BY DEF Count, At, Missing, Evicting
  <1>2. \A outcome : WorkerEnds(c, outcome) => StackInv'
    BY <1>1, WorkerEndsKeeps
  <1>3. CASE Go(c, "counted") /\ ~(Repeats(call[c].key) >= MaxRepeats)
    <2>1. Repeats(call[c].key) = Cardinality(Occurrences(history, call[c].key))
      BY DEF Repeats, Occurrences
    <2>2. Cardinality(Occurrences(history, call[c].key)) \in Nat
      BY OccurrencesAreFinite DEF StackInv, StackTypeOK
    <2>3. Cardinality(Occurrences(history, call[c].key)) < MaxRepeats
      BY <1>3, <2>1, <2>2, Bounds
    <2>4. "counted" \in CallPhases
      BY DEF CallPhases, InWorker
    <2>5. QED
      BY <1>1, <1>3, <2>3, <2>4, GoKeeps
  <1>4. QED
    BY <1>2, <1>3 DEF Count

LEMMA NodeEndsKeeps ==
    ASSUME StackInv, NEW c \in Threads, NodeEnds(c) PROVE StackInv'
  <1>1. /\ call[c].phase = "running" /\ UNCHANGED <<clock, cache, history>>
        /\ call[c].phase \in Missing /\ call[c].phase \notin Evicting
        /\ Go(c, "storing") \/ WorkerEnds(c, "error")
    BY DEF NodeEnds, At, Missing, Evicting
  <1>2. "storing" \in CallPhases
    BY DEF CallPhases, InWorker
  <1>3. QED
    BY <1>1, <1>2, GoKeeps, WorkerEndsKeeps

LEMMA CheckSizeKeeps ==
    ASSUME StackInv, NEW c \in Threads, CheckSize(c) PROVE StackInv'
  <1>1. call[c].phase = "stored" /\ UNCHANGED <<clock, cache, history>>
    BY DEF CheckSize, At
  <1>2. CASE Len(cache) > MaxSize /\ Go(c, "full")
    <2>1. /\ "full" \in CallPhases /\ "full" \in Evicting /\ "full" \notin Missing
      BY DEF CallPhases, InWorker, Evicting, Missing
    <2>2. QED
      BY <1>1, <1>2, <2>1, GoKeeps
  <1>3. CASE ~(Len(cache) > MaxSize) /\ WorkerEnds(c, "value")
    <2>1. Len(cache) <= MaxSize
      BY <1>3, LenProperties, Bounds DEF StackInv, IsCache
    <2>2. QED
      BY <1>1, <1>3, <2>1, WorkerEndsKeeps
  <1>4. QED
    BY <1>2, <1>3 DEF CheckSize

----------------------------------------------------------------------------
(* The steps that change clock, history or cache.                           *)

LEMMA TickKeeps == ASSUME StackInv, Tick PROVE StackInv'
  <1>1. /\ clock \in Nat /\ clock' = clock + 1
        /\ cache' = cache /\ history' = history /\ call' = call
    BY DEF Tick, StackInv, StackTypeOK
  <1>2. StackTypeOK' /\ IsCache(cache)' /\ SizeOK' /\ CountsOK'
    BY <1>1 DEF StackInv, StackTypeOK, IsCache, SizeOK, CountsOK, Evictors, Counters
  <1>3. ASSUME NEW c \in Threads PROVE CallOK(call'[c], clock', cache')
    <2>1. CallOK(call[c], clock, cache) /\ call[c].now \in Nat
      BY DEF StackInv, StackTypeOK, CallRecord
    <2>2. call[c].now <= clock => call[c].now <= clock + 1
      BY <1>1, <2>1
    <2>3. QED
      BY <1>1, <2>1, <2>2 DEF CallOK
  <1>4. QED
    BY <1>2, <1>3 DEF StackInv

\* A counted call is recorded: it is one repeat more and one to come less.
LEMMA RecordKeeps ==
    ASSUME StackInv, NEW c \in Threads, Record(c) PROVE StackInv'
  <1> DEFINE longer == Append(history, call[c].key)
             r == [call[c] EXCEPT !.phase = "running", !.began = clock]
  <1>1. /\ call[c] \in CallRecord /\ CallOK(call[c], clock, cache)
        /\ call[c].phase = "counted" /\ call[c].key \in Keys
        /\ clock \in Nat /\ history \in Seq(Keys)
        /\ clock' = clock /\ cache' = cache
        /\ history' = IF Len(longer) > Window THEN Tail(longer) ELSE longer
    BY DEF StackInv, StackTypeOK, Record, At, CallOK
  <1>2. /\ r \in CallRecord /\ r.phase = "running" /\ r.key = call[c].key
        /\ r.now = call[c].now /\ r.own = call[c].own /\ r.served = call[c].served
        /\ r.began = clock
    BY ONLY <1>1 DEF CallRecord, CallPhases, InWorker
  <1>3. call' = [d \in Threads |->
            IF d = c THEN r
            ELSE [call[d] EXCEPT !.disturbed = @ \/ At(d, "counting")]]
    BY DEF Record
  <1>4. ASSUME NEW d \in Threads, d # c
        PROVE  /\ call'[d] \in CallRecord
               /\ call'[d].phase = call[d].phase /\ call'[d].key = call[d].key
               /\ call'[d].now = call[d].now /\ call'[d].own = call[d].own
               /\ call'[d].began = call[d].began /\ call'[d].served = call[d].served
    <2>1. call[d] \in CallRecord
      BY DEF StackInv, StackTypeOK
    <2>2. call'[d] = [call[d] EXCEPT !.disturbed = call[d].disturbed \/ At(d, "counting")]
      BY <1>3, <1>4
    <2>3. (call[d].disturbed \/ At(d, "counting")) \in BOOLEAN
      OBVIOUS
    <2>4. ASSUME NEW b \in BOOLEAN
          PROVE  LET s == [call[d] EXCEPT !.disturbed = b]
                 IN  /\ s \in CallRecord
                     /\ s.phase = call[d].phase /\ s.key = call[d].key
                     /\ s.now = call[d].now /\ s.own = call[d].own
                     /\ s.began = call[d].began /\ s.served = call[d].served
      BY ONLY <2>1, <2>4 DEF CallRecord
    <2>5. QED
      BY <2>2, <2>3, <2>4
  <1>5. call'[c] = r
    BY <1>3
  <1> HIDE DEF r
  <1>6. /\ call' \in [Threads -> CallRecord]
    <2>1. \A d \in Threads : call'[d] \in CallRecord
      BY <1>2, <1>4, <1>5
    <2>2. QED
      BY <1>3, <2>1
  <1>7. \A d \in Threads : CallOK(call'[d], clock', cache')
    <2>1. CallOK(r, clock, cache)
      BY <1>1, <1>2 DEF CallOK, Missing
    <2>2. \A d \in Threads : CallOK(call[d], clock, cache)
      BY DEF StackInv
    <2>3. ASSUME NEW d \in Threads, d # c PROVE CallOK(call'[d], clock, cache)
      BY <1>4, <2>2, <2>3 DEF CallOK
    <2>4. QED
      BY <1>1, <1>5, <2>1, <2>3
  <1>8. IsCache(cache)'
    BY <1>1 DEF StackInv, IsCache
  <1>9. SizeOK'
    <2>1. Evictors \subseteq Evictors'
      BY <1>1, <1>4 DEF Evictors, Evicting
    <2>2. Len(cache') <= Len(cache)
      BY <1>1, LenProperties DEF StackInv, IsCache
    <2>3. QED
      BY <1>8, <2>1, <2>2, SizeKeeps DEF StackInv
  <1>10. longer \in Seq(Keys) /\ Len(longer) \in Nat
    BY <1>1, AppendProperties, LenProperties
  <1>11. /\ history' \in Seq(Keys)
         /\ \A k \in Keys : Cardinality(Occurrences(history', k))
                                <= Cardinality(Occurrences(longer, k))
    <2>1. CASE Len(longer) > Window
      <3>1. history' = Tail(longer) /\ Len(longer) > 0
        BY <1>1, <1>10, <2>1, Bounds
      <3>2. QED
        BY <1>10, <3>1, TailAddsNone
    <2>2. CASE ~(Len(longer) > Window)
      <3>1. history' = longer
        BY <1>1, <2>2
      <3>2. \A k \in Keys : Cardinality(Occurrences(longer, k)) \in Nat
        BY <1>10, OccurrencesAreFinite
      <3>3. QED
        BY <1>10, <3>1, <3>2
    <2>3. QED
      BY <2>1, <2>2
  <1>12. CountsOK'
    <2> SUFFICES ASSUME NEW k \in Keys
                 PROVE  Cardinality(Occurrences(history', k)) + Cardinality(Counters(k)')
                          <= MaxRepeats + Cardinality(Threads) - 1
      BY DEF CountsOK
    <2>1. Counters(k) \in SUBSET Threads /\ Counters(k)' \in SUBSET Threads
      BY DEF Counters
    <2>2. /\ Cardinality(Counters(k)) \in Nat /\ Cardinality(Counters(k)') \in Nat
          /\ Cardinality(Threads) \in Nat
          /\ Counters(k)' \subseteq Counters(k)
                => Cardinality(Counters(k)') <= Cardinality(Counters(k))
          /\ \A d \in Counters(k) : Counters(k)' \subseteq Counters(k) \ {d}
                => Cardinality(Counters(k)') + 1 <= Cardinality(Counters(k))
      BY <2>1, ThreadSets
    <2>3. Counters(k)' \subseteq Counters(k) \ {c}
      BY <1>2, <1>4, <1>5 DEF Counters
    <2>4. call[c].key = k => c \in Counters(k)
      BY <1>1 DEF Counters
    <2>5. /\ Cardinality(Occurrences(history, k)) \in Nat
          /\ Cardinality(Occurrences(longer, k)) \in Nat
          /\ Cardinality(Occurrences(history', k)) \in Nat
      BY <1>1, <1>10, <1>11, OccurrencesAreFinite
    <2>6. Cardinality(Occurrences(longer, k)) <= Cardinality(Occurrences(history, k))
                                             + (IF call[c].key = k THEN 1 ELSE 0)
      BY <1>1, AppendAddsOne
    <2>7. Cardinality(Occurrences(history', k)) <= Cardinality(Occurrences(longer, k))
      BY <1>11
    <2>8. Cardinality(Occurrences(history, k)) + Cardinality(Counters(k))
            <= MaxRepeats + Cardinality(Threads) - 1
      BY DEF CountsOK, StackInv
    <2> HIDE DEF longer
    <2>9. CASE call[c].key = k
      BY <2>2, <2>3, <2>4, <2>5, <2>6, <2>7, <2>8, <2>9, Bounds
    <2>10. CASE call[c].key # k
      BY <2>2, <2>3, <2>5, <2>6, <2>7, <2>8, <2>10, Bounds
    <2>11. QED
      BY <2>9, <2>10
  <1>13. StackTypeOK'
    BY <1>1, <1>6, <1>11 DEF StackTypeOK
  <1>14. QED
    BY <1>7, <1>8, <1>9, <1>12, <1>13 DEF StackInv

LEMMA OwnCleared ==
    ASSUME NEW s \in CallRecord
    PROVE  /\ [s EXCEPT !.own = 0] \in CallRecord
           /\ [s EXCEPT !.own = 0].phase = s.phase
           /\ [s EXCEPT !.own = 0].key = s.key
           /\ [s EXCEPT !.own = 0].now = s.now
           /\ [s EXCEPT !.own = 0].own = 0
           /\ [s EXCEPT !.own = 0].began = s.began
           /\ [s EXCEPT !.own = 0].served = s.served
           /\ \A t, q, w : CallOK(s, t, q) => CallOK([s EXCEPT !.own = 0], t, w)
  <1>1. /\ [s EXCEPT !.own = 0] \in CallRecord
        /\ [s EXCEPT !.own = 0].phase = s.phase
        /\ [s EXCEPT !.own = 0].key = s.key
        /\ [s EXCEPT !.own = 0].now = s.now
        /\ [s EXCEPT !.own = 0].own = 0
        /\ [s EXCEPT !.own = 0].began = s.began
        /\ [s EXCEPT !.own = 0].served = s.served
        /\ s.now \in Nat
    BY DEF CallRecord
  <1>2. 0 <= s.now
    BY <1>1
  <1>3. QED
    BY <1>1, <1>2 DEF CallOK

\* A step of one call on the cache: the others keep what they stored, or it is
\* no longer theirs.
LEMMA CacheStepKeeps ==
    ASSUME StackInv, NEW c \in Threads, IsCache(cache'), SizeOK',
           UNCHANGED <<clock, history>>, call' \in [Threads -> CallRecord],
           CallOK(call'[c], clock, cache'), call'[c].phase # "counted",
           \A d \in Threads : d # c =>
               \/ /\ call'[d] = call[d]
                  /\ Holds(cache, call[d].key, call[d].own)
                         => Holds(cache', call[d].key, call[d].own)
               \/ call'[d] = [call[d] EXCEPT !.own = 0]
    PROVE  StackInv'
  <1>1. StackTypeOK'
    BY DEF StackInv, StackTypeOK
  <1>2. ASSUME NEW d \in Threads, d # c
        PROVE  /\ CallOK(call'[d], clock', cache')
               /\ call'[d].phase = call[d].phase /\ call'[d].key = call[d].key
    <2>1. call[d] \in CallRecord /\ CallOK(call[d], clock, cache) /\ clock' = clock
      BY DEF StackInv, StackTypeOK
    <2>2. CASE /\ call'[d] = call[d]
               /\ Holds(cache, call[d].key, call[d].own)
                      => Holds(cache', call[d].key, call[d].own)
      BY <2>1, <2>2 DEF CallOK
    <2>3. CASE call'[d] = [call[d] EXCEPT !.own = 0]
      BY <2>1, <2>3, OwnCleared
    <2>4. QED
      BY <1>2, <2>2, <2>3
  <1>3. \A d \in Threads : CallOK(call'[d], clock', cache')
    BY <1>2
  <1>4. \A k \in Keys : Counters(k)' \subseteq Counters(k)
    BY <1>2 DEF Counters
  <1>5. CountsOK'
    BY <1>4, CountsKeep DEF StackInv, StackTypeOK
  <1>6. QED
    BY <1>1, <1>3, <1>5 DEF StackInv

\* A live entry is the answer, an expired one is deleted with what it was to
\* the others.
LEMMA LookupKeeps ==
    ASSUME StackInv, NEW c \in Threads, Lookup(c) PROVE StackInv'
  <1> DEFINE k == call[c].key
  <1>1. /\ call[c] \in CallRecord /\ CallOK(call[c], clock, cache)
        /\ call \in [Threads -> CallRecord]
        /\ call[c].phase = "asked" /\ k \in Keys /\ clock' = clock /\ history' = history
        /\ call[c].now \in Nat /\ IsCache(cache) /\ Len(cache) \in Nat
    BY LenProperties DEF StackInv, StackTypeOK, Lookup, At, CallOK, CallRecord, IsCache
  <1>2. CASE \E i \in Holding(k) : cache[i].expiry > call[c].now
    <2> DEFINE entry == cache[Place(k)]
               r == [Settled(c, "value") EXCEPT !.served = call[c].now - entry.began]
    <2>1. /\ cache' = Append(Without(k), entry)
          /\ call' = [call EXCEPT ![c] = r]
      BY <1>2 DEF Lookup
    <2>2. Holding(k) # {} /\ Place(k) \in 1 .. Len(cache) /\ entry.key = k
      BY <1>2, AtPlace DEF Holding
    <2>3. /\ entry \in Entry /\ entry.expiry <= entry.began + Ttl
          /\ \A i \in Holding(k) : cache[i] = entry
      BY <2>2, ElementOfSeq DEF IsCache, StackInv, Holding
    <2>4. entry.expiry > call[c].now /\ entry.expiry \in Nat /\ entry.began \in Nat
      BY <1>2, <2>3 DEF Entry
    <2> HIDE DEF entry
    <2>5. call[c].now - entry.began < Ttl /\ call[c].now - entry.began \in Int
      BY <1>1, <2>3, <2>4, Bounds
    <2>6. /\ Settled(c, "value") \in CallRecord
          /\ Settled(c, "value").phase \in {"idle", "backoff"}
          /\ CallOK(Settled(c, "value"), clock, cache)
      BY <1>1, SettledIs, SettledIsOK DEF StackInv
    <2>7. /\ r \in CallRecord
          /\ r.phase = Settled(c, "value").phase
          /\ r.key = Settled(c, "value").key
          /\ r.now = Settled(c, "value").now
          /\ r.own = Settled(c, "value").own
          /\ r.served = call[c].now - entry.began
      BY ONLY <2>5, <2>6 DEF CallRecord
    <2> HIDE DEF r
    <2>8. /\ IsCache(cache')
          /\ Len(cache') = Len(cache)
          /\ \A h, e : Holds(cache, h, e) => Holds(cache', h, e)
      <3>1. /\ IsCache(Without(k))
            /\ Len(Without(k)) = Len(cache) - 1
            /\ \A j \in 1 .. Len(Without(k)) : Without(k)[j].key # k
            /\ \A h, e : h # k /\ Holds(cache, h, e) => Holds(Without(k), h, e)
        BY <1>1, <2>2, WithoutDeletes
      <3>2. /\ IsCache(Append(Without(k), entry))
            /\ Len(Append(Without(k), entry)) = Len(Without(k)) + 1
            /\ Holds(Append(Without(k), entry), entry.key, entry.expiry)
            /\ \A h, e : Holds(Without(k), h, e) => Holds(Append(Without(k), entry), h, e)
        BY <2>2, <2>3, <3>1, AppendStores
      <3>3. \A e : Holds(cache, k, e) => e = entry.expiry
        BY <2>3 DEF Holds, Holding
      <3>4. QED
        BY <1>1, <2>1, <2>2, <3>1, <3>2, <3>3
    <2>9. CallOK(r, clock, cache')
      BY <2>5, <2>6, <2>7, <2>8 DEF CallOK, Missing
    <2>10. /\ call' \in [Threads -> CallRecord] /\ call'[c] = r
           /\ \A d \in Threads : d # c => call'[d] = call[d]
      BY <1>1, <2>1, <2>7
    <2>11. SizeOK'
      <3>1. Evictors \subseteq Evictors'
        BY <1>1, <2>10 DEF Evictors, Evicting
      <3>2. QED
        BY <1>1, <2>8, <3>1, SizeKeeps DEF StackInv
    <2>12. r.phase # "counted"
      BY <2>6, <2>7
    <2>13. QED
      BY <1>1, <2>8, <2>9, <2>10, <2>11, <2>12, CacheStepKeeps
  <1>3. CASE ~\E i \in Holding(k) : cache[i].expiry > call[c].now
    <2> DEFINE r == [call[c] EXCEPT !.phase = "missed"]
    <2>1. /\ cache' = Without(k)
          /\ call' = [d \in Threads |->
                 IF d = c THEN r
                 ELSE IF Holding(k) = {} THEN call[d] ELSE Forgotten(k)[d]]
      BY <1>3 DEF Lookup
    <2>2. "missed" \in CallPhases
      BY DEF CallPhases, InWorker
    <2>3. /\ r \in CallRecord /\ r.phase = "missed" /\ r.key = k
          /\ r.now = call[c].now /\ r.own = call[c].own /\ r.served = call[c].served
      BY <1>1, <2>2, PhaseChange
    <2> HIDE DEF r
    <2>4. /\ IsCache(cache')
          /\ Len(cache') <= Len(cache)
          /\ \A h, e : h # k /\ Holds(cache, h, e) => Holds(cache', h, e)
      BY <1>1, <2>1, WithoutDeletes
    <2>5. r.own <= r.now
      <3>1. CASE call[c].own <= call[c].now
        BY <2>3, <3>1
      <3>2. CASE Holds(cache, k, call[c].own)
        <4>1. PICK i \in Holding(k) : cache[i].expiry = call[c].own
          BY <3>2 DEF Holds, Holding
        <4>2. ~(call[c].own > call[c].now) /\ call[c].own \in Nat
          BY <1>1, <1>3, <4>1 DEF CallRecord
        <4>3. QED
          BY <1>1, <2>3, <4>2
      <3>3. QED
        BY <1>1, <3>1, <3>2 DEF CallOK
    <2>6. CallOK(r, clock, cache')
      BY <1>1, <2>3, <2>5 DEF CallOK
    <2>7. ASSUME NEW d \in Threads, d # c
          PROVE  /\ call'[d] \in CallRecord
                 /\ \/ /\ call'[d] = call[d]
                       /\ Holds(cache, call[d].key, call[d].own)
                              => Holds(cache', call[d].key, call[d].own)
                    \/ call'[d] = [call[d] EXCEPT !.own = 0]
      <3>1. call[d] \in CallRecord
        BY <1>1
      <3>2. CASE Holding(k) = {}
        <4>1. call'[d] = call[d] /\ cache' = cache
          BY <2>1, <2>7, <3>2 DEF Without
        <4>2. QED
          BY <3>1, <4>1
      <3>3. CASE Holding(k) # {} /\ call[d].key = k
        <4>1. call'[d] = [call[d] EXCEPT !.own = 0]
          BY <2>1, <2>7, <3>3 DEF Forgotten
        <4>2. QED
          BY <3>1, <4>1, OwnCleared
      <3>4. CASE Holding(k) # {} /\ call[d].key # k
        <4>1. call'[d] = call[d]
          BY <2>1, <2>7, <3>4 DEF Forgotten
        <4>2. QED
          BY <2>4, <3>1, <3>4, <4>1
      <3>5. QED
        BY <3>2, <3>3, <3>4
    <2>8. call'[c] = r /\ call' \in [Threads -> CallRecord]
      <3>1. call'[c] = r
        BY <2>1
      <3>2. \A d \in Threads : call'[d] \in CallRecord
        BY <2>3, <2>7, <3>1
      <3>3. QED
        BY <2>1, <3>1, <3>2
    <2>9. SizeOK'
      <3>1. \A d \in Threads : d # c => call'[d].phase = call[d].phase
        BY <1>1, <2>7, OwnCleared
      <3>2. Evictors \subseteq Evictors'
        BY <1>1, <3>1 DEF Evictors, Evicting
      <3>3. QED
        BY <1>1, <2>4, <3>2, SizeKeeps DEF StackInv
    <2>10. QED
      BY <1>1, <2>3, <2>4, <2>6, <2>7, <2>8, <2>9, CacheStepKeeps
  <1>4. QED
    BY <1>2, <1>3

\* The stored entry is one more, and its thread one more in the eviction loop.
LEMMA StoreKeeps ==
    ASSUME StackInv, NEW c \in Threads, Store(c) PROVE StackInv'
  <1> DEFINE k == call[c].key
             expiry == call[c].now + Ttl
             x == [key |-> k, expiry |-> expiry, began |-> call[c].began]
             w == Without(k)
             r == [[call[c] EXCEPT !.own = 0] EXCEPT !.phase = "stored", !.own = expiry]
  <1>1. /\ call[c] \in CallRecord /\ CallOK(call[c], clock, cache)
        /\ call \in [Threads -> CallRecord]
        /\ call[c].phase = "storing" /\ k \in Keys /\ clock' = clock /\ history' = history
        /\ call[c].now \in Nat /\ call[c].began \in Nat /\ call[c].now <= call[c].began
        /\ IsCache(cache) /\ Len(cache) \in Nat
    BY LenProperties DEF StackInv, StackTypeOK, Store, At, CallOK, CallRecord, IsCache
  <1>2. /\ cache' = Append(w, x)
        /\ call' = [Forgotten(k) EXCEPT ![c].phase = "stored", ![c].own = expiry]
    BY DEF Store, Stored
  <1>3. /\ expiry \in Nat /\ expiry <= call[c].began + Ttl
        /\ x \in Entry /\ x.key = k /\ x.expiry = expiry /\ x.began = call[c].began
    BY <1>1, Bounds DEF Entry
  <1> HIDE DEF x
  <1>4. /\ IsCache(cache')
        /\ Len(cache') <= Len(cache) + 1
        /\ Holds(cache', k, expiry)
        /\ \A h, e : h # k /\ Holds(cache, h, e) => Holds(cache', h, e)
    <2>1. /\ IsCache(w)
          /\ Len(w) <= Len(cache) /\ Len(w) \in Nat
          /\ \A j \in 1 .. Len(w) : w[j].key # k
          /\ \A h, e : h # k /\ Holds(cache, h, e) => Holds(w, h, e)
      BY <1>1, WithoutDeletes
    <2> HIDE DEF w
    <2>2. /\ IsCache(Append(w, x))
          /\ Len(Append(w, x)) = Len(w) + 1
          /\ Holds(Append(w, x), x.key, x.expiry)
          /\ \A h, e : Holds(w, h, e) => Holds(Append(w, x), h, e)
      BY <1>3, <2>1, AppendStores
    <2> HIDE DEF expiry
    <2>3. QED
      BY <1>1, <1>2, <1>3, <2>1, <2>2
  <1> HIDE DEF w
  <1>5. [call[c] EXCEPT !.own = 0] \in CallRecord
    BY <1>1, OwnCleared
  <1>6. /\ r \in CallRecord /\ r.phase = "stored" /\ r.key = k
        /\ r.now = call[c].now /\ r.own = expiry /\ r.served = call[c].served
    <2>1. /\ [call[c] EXCEPT !.own = 0].key = k
          /\ [call[c] EXCEPT !.own = 0].now = call[c].now
          /\ [call[c] EXCEPT !.own = 0].served = call[c].served
      BY <1>1, OwnCleared
    <2>2. ASSUME NEW s \in CallRecord, NEW e \in Nat
          PROVE  /\ [s EXCEPT !.phase = "stored", !.own = e] \in CallRecord
                 /\ [s EXCEPT !.phase = "stored", !.own = e].phase = "stored"
                 /\ [s EXCEPT !.phase = "stored", !.own = e].key = s.key
                 /\ [s EXCEPT !.phase = "stored", !.own = e].now = s.now
                 /\ [s EXCEPT !.phase = "stored", !.own = e].own = e
                 /\ [s EXCEPT !.phase = "stored", !.own = e].served = s.served
      BY DEF CallRecord, CallPhases, InWorker
    <2>3. QED
      BY <1>3, <1>5, <2>1, <2>2
  <1>7. /\ call'[c] = r
        /\ \A d \in Threads : d # c => call'[d] = Forgotten(k)[d]
    <2>1. Forgotten(k) = [d \in Threads |->
              IF call[d].key = k THEN [call[d] EXCEPT !.own = 0] ELSE call[d]]
      BY DEF Forgotten
    <2> HIDE DEF expiry
    <2>2. Forgotten(k)[c] = [call[c] EXCEPT !.own = 0]
      BY <2>1
    <2>3. call' = [Forgotten(k) EXCEPT ![c] = r]
      BY <1>2, <2>1, <2>2
    <2> HIDE DEF r
    <2>4. QED
      BY <2>1, <2>3
  <1> HIDE DEF r
  <1>8. ASSUME NEW d \in Threads, d # c
        PROVE  /\ call'[d] \in CallRecord /\ call'[d].phase = call[d].phase
               /\ \/ /\ call'[d] = call[d]
                     /\ Holds(cache, call[d].key, call[d].own)
                            => Holds(cache', call[d].key, call[d].own)
                  \/ call'[d] = [call[d] EXCEPT !.own = 0]
    <2>1. call[d] \in CallRecord
      BY <1>1
    <2>2. CASE call[d].key = k
      BY <1>7, <1>8, <2>1, <2>2, OwnCleared DEF Forgotten
    <2>3. CASE call[d].key # k
      <3>1. call'[d] = call[d]
        BY <1>7, <1>8, <2>3 DEF Forgotten
      <3>2. QED
        BY <1>4, <2>1, <2>3, <3>1
    <2>4. QED
      BY <2>2, <2>3
  <1>9. call' \in [Threads -> CallRecord]
    <2>1. \A d \in Threads : call'[d] \in CallRecord
      BY <1>6, <1>7, <1>8
    <2>2. call' = [d \in Threads |-> call'[d]]
      BY <1>2 DEF Forgotten
    <2>3. QED
      BY <2>1, <2>2
  <1>10. CallOK(r, clock, cache')
    BY <1>1, <1>4, <1>6 DEF CallOK, Missing
  <1>11. SizeOK'
    <2>1. Evictors \in SUBSET Threads /\ Evictors' \in SUBSET Threads
      BY DEF Evictors
    <2>2. c \in Evictors' /\ Evictors \subseteq Evictors' \ {c}
      BY <1>1, <1>6, <1>7, <1>8 DEF Evictors, Evicting
    <2>3. /\ Cardinality(Evictors) \in Nat /\ Cardinality(Evictors') \in Nat
          /\ Cardinality(Evictors) + 1 <= Cardinality(Evictors')
      BY <2>1, <2>2, ThreadSets
    <2>4. Len(cache) <= MaxSize + Cardinality(Evictors) /\ Len(cache') \in Nat
      BY <1>4, LenProperties DEF StackInv, SizeOK, IsCache
    <2>5. QED
      BY <1>1, <1>4, <2>3, <2>4, Bounds DEF SizeOK
  <1>12. r.phase # "counted"
    BY <1>6
  <1>13. QED
    BY <1>1, <1>4, <1>7, <1>8, <1>9, <1>10, <1>11, <1>12, CacheStepKeeps

\* The evicted entry is one less, for whichever call stored it.
LEMMA EvictKeeps ==
    ASSUME StackInv, NEW c \in Threads, Evict(c) PROVE StackInv'
  <1>1. /\ call[c] \in CallRecord /\ CallOK(call[c], clock, cache)
        /\ call \in [Threads -> CallRecord]
        /\ call[c].phase = "full" /\ clock' = clock /\ history' = history
        /\ IsCache(cache)
    BY DEF StackInv, StackTypeOK, Evict, At
  <1>2. CASE cache = <<>>
    <2>1. Len(cache) <= MaxSize
      BY <1>2, EmptySeq, Bounds
    <2>2. WorkerEnds(c, "KeyError") /\ UNCHANGED <<clock, cache, history>>
      BY <1>1, <1>2 DEF Evict
    <2>3. QED
      BY <1>1, <2>1, <2>2, WorkerEndsKeeps
  <1>3. CASE cache # <<>>
    <2> DEFINE k == Head(cache).key
               s == IF call[c].key = k THEN [call[c] EXCEPT !.own = 0] ELSE call[c]
               r == [s EXCEPT !.phase = "stored"]
    <2>1. /\ cache' = Tail(cache)
          /\ call' = [Forgotten(k) EXCEPT ![c].phase = "stored"]
      BY <1>3 DEF Evict
    <2>2. /\ IsCache(cache')
          /\ Len(cache') <= Len(cache)
          /\ \A h, e : h # k /\ Holds(cache, h, e) => Holds(cache', h, e)
      BY <1>1, <1>3, <2>1, TailEvicts
    <2> HIDE DEF k
    <2>3. /\ s \in CallRecord /\ s.phase = "full" /\ CallOK(s, clock, cache')
      BY <1>1, <2>2, OwnCleared DEF CallOK
    <2>4. Forgotten(k) = [d \in Threads |->
              IF call[d].key = k THEN [call[d] EXCEPT !.own = 0] ELSE call[d]]
      BY DEF Forgotten
    <2>5. Forgotten(k)[c] = s
      BY <2>4
    <2> HIDE DEF s
    <2>6. "stored" \in CallPhases
      BY DEF CallPhases, InWorker
    <2>7. /\ r \in CallRecord /\ r.phase = "stored" /\ r.key = s.key
          /\ r.now = s.now /\ r.own = s.own /\ r.served = s.served
      BY <2>3, <2>6, PhaseChange
    <2>8. call' = [Forgotten(k) EXCEPT ![c] = r]
      BY <2>1, <2>4, <2>5
    <2> HIDE DEF r
    <2>9. /\ call'[c] = r
          /\ \A d \in Threads : d # c => call'[d] = Forgotten(k)[d]
      BY <2>4, <2>8
    <2>10. ASSUME NEW d \in Threads, d # c
           PROVE  /\ call'[d] \in CallRecord /\ call'[d].phase = call[d].phase
                  /\ \/ /\ call'[d] = call[d]
                        /\ Holds(cache, call[d].key, call[d].own)
                               => Holds(cache', call[d].key, call[d].own)
                     \/ call'[d] = [call[d] EXCEPT !.own = 0]
      <3>1. call[d] \in CallRecord
        BY <1>1
      <3>2. CASE call[d].key = k
        BY <2>9, <2>10, <2>4, <3>1, <3>2, OwnCleared
      <3>3. CASE call[d].key # k
        <4>1. call'[d] = call[d]
          BY <2>9, <2>10, <2>4, <3>3
        <4>2. QED
          BY <2>2, <3>1, <3>3, <4>1
      <3>4. QED
        BY <3>2, <3>3
    <2>11. call' \in [Threads -> CallRecord]
      <3>1. \A d \in Threads : call'[d] \in CallRecord
        BY <2>7, <2>9, <2>10
      <3>2. call' = [d \in Threads |-> call'[d]]
        BY <2>4, <2>8
      <3>3. QED
        BY <3>1, <3>2
    <2>12. CallOK(r, clock, cache')
      BY <2>3, <2>7 DEF CallOK, Missing
    <2>13. SizeOK'
      <3>1. Evictors \subseteq Evictors'
        BY <2>7, <2>9, <2>10 DEF Evictors, Evicting
      <3>2. QED
        BY <1>1, <2>2, <3>1, SizeKeeps DEF StackInv
    <2>14. r.phase # "counted"
      BY <2>7
    <2>15. QED
      BY <1>1, <2>2, <2>9, <2>10, <2>11, <2>12, <2>13, <2>14, CacheStepKeeps
  <1>4. QED
    BY <1>2, <1>3

LEMMA StackStutterKeeps == ASSUME StackInv, UNCHANGED stackVars PROVE StackInv'
  BY DEF StackInv, stackVars, StackTypeOK, IsCache, SizeOK, CountsOK, Evictors, Counters

LEMMA StackStepKeeps == StackInv /\ [StackNext]_stackVars => StackInv'
  <1> SUFFICES ASSUME StackInv, [StackNext]_stackVars PROVE StackInv'
    OBVIOUS
  <1>1. CASE Tick
    BY <1>1, TickKeeps
  <1>2. CASE \E c \in Threads, k \in Keys : Call(c, k)
    BY <1>2, CallKeeps
  <1>3. ASSUME NEW c \in Threads, WorkerStep(c) \/ CallerStep(c) \/ NodeEnds(c)
        PROVE  StackInv'
    BY <1>3, ReadClockKeeps, LookupKeeps, StartCountKeeps, CountKeeps, RecordKeeps,
       StoreKeeps, CheckSizeKeeps, EvictKeeps, TimesOutKeeps, RetryKeeps, NodeEndsKeeps
       DEF WorkerStep, CallerStep
  <1>4. CASE UNCHANGED stackVars
    BY <1>4, StackStutterKeeps
  <1>5. QED
    BY <1>1, <1>2, <1>3, <1>4 DEF StackNext

\* The cache, the guard's history and the calls are consistent at every step.
THEOREM StackInvHolds == StackSpec => []StackInv
  <1>1. QED
    BY InitStackInv, StackStepKeeps, PTL DEF StackSpec

\* AnswersAreFresh: what with_cache answers is younger than ttl, for any number
\* of threads, keys and clock ticks between them.
THEOREM CacheAnswersAreFresh == StackSpec => []AnswersAreFresh
  <1>1. StackInv => AnswersAreFresh
    BY DEF StackInv, CallOK, AnswersAreFresh
  <1>2. QED
    BY <1>1, StackInvHolds, PTL

\* CacheIsBounded: with_cache outgrows max_size only by the stores whose
\* eviction loop is still running.
THEOREM CacheStaysBounded == StackSpec => []CacheIsBounded
  <1>1. StackInv => CacheIsBounded
    BY DEF StackInv, SizeOK, CacheIsBounded, Evictors, Evicting
  <1>2. QED
    BY <1>1, StackInvHolds, PTL

\* RepeatsAreBounded: with_loop_guard lets through one repeat too many for each
\* thread after the first, and never more.
THEOREM GuardBoundsRepeats == StackSpec => []RepeatsAreBounded
  <1>1. StackInv => RepeatsAreBounded
    <2> SUFFICES ASSUME StackInv, NEW k \in Keys
                 PROVE  Repeats(k) <= MaxRepeats + Cardinality(Threads) - 1
      BY DEF RepeatsAreBounded
    <2>1. Counters(k) \in SUBSET Threads
      BY DEF Counters
    <2>2. Cardinality(Counters(k)) \in Nat /\ Cardinality(Threads) \in Nat
      BY <2>1, ThreadSets
    <2>3. Cardinality(Occurrences(history, k)) \in Nat
      BY OccurrencesAreFinite DEF StackInv, StackTypeOK
    <2>4. Cardinality(Occurrences(history, k)) + Cardinality(Counters(k))
            <= MaxRepeats + Cardinality(Threads) - 1
      BY DEF StackInv, CountsOK
    <2>5. Repeats(k) = Cardinality(Occurrences(history, k))
      BY DEF Repeats, Occurrences
    <2>6. QED
      BY <2>2, <2>3, <2>4, <2>5, Bounds
  <1>2. QED
    BY <1>1, StackInvHolds, PTL

\* LateValueIsUsed: a value stored after its caller gave up answers the retry of
\* with_retry, until it expires or another call takes it out of the cache.
THEOREM LateValuesAreUsed == StackSpec => []LateValueIsUsed
  <1>1. StackInv => LateValueIsUsed
    BY DEF StackInv, CallOK, Missing, LateValueIsUsed
  <1>2. QED
    BY <1>1, StackInvHolds, PTL
=============================================================================
