---------------------------- MODULE RateLimit_proofs ----------------------------
(***************************************************************************)
(* Proofs about RateLimit, for any rate, number of threads and interleaving: *)
(* no second of the clock, wherever it starts, admits more calls than the    *)
(* rate rounded up.                                                          *)
(***************************************************************************)
EXTENDS RateLimit, WellFoundedInduction, SequenceTheorems, TLAPS

\* A non-empty set of numbers with a bound has a greatest element.
LEMMA MaxOfNumbers ==
    ASSUME NEW S \in SUBSET Nat, S # {}, NEW n \in Nat, \A x \in S : x <= n
    PROVE  Max(S) \in S /\ \A x \in S : x <= Max(S)
  <1> DEFINE T == {n - x : x \in S}
             R == OpToRel(<, Nat)
  <1>1. T \subseteq Nat /\ T # {}
    <2>1. ASSUME NEW x \in S PROVE n - x \in Nat
      <3>1. x \in Nat /\ x <= n
        OBVIOUS
      <3>2. QED
        BY <3>1
    <2>2. QED
      BY <2>1
  <1>2. PICK t \in T : \A u \in T : <<u, t>> \notin R
    <2> HIDE DEF T, R
    <2>1. IsWellFoundedOn(R, Nat)
      BY NatLessThanWellFounded DEF R
    <2>2. QED
      BY <1>1, <2>1, WFMin
  <1>3. PICK m \in S : t = n - m
    OBVIOUS
  <1>4. \A x \in S : x <= m
    <2>1. SUFFICES ASSUME NEW x \in S, x > m PROVE FALSE
      OBVIOUS
    <2>2. n - x \in T /\ n - x < t /\ n - x \in Nat /\ t \in Nat
      BY <1>3, <2>1
    <2>3. <<n - x, t>> \in R
      BY <2>2 DEF OpToRel
    <2>4. QED
      BY <1>2, <2>2, <2>3
  <1>5. QED
    BY <1>3, <1>4 DEF Max

\* Live keeps the newest calls, drops only calls more than a window old, and
\* keeps a call of the window as its oldest.
LEMMA LiveIsPrefix ==
    ASSUME NEW s \in Seq(0 .. Horizon)
    PROVE  \E k \in 0 .. Len(s) :
               /\ Live(s) = SubSeq(s, 1, k)
               /\ \A i \in k + 1 .. Len(s) : s[i] > Window
               /\ k > 0 => s[k] <= Window
  <1> DEFINE young == {0} \cup {i \in DOMAIN s : s[i] <= Window}
             k == Max(young)
  <1>1. young \in SUBSET Nat /\ young # {} /\ \A x \in young : x <= Len(s)
    OBVIOUS
  <1>2. k \in young /\ \A x \in young : x <= k
    <2>1. Len(s) \in Nat
      OBVIOUS
    <2> HIDE DEF young
    <2>2. QED
      BY ONLY <1>1, <2>1, MaxOfNumbers
  <1>3. k \in 0 .. Len(s) /\ Live(s) = SubSeq(s, 1, k)
    BY <1>1, <1>2 DEF Live
  <1>4. k > 0 => s[k] <= Window
    BY <1>2
  <1>5. ASSUME NEW i \in k + 1 .. Len(s) PROVE s[i] > Window
    <2>1. i \in DOMAIN s /\ s[i] \in 0 .. Horizon /\ i > k
      <3> HIDE DEF k
      <3>1. i \in 1 .. Len(s) /\ i > k
        BY <1>3
      <3>2. QED
        BY <3>1, ElementOfSeq, LenProperties
    <2>2. i \notin young
      BY <1>2, <2>1
    <2>3. QED
      BY <2>1, <2>2, ConfigIsValid DEF Horizon
  <1>6. QED
    BY <1>3, <1>4, <1>5

\* The window, the horizon and the capacity are positive numbers, and a deque
\* with room has not reached the capacity.
LEMMA ConfigFacts ==
    /\ Window \in Nat \ {0} /\ Horizon \in Nat /\ Horizon > Window
    /\ Capacity \in Nat \ {0} /\ Depth \in Nat /\ Depth >= Capacity
    /\ \A n \in Nat : n * Seconds < Calls <=> n < Capacity
  <1> USE ConfigIsValid DEF Horizon, Capacity
  <1>1. Seconds * Window \in Nat /\ Seconds * Window >= Window
    OBVIOUS
  <1>2. Capacity \in Nat \ {0}
    OBVIOUS
  <1>3. ASSUME NEW n \in Nat PROVE n * Seconds < Calls <=> n < Capacity
    OBVIOUS
  <1>4. QED
    BY <1>1, <1>2, <1>3

\* What the first k of a sequence of ages are.
LEMMA PrefixOfAges ==
    ASSUME NEW s \in Seq(0 .. Horizon), NEW k \in 0 .. Len(s)
    PROVE  /\ SubSeq(s, 1, k) \in Seq(0 .. Horizon)
           /\ Len(SubSeq(s, 1, k)) = k
           /\ \A i \in 1 .. k : SubSeq(s, 1, k)[i] = s[i]
  <1>1. Len(s) \in Nat /\ k \in Int /\ 1 \in Int
    BY LenProperties
  <1>2. \A i \in 1 .. k : s[i] \in 0 .. Horizon
    <2>1. \A i \in 1 .. k : i \in 1 .. Len(s)
      BY <1>1
    <2>2. QED
      BY <2>1, ElementOfSeq
  <1>3. /\ SubSeq(s, 1, k) \in Seq(0 .. Horizon)
        /\ Len(SubSeq(s, 1, k)) = IF 1 <= k THEN k - 1 + 1 ELSE 0
        /\ \A i \in 1 .. k - 1 + 1 : SubSeq(s, 1, k)[i] = s[1 + i - 1]
    BY ONLY <1>1, <1>2, SubSeqProperties
  <1>4. QED
    BY <1>1, <1>3

\* What a sequence is once a call is put in front of its first k.
LEMMA PushCall ==
    ASSUME NEW s \in Seq(0 .. Horizon), NEW k \in 0 .. Len(s),
           NEW p, p = << 0 >> \o SubSeq(s, 1, k)
    PROVE  /\ p \in Seq(0 .. Horizon)
           /\ Len(p) = k + 1
           /\ p[1] = 0
           /\ \A i \in 2 .. k + 1 : p[i] = s[i - 1]
  <1> DEFINE t == SubSeq(s, 1, k)
  <1>1. /\ t \in Seq(0 .. Horizon) /\ Len(t) = k
        /\ \A i \in 1 .. k : t[i] = s[i]
    BY PrefixOfAges
  <1>2. << 0 >> \in Seq(0 .. Horizon) /\ Len(<< 0 >>) = 1 /\ << 0 >>[1] = 0
    BY ConfigFacts
  <1> HIDE DEF t
  <1>3. p = << 0 >> \o t
    BY DEF t
  <1>4. /\ p \in Seq(0 .. Horizon) /\ Len(p) = 1 + k
        /\ \A i \in 1 .. 1 + k : p[i] = IF i <= 1 THEN << 0 >>[i] ELSE t[i - 1]
    <2> DEFINE u == << 0 >>
    <2>1. u \in Seq(0 .. Horizon) /\ Len(u) = 1 /\ p = u \o t
      BY <1>2, <1>3
    <2> HIDE DEF u
    <2>2. /\ p \in Seq(0 .. Horizon) /\ Len(p) = Len(u) + Len(t)
          /\ \A i \in 1 .. Len(u) + Len(t) :
                 p[i] = IF i <= Len(u) THEN u[i] ELSE t[i - Len(u)]
      BY ONLY <1>1, <2>1, ConcatProperties
    <2>3. QED
      BY <1>1, <2>1, <2>2 DEF u
  <1>5. k \in Nat
    BY LenProperties
  <1>6. QED
    BY <1>1, <1>2, <1>4, <1>5

\* What the history is once a call is admitted.
LEMMA RememberCall ==
    ASSUME NEW s \in Seq(0 .. Horizon), Len(s) <= Depth
    PROVE  /\ Remember(s) \in Seq(0 .. Horizon)
           /\ Len(Remember(s)) = IF Len(s) < Depth THEN Len(s) + 1 ELSE Depth
           /\ Remember(s)[1] = 0
           /\ \A i \in 2 .. Len(Remember(s)) : Remember(s)[i] = s[i - 1]
  <1> DEFINE k == IF Len(s) < Depth THEN Len(s) ELSE Depth - 1
  <1>1. k \in 0 .. Len(s)
    BY ConfigFacts, LenProperties
  <1>2. Remember(s) = << 0 >> \o SubSeq(s, 1, k)
    BY DEF Remember
  <1>3. k + 1 = IF Len(s) < Depth THEN Len(s) + 1 ELSE Depth
    BY ConfigFacts, LenProperties
  <1>4. k \in Nat /\ Len(s) \in Nat
    BY <1>1, LenProperties
  <1> HIDE DEF k
  <1>5. /\ Remember(s) \in Seq(0 .. Horizon)
        /\ Len(Remember(s)) = k + 1 /\ Remember(s)[1] = 0
        /\ \A i \in 2 .. k + 1 : Remember(s)[i] = s[i - 1]
    BY ONLY <1>1, <1>2, PushCall
  <1>6. QED
    BY <1>3, <1>5

\* The clock makes every age older and none younger than a window again.
LEMMA OlderAges ==
    ASSUME NEW s \in Seq(0 .. Horizon)
    PROVE  /\ Older(s) \in Seq(0 .. Horizon)
           /\ Len(Older(s)) = Len(s) /\ DOMAIN Older(s) = DOMAIN s
           /\ \A i \in DOMAIN s :
                  /\ Older(s)[i] = IF s[i] < Horizon THEN s[i] + 1 ELSE Horizon
                  /\ s[i] > Window => Older(s)[i] > Window
  <1>1. Len(s) \in Nat /\ DOMAIN s = 1 .. Len(s)
    BY LenProperties
  <1>2. \A i \in 1 .. Len(s) : s[i] \in 0 .. Horizon
    BY ElementOfSeq
  <1>3. Older(s) \in [1 .. Len(s) -> 0 .. Horizon]
    BY <1>1, <1>2, ConfigFacts DEF Older
  <1>4. Older(s) \in Seq(0 .. Horizon) /\ Len(Older(s)) = Len(s)
    <2>1. Older(s) \in Seq(0 .. Horizon)
      BY <1>1, <1>3, SeqDef
    <2>2. DOMAIN Older(s) = 1 .. Len(Older(s)) /\ Len(Older(s)) \in Nat
      BY <2>1, LenProperties
    <2>3. DOMAIN Older(s) = 1 .. Len(s)
      BY <1>3
    <2>4. Len(Older(s)) = Len(s)
      <3>1. \A m, n \in Nat : 1 .. m = 1 .. n => m <= n
        <4>1. SUFFICES ASSUME NEW m \in Nat, NEW n \in Nat, 1 .. m = 1 .. n, m > n
                       PROVE  FALSE
          OBVIOUS
        <4>2. m \in 1 .. m
          BY <4>1
        <4>3. QED
          BY <4>1, <4>2
      <3>2. 1 .. Len(Older(s)) = 1 .. Len(s)
        BY <2>2, <2>3
      <3>3. \A m, n \in Nat : 1 .. m = 1 .. n => m = n
        BY ONLY <3>1
      <3>4. QED
        BY ONLY <1>1, <2>2, <3>2, <3>3
    <2>5. QED
      BY <2>1, <2>4
  <1>5. ASSUME NEW i \in DOMAIN s
        PROVE  /\ Older(s)[i] = IF s[i] < Horizon THEN s[i] + 1 ELSE Horizon
               /\ s[i] > Window => Older(s)[i] > Window
    BY <1>1, <1>2, ConfigFacts DEF Older
  <1>6. QED
    BY <1>1, <1>3, <1>4, <1>5

----------------------------------------------------------------------------

\* The limiter starts empty.
LEMMA InitIsLatest == Init => TypeOK /\ DequeIsLatest
  BY ConfigFacts, EmptySeq DEF Init, TypeOK, DequeIsLatest

\* Before a call is admitted, every call but the fewer than Capacity it counts is
\* more than a window old.
LEMMA OthersAreOld ==
    ASSUME TypeOK, DequeIsLatest, NEW k \in 0 .. Len(calls),
           \A i \in k + 1 .. Len(calls) : calls[i] > Window,
           NEW i \in k + 1 .. Len(history)
    PROVE  history[i] > Window
  <1>1. i \in DOMAIN history /\ Len(calls) \in Nat
    BY LenProperties DEF TypeOK
  <1>2. CASE i <= Len(calls)
    BY <1>1, <1>2 DEF DequeIsLatest
  <1>3. CASE i > Len(calls)
    BY <1>1, <1>3 DEF DequeIsLatest
  <1>4. QED
    BY <1>1, <1>2, <1>3

\* A pass through the lock preserves the invariant, and admits a call only when
\* the Capacity-th call before it is more than a window old.
LEMMA PassKeeps ==
    ASSUME TypeOK, DequeIsLatest, NEW c \in Callers, Pass(c), UNCHANGED raises
    PROVE  /\ TypeOK' /\ DequeIsLatest'
           /\ HasRoom(Live(calls)) /\ Len(history) >= Capacity
                 => history[Capacity] >= Window + 1
           /\ ~HasRoom(Live(calls)) => caller'[c] # "running"
           /\ \A d \in Callers \ {c} : caller'[d] = caller[d]
  <1> DEFINE live == Live(calls)
  <1>1. calls \in Seq(0 .. Horizon) /\ history \in Seq(0 .. Horizon)
    BY DEF TypeOK
  <1>2. PICK k \in 0 .. Len(calls) :
            /\ live = SubSeq(calls, 1, k)
            /\ \A i \in k + 1 .. Len(calls) : calls[i] > Window
            /\ k > 0 => calls[k] <= Window
    BY <1>1, LiveIsPrefix
  <1>3. /\ live \in Seq(0 .. Horizon) /\ Len(live) = k
        /\ \A i \in 1 .. k : live[i] = calls[i]
    BY <1>1, <1>2, PrefixOfAges
  <1>4. \A i \in k + 1 .. Len(history) : history[i] > Window
    BY <1>2, OthersAreOld
  <1>5. /\ Len(calls) \in Nat /\ Len(history) \in Nat /\ k \in Nat
        /\ DOMAIN calls = 1 .. Len(calls) /\ DOMAIN history = 1 .. Len(history)
        /\ Len(calls) <= Capacity /\ Len(calls) <= Len(history)
        /\ \A i \in 1 .. Len(calls) : calls[i] = history[i]
    BY <1>1, LenProperties, ConfigFacts DEF DequeIsLatest
  <1>6. HasRoom(live) <=> k < Capacity
    BY <1>3, <1>5, ConfigFacts DEF HasRoom
  <1> HIDE DEF live
  <1>7. CASE HasRoom(live)
    <2>1. /\ calls' = << 0 >> \o live /\ history' = Remember(history)
          /\ caller' = [caller EXCEPT ![c] = "running"] /\ left' = left
      BY <1>7 DEF Pass, live
    <2>2. /\ calls' \in Seq(0 .. Horizon) /\ Len(calls') = k + 1 /\ calls'[1] = 0
          /\ \A i \in 2 .. k + 1 : calls'[i] = calls[i - 1]
      BY <1>1, <1>2, <2>1, PushCall
    <2>3. /\ history' \in Seq(0 .. Horizon)
          /\ Len(history') = IF Len(history) < Depth THEN Len(history) + 1
                                                    ELSE Depth
          /\ history'[1] = 0
          /\ \A i \in 2 .. Len(history') : history'[i] = history[i - 1]
      BY <1>1, <2>1, RememberCall DEF TypeOK
    <2>4. TypeOK'
      BY <1>5, <2>1, <2>2, <2>3, ConfigFacts DEF TypeOK
    <2>5. Len(calls') <= Capacity /\ Len(calls') <= Len(history')
      BY <1>5, <1>6, <1>7, <2>2, <2>3, ConfigFacts
    <2>6. ASSUME NEW i \in DOMAIN history'
          PROVE  IF i <= Len(calls') THEN calls'[i] = history'[i]
                                     ELSE history'[i] > Window
      <3>1. i \in 1 .. Len(history') /\ i \in Nat
        BY <2>3, LenProperties
      <3>2. CASE i = 1
        BY <2>2, <2>3, <3>2, <1>5
      <3>3. CASE i # 1
        <4>1. i - 1 \in 1 .. Len(history) /\ history'[i] = history[i - 1]
          <5>1. i \in 2 .. Len(history')
            BY <3>1, <3>3
          <5>2. Len(history') \in Nat /\ Len(history') <= Len(history) + 1
            BY <1>5, <2>3, ConfigFacts
          <5>3. QED
            BY <1>5, <2>3, <5>1, <5>2
        <4>2. CASE i <= k + 1
          BY <1>5, <2>2, <3>1, <3>3, <4>1, <4>2
        <4>3. CASE i > k + 1
          <5>1. history[i - 1] > Window
            <6>1. i - 1 \in k + 1 .. Len(history)
              BY <1>5, <3>1, <4>1, <4>3
            <6>2. QED
              BY <1>4, <6>1
          <5>2. QED
            BY <1>5, <2>2, <3>1, <4>1, <4>3, <5>1
        <4>4. QED
          BY <1>5, <3>1, <4>2, <4>3
      <3>4. QED
        BY <3>2, <3>3
    <2>7. Len(history) >= Capacity => history[Capacity] >= Window + 1
      <3>1. SUFFICES ASSUME Len(history) >= Capacity
                     PROVE  history[Capacity] >= Window + 1
        OBVIOUS
      <3>2. Capacity \in k + 1 .. Len(history)
        BY <1>5, <1>6, <1>7, <3>1, ConfigFacts
      <3>3. history[Capacity] > Window /\ history[Capacity] \in 0 .. Horizon
        BY <1>1, <1>4, <1>5, <3>2, ElementOfSeq, ConfigFacts
      <3>4. QED
        BY <3>3, ConfigFacts
    <2>8. QED
      BY <1>7, <2>1, <2>4, <2>5, <2>6, <2>7 DEF DequeIsLatest, TypeOK, live
  <1>8. CASE ~HasRoom(live)
    <2>1. calls' = live /\ history' = history
      BY <1>8 DEF Pass, live
    <2>2. Len(live) \in 1 .. Len(live) /\ live[Len(live)] \in 0 .. Window
      BY <1>1, <1>2, <1>3, <1>5, <1>6, <1>8, ElementOfSeq, ConfigFacts
    <2>3. Max({1, Window - live[Len(live)]}) \in 0 .. Window
      <3> DEFINE S == {1, Window - live[Len(live)]}
      <3>1. S \in SUBSET Nat /\ S # {} /\ \A x \in S : x <= Window
        BY <2>2, ConfigFacts
      <3> HIDE DEF S
      <3>2. Max(S) \in S
        BY <3>1, MaxOfNumbers, ConfigFacts
      <3>3. QED
        BY <3>1, <3>2, ConfigFacts DEF S
    <2>4. /\ caller' \in [Callers -> {"idle", "running", "refused", "asleep"}]
          /\ caller'[c] # "running"
          /\ \A d \in Callers \ {c} : caller'[d] = caller[d]
      BY <1>8 DEF Pass, TypeOK, live
    <2>5. left' \in [Callers -> 0 .. Window]
      <3>1. CASE raises
        BY <1>8, <3>1 DEF Pass, TypeOK, live
      <3>2. CASE ~raises
        BY <1>8, <2>3, <3>2 DEF Pass, TypeOK, live
      <3>3. QED
        BY <3>1, <3>2
    <2>6. TypeOK'
      BY <1>3, <2>1, <2>4, <2>5 DEF TypeOK
    <2>7. DequeIsLatest'
      <3>1. Len(calls') = k /\ DOMAIN history' = 1 .. Len(history)
        BY <1>3, <1>5, <2>1
      <3>2. ASSUME NEW i \in 1 .. Len(history)
            PROVE  IF i <= k THEN calls'[i] = history'[i]
                             ELSE history'[i] > Window
        BY <1>3, <1>4, <1>5, <2>1
      <3>3. QED
        BY <1>5, <2>1, <3>1, <3>2, ConfigFacts DEF DequeIsLatest
    <2>8. QED
      BY <1>8, <2>4, <2>6, <2>7 DEF live
  <1>9. QED
    BY <1>7, <1>8

\* The clock preserves the invariant.
LEMMA TickKeeps == TypeOK /\ DequeIsLatest /\ Tick => TypeOK' /\ DequeIsLatest'
  <1> SUFFICES ASSUME TypeOK, DequeIsLatest, Tick PROVE TypeOK' /\ DequeIsLatest'
    OBVIOUS
  <1>1. calls' = Older(calls) /\ history' = Older(history)
    BY DEF Tick
  <1>2. calls \in Seq(0 .. Horizon) /\ history \in Seq(0 .. Horizon)
    BY DEF TypeOK
  <1>3. left' \in [Callers -> 0 .. Window]
    BY ConfigFacts DEF Tick, TypeOK
  <1>4. TypeOK'
    BY <1>1, <1>2, <1>3, OlderAges DEF Tick, TypeOK
  <1>5. /\ Len(calls') = Len(calls) /\ Len(history') = Len(history)
        /\ DOMAIN history' = DOMAIN history
    BY <1>1, <1>2, OlderAges
  <1>6. ASSUME NEW i \in DOMAIN history
        PROVE  IF i <= Len(calls) THEN calls'[i] = history'[i]
                                  ELSE history'[i] > Window
    <2>1. /\ DOMAIN calls = 1 .. Len(calls) /\ DOMAIN history = 1 .. Len(history)
          /\ Len(calls) \in Nat /\ Len(history) \in Nat
      BY <1>2, LenProperties
    <2>2. CASE i <= Len(calls)
      <3>1. i \in DOMAIN calls /\ calls[i] = history[i]
        BY <2>1, <2>2 DEF DequeIsLatest
      <3>2. QED
        BY <1>1, <1>2, <2>2, <3>1, OlderAges
    <2>3. CASE ~(i <= Len(calls))
      BY <1>1, <1>2, <2>3, OlderAges DEF DequeIsLatest
    <2>4. QED
      BY <2>2, <2>3
  <1>7. QED
    BY <1>4, <1>5, <1>6 DEF DequeIsLatest

\* Every step preserves the invariant and spaces the calls.
LEMMA StepKeeps ==
    TypeOK /\ DequeIsLatest /\ [Next]_vars
        => TypeOK' /\ DequeIsLatest' /\ Spaced(Capacity, Window + 1)
  <1> SUFFICES ASSUME TypeOK, DequeIsLatest, [Next]_vars
               PROVE  TypeOK' /\ DequeIsLatest' /\ Spaced(Capacity, Window + 1)
    OBVIOUS
  <1>1. CASE Tick
    BY <1>1, TickKeeps DEF Tick, Spaced, Admission
  <1>2. ASSUME NEW c \in Callers, Pass(c), UNCHANGED raises
        PROVE  TypeOK' /\ DequeIsLatest' /\ Spaced(Capacity, Window + 1)
    BY <1>2, PassKeeps DEF Spaced, Admission
  <1>3. ASSUME NEW c \in Callers, Return(c)
        PROVE  TypeOK' /\ DequeIsLatest' /\ Spaced(Capacity, Window + 1)
    BY <1>3 DEF Return, TypeOK, DequeIsLatest, Spaced, Admission
  <1>4. CASE UNCHANGED vars
    BY <1>4 DEF vars, TypeOK, DequeIsLatest, Spaced, Admission
  <1>5. QED
    BY <1>1, <1>2, <1>3, <1>4 DEF Next, Call, Wake

\* The variables are well-typed in every execution.
THEOREM TypeCorrect == Spec => []TypeOK
  BY InitIsLatest, StepKeeps, PTL DEF Spec

\* The deque never forgets a call of the last window and never holds more than
\* Capacity calls.
THEOREM DequeHoldsTheWindow == Spec => []DequeIsLatest
  BY InitIsLatest, StepKeeps, PTL DEF Spec

\* Whatever the interleaving of callers and sleepers, no closed window of one
\* second admits more calls than the rate rounded up.
THEOREM WindowLimitHolds == Spec => WindowIsLimited
  <1>1. TypeOK /\ DequeIsLatest /\ [Next]_vars => [Spaced(Capacity, Window + 1)]_vars
    BY StepKeeps
  <1>2. QED
    BY <1>1, InitIsLatest, StepKeeps, PTL DEF Spec, WindowIsLimited
=============================================================================
