-------------------------- MODULE RunStream_proofs --------------------------
(***************************************************************************)
(* Proofs about RunStream, for every set of clients and every limit.        *)
(*                                                                         *)
(* The inductive invariant says what a queue holds: a run of consecutive    *)
(* ids, low + 1 up to top, where low is no older than the last event the    *)
(* client received and top is the newest event (of the run, or of the time  *)
(* the stream was closed), followed by the sentinel once it is closed.      *)
(* SeenInOrder is not inductive without it: the next event delivered is     *)
(* new because it lies in such a run.                                       *)
(***************************************************************************)
EXTENDS RunStream, SequenceTheorems, FiniteSetTheorems,
        WellFoundedInduction, TLAPS

----------------------------------------------------------------------------
(* What the operations on queues and history keep.                          *)

\* What Append does to a sequence of ids, with the last entry at its index.
LEMMA AppendId ==
    ASSUME NEW q \in Seq(Nat), NEW x \in Nat
    PROVE  /\ Append(q, x) \in Seq(Nat)
           /\ Len(q) \in Nat
           /\ Len(Append(q, x)) = Len(q) + 1
           /\ \A i \in 1 .. Len(q) : Append(q, x)[i] = q[i]
           /\ Append(q, x)[Len(Append(q, x))] = x
BY AppendProperties, LenProperties

\* A run and the next id make a longer run.
LEMMA AppendKeepsRun ==
    ASSUME NEW q, NEW top \in Nat, NEW low \in 0 .. top, IsRun(q, low, top)
    PROVE  IsRun(Append(q, top + 1), low, top + 1)
<1>1. /\ Append(q, top + 1) \in Seq(Nat)
      /\ Len(q) = top - low
      /\ Len(Append(q, top + 1)) = Len(q) + 1
      /\ \A i \in 1 .. Len(q) : Append(q, top + 1)[i] = low + i
      /\ Append(q, top + 1)[Len(q) + 1] = top + 1
  BY AppendId DEF IsRun
<1>2. \A i \in 1 .. Len(Append(q, top + 1)) : Append(q, top + 1)[i] = low + i
  BY <1>1
<1> QED BY <1>1, <1>2 DEF IsRun

\* A run loses its oldest id.
LEMMA TailKeepsRun ==
    ASSUME NEW q, NEW top \in Nat, NEW low \in 0 .. top, IsRun(q, low, top),
           q # <<>>
    PROVE  /\ low + 1 \in 0 .. top
           /\ Head(q) = low + 1
           /\ IsRun(Tail(q), low + 1, top)
<1>1. /\ Tail(q) \in Seq(Nat)
      /\ Len(Tail(q)) = Len(q) - 1
      /\ \A i \in 1 .. Len(Tail(q)) : Tail(q)[i] = q[i + 1]
      /\ Head(q) = q[1]
      /\ Len(q) \in Nat
      /\ Len(q) # 0
  BY HeadTailProperties, EmptySeq, LenProperties DEF IsRun
<1> QED BY <1>1 DEF IsRun

\* Offering the next id to a queue keeps it a run and loses at most its oldest
\* entry, and none when queues are unbounded (publish, runs.py:114-127).
LEMMA OfferKeepsRun ==
    ASSUME NEW q, NEW top \in Nat, NEW low \in 0 .. top, IsRun(q, low, top),
           MaxQueue # 0 => Len(q) <= MaxQueue
    PROVE  \E newLow \in low .. top :
               /\ IsRun(Offer(q, top + 1), newLow, top + 1)
               /\ MaxQueue = 0 => newLow = low
               /\ newLow # low => Len(Offer(q, top + 1)) = MaxQueue
               /\ MaxQueue # 0 => Len(Offer(q, top + 1)) <= MaxQueue
<1>1. CASE ~Full(q)
  <2>1. Offer(q, top + 1) = Append(q, top + 1)
    BY <1>1 DEF Offer
  <2>2. IsRun(Offer(q, top + 1), low, top + 1)
    BY <2>1, AppendKeepsRun
  <2>3. MaxQueue # 0 => Len(Offer(q, top + 1)) <= MaxQueue
    BY <1>1, <2>1, AppendProperties, BoundsAreNat DEF Full, IsRun
  <2> QED BY <2>2, <2>3
<1>2. CASE Full(q)
  <2>1. Offer(q, top + 1) = Append(Tail(q), top + 1)
    BY <1>2 DEF Offer
  <2>2. q \in Seq(Nat) /\ q # <<>> /\ Len(q) = MaxQueue /\ MaxQueue # 0
    BY <1>2, BoundsAreNat DEF Full, IsRun
  <2>3. low + 1 \in 0 .. top /\ IsRun(Tail(q), low + 1, top)
    BY <2>2, TailKeepsRun
  <2>4. IsRun(Offer(q, top + 1), low + 1, top + 1)
    BY <2>1, <2>3, AppendKeepsRun
  <2>5. low + 1 \in low .. top
    BY <2>2, BoundsAreNat DEF IsRun
  <2>6. Len(Offer(q, top + 1)) = MaxQueue
    BY <2>2, <2>4 DEF IsRun
  <2> QED BY <2>2, <2>4, <2>5, <2>6
<1> QED BY <1>1, <1>2

\* Offering the sentinel closes a run; what a full queue loses for it is its
\* oldest entry (mark_done and subscribe, runs.py:164-174, 194-205).
LEMMA OfferSentinelClosesRun ==
    ASSUME NEW q, NEW top \in Nat, NEW low \in 0 .. top, IsRun(q, low, top),
           MaxQueue # 0 => Len(q) <= MaxQueue
    PROVE  \E newLow \in low .. top :
               /\ IsClosedRun(Offer(q, Sentinel), newLow, top)
               /\ MaxQueue = 0 => newLow = low
               /\ newLow # low => Len(Offer(q, Sentinel)) = MaxQueue
               /\ MaxQueue # 0 => Len(Offer(q, Sentinel)) <= MaxQueue
<1>0. Sentinel \in Nat
  BY DEF Sentinel
<1>1. CASE ~Full(q)
  <2>1. Offer(q, Sentinel) = Append(q, Sentinel)
    BY <1>1 DEF Offer
  <2>2. IsClosedRun(Offer(q, Sentinel), low, top)
    BY <1>0, <2>1, AppendProperties DEF IsRun, IsClosedRun
  <2>3. MaxQueue # 0 => Len(Offer(q, Sentinel)) <= MaxQueue
    BY <1>0, <1>1, <2>1, AppendProperties, BoundsAreNat DEF Full, IsRun
  <2> QED BY <2>2, <2>3
<1>2. CASE Full(q)
  <2>1. Offer(q, Sentinel) = Append(Tail(q), Sentinel)
    BY <1>2 DEF Offer
  <2>2. q \in Seq(Nat) /\ q # <<>> /\ Len(q) = MaxQueue /\ MaxQueue # 0
    BY <1>2, BoundsAreNat DEF Full, IsRun
  <2>3. /\ Tail(q) \in Seq(Nat)
        /\ Len(Tail(q)) = Len(q) - 1
        /\ \A i \in 1 .. Len(Tail(q)) : Tail(q)[i] = q[i + 1]
    BY <2>2, HeadTailProperties
  <2>4. IsClosedRun(Offer(q, Sentinel), low + 1, top)
    <3>1. Len(q) = top - low
      BY DEF IsRun
    <3>2. \A i \in 1 .. Len(Tail(q)) : Tail(q)[i] = low + 1 + i
      BY <2>2, <2>3 DEF IsRun
    <3> QED BY <1>0, <2>1, <2>3, <3>1, <3>2, AppendProperties DEF IsClosedRun
  <2>5. low + 1 \in low .. top
    BY <2>2, BoundsAreNat DEF IsRun
  <2>6. Len(Offer(q, Sentinel)) = MaxQueue
    BY <1>0, <2>1, <2>2, <2>3, AppendProperties, BoundsAreNat
  <2> QED BY <2>2, <2>4, <2>5, <2>6
<1> QED BY <1>1, <1>2

\* History is a run that ends with the last id, and publishing keeps it so; it
\* is never empty after a publish (runs.py:105-113).
LEMMA RetainKeepsRun ==
    ASSUME NEW h, NEW top \in Nat, NEW low \in 0 .. top, IsRun(h, low, top),
           MaxHistory # 0 => Len(h) <= MaxHistory
    PROVE  \E newLow \in low .. top :
               /\ IsRun(Retain(h, top + 1), newLow, top + 1)
               /\ MaxHistory = 0 => newLow = low
               /\ newLow # low => Len(Retain(h, top + 1)) = MaxHistory
               /\ MaxHistory # 0 => Len(Retain(h, top + 1)) <= MaxHistory
<1>1. /\ IsRun(Append(h, top + 1), low, top + 1)
      /\ Append(h, top + 1) # <<>>
      /\ Len(Append(h, top + 1)) = Len(h) + 1
      /\ Len(h) \in Nat
      /\ Len(h) = top - low
  <2>1. h \in Seq(Nat) /\ Len(h) = top - low /\ top + 1 \in Nat
    BY DEF IsRun
  <2>2. Append(h, top + 1) # <<>>
    BY <2>1, AppendProperties
  <2> QED BY <2>1, <2>2, AppendKeepsRun, AppendId
<1>2. CASE MaxHistory # 0 /\ Len(h) + 1 > MaxHistory
  <2>1. Retain(h, top + 1) = Tail(Append(h, top + 1)) /\ Len(h) = MaxHistory
    BY <1>1, <1>2, BoundsAreNat DEF Retain
  <2>2. low + 1 \in 0 .. top + 1 /\ IsRun(Retain(h, top + 1), low + 1, top + 1)
    <3>1. top + 1 \in Nat /\ low \in 0 .. top + 1
      OBVIOUS
    <3>2. IsRun(Tail(Append(h, top + 1)), low + 1, top + 1)
      BY <1>1, <3>1, TailKeepsRun
    <3>3. low + 1 \in 0 .. top + 1
      OBVIOUS
    <3> QED BY <2>1, <3>2, <3>3
  <2>3. low + 1 \in low .. top
    BY <1>1, <1>2, <2>1, BoundsAreNat
  <2>4. Len(Retain(h, top + 1)) = MaxHistory
    BY <1>1, <2>1, <2>2 DEF IsRun
  <2> QED BY <1>2, <2>2, <2>3, <2>4
<1>3. CASE ~(MaxHistory # 0 /\ Len(h) + 1 > MaxHistory)
  <2>1. Retain(h, top + 1) = Append(h, top + 1)
    BY <1>3 DEF Retain
  <2>2. MaxHistory # 0 => Len(Retain(h, top + 1)) <= MaxHistory
    BY <1>1, <1>3, <2>1, BoundsAreNat
  <2>3. low \in low .. top
    OBVIOUS
  <2> QED BY <1>1, <2>1, <2>2, <2>3
<1> QED BY <1>2, <1>3

\* In a run from low, the ids newer than lastId start right behind it.
LEMMA FirstAfterInRun ==
    ASSUME NEW h, NEW top \in Nat, NEW low \in 0 .. top, IsRun(h, low, top),
           NEW lastId \in 0 .. top
    PROVE  FirstAfter(h, lastId) = IF lastId <= low THEN 1 ELSE lastId - low + 1
<1> DEFINE first == IF lastId <= low THEN 1 ELSE lastId - low + 1
<1> DEFINE Splits(k) == /\ \A i \in 1 .. k - 1 : h[i] <= lastId
                        /\ \A i \in k .. Len(h) : h[i] > lastId
<1>1. first \in 1 .. Len(h) + 1
  BY DEF IsRun
<1>2. Splits(first)
  BY DEF IsRun
<1>3. \A k \in 1 .. Len(h) + 1 : Splits(k) => k = first
  <2> SUFFICES ASSUME NEW k \in 1 .. Len(h) + 1, Splits(k), k # first
               PROVE  FALSE
    OBVIOUS
  <2>1. Len(h) = top - low /\ \A i \in 1 .. Len(h) : h[i] = low + i
    BY DEF IsRun
  <2>2. CASE k < first
    <3>1. k \in k .. Len(h) /\ k \in 1 .. first - 1
      BY <1>1, <2>1, <2>2
    <3>2. h[k] > lastId /\ h[k] <= lastId
      BY <1>2, <3>1
    <3>3. h[k] = low + k
      BY <2>1, <3>1
    <3> QED BY <3>2, <3>3
  <2>3. CASE k > first
    <3>1. first \in first .. Len(h) /\ first \in 1 .. k - 1
      BY <1>1, <2>1, <2>3
    <3>2. h[first] > lastId /\ h[first] <= lastId
      BY <1>2, <3>1
    <3>3. h[first] = low + first
      BY <1>1, <2>1, <3>1
    <3> QED BY <1>1, <3>2, <3>3
  <2> QED BY <1>1, <2>1, <2>2, <2>3
<1>4. FirstAfter(h, lastId) = CHOOSE k \in 1 .. Len(h) + 1 : Splits(k)
  BY DEF FirstAfter
<1>5. FirstAfter(h, lastId) \in 1 .. Len(h) + 1 /\ Splits(FirstAfter(h, lastId))
  <2> HIDE DEF Splits, first
  <2> QED BY <1>1, <1>2, <1>4
<1>6. FirstAfter(h, lastId) = first
  <2> HIDE DEF Splits, first
  <2> QED BY <1>3, <1>5
<1> QED BY <1>6

\* The newest entries of a run are a run.
LEMMA NewestKeepsRun ==
    ASSUME NEW s, NEW top \in Nat, NEW low \in 0 .. top, IsRun(s, low, top)
    PROVE  \E newLow \in low .. top :
               /\ IsRun(Newest(s), newLow, top)
               /\ MaxQueue = 0 => newLow = low
               /\ newLow # low => Len(Newest(s)) = MaxQueue
               /\ MaxQueue # 0 => Len(Newest(s)) <= MaxQueue
<1>1. s \in Seq(Nat) /\ Len(s) = top - low /\ \A i \in 1 .. Len(s) : s[i] = low + i
  BY DEF IsRun
<1>2. CASE MaxQueue # 0 /\ Len(s) > MaxQueue
  <2> DEFINE m == Len(s) - MaxQueue + 1
  <2>1. m \in Int /\ Len(s) \in Int /\ m \in 1 .. Len(s)
    BY <1>1, <1>2, BoundsAreNat
  <2>2. \A i \in m .. Len(s) : s[i] \in Nat
    BY <1>1, <2>1
  <2>3. /\ SubSeq(s, m, Len(s)) \in Seq(Nat)
        /\ Len(SubSeq(s, m, Len(s))) = Len(s) - m + 1
        /\ \A i \in 1 .. Len(s) - m + 1 : SubSeq(s, m, Len(s))[i] = s[m + i - 1]
    <3> HIDE DEF m
    <3> QED BY <2>1, <2>2, SubSeqProperties
  <2>4. Newest(s) = SubSeq(s, m, Len(s))
    BY <1>2 DEF Newest
  <2>5. Len(Newest(s)) = MaxQueue
    BY <2>3, <2>4, <1>1, BoundsAreNat
  <2>6. IsRun(Newest(s), top - MaxQueue, top)
    <3>1. \A i \in 1 .. Len(Newest(s)) : Newest(s)[i] = top - MaxQueue + i
      <4> SUFFICES ASSUME NEW i \in 1 .. MaxQueue
                   PROVE  SubSeq(s, m, Len(s))[i] = top - MaxQueue + i
        BY <2>4, <2>5
      <4>1. m + i - 1 \in 1 .. Len(s)
        BY <1>1, <1>2, BoundsAreNat
      <4> QED BY <1>1, <2>3, <4>1, BoundsAreNat
    <3>2. Newest(s) \in Seq(Nat)
      BY <2>3, <2>4
    <3>3. Len(Newest(s)) = top - (top - MaxQueue)
      BY <2>5, BoundsAreNat
    <3> QED BY <3>1, <3>2, <3>3 DEF IsRun
  <2>7. top - MaxQueue \in low .. top
    BY <1>1, <1>2, BoundsAreNat
  <2> QED BY <1>2, <2>5, <2>6, <2>7, BoundsAreNat
<1>3. CASE ~(MaxQueue # 0 /\ Len(s) > MaxQueue)
  BY <1>1, <1>3, BoundsAreNat DEF Newest
<1> QED BY <1>2, <1>3

\* What subscribe replays is the newest part of a run: the ids of the history
\* that come after lastId.
LEMMA BacklogIsNewest ==
    ASSUME NEW h, NEW top \in Nat, NEW low \in 0 .. top, IsRun(h, low, top),
           NEW lastId \in 0 .. top
    PROVE  \E newer :
               /\ Backlog(h, lastId) = Newest(newer)
               /\ IsRun(newer, IF lastId <= low THEN low ELSE lastId, top)
<1> DEFINE start == FirstAfter(h, lastId)
           newer == SubSeq(h, start, Len(h))
           low1 == IF lastId <= low THEN low ELSE lastId
<1>1. start = IF lastId <= low THEN 1 ELSE lastId - low + 1
  BY FirstAfterInRun
<1>2. h \in Seq(Nat) /\ Len(h) = top - low /\ \A i \in 1 .. Len(h) : h[i] = low + i
  BY DEF IsRun
<1>3. start \in Int /\ Len(h) \in Int /\ start \in 1 .. Len(h) + 1
  BY <1>1, <1>2
<1>4. \A i \in start .. Len(h) : h[i] \in Nat
  BY <1>2, <1>3
<1>5. /\ newer \in Seq(Nat)
      /\ Len(newer) = IF start <= Len(h) THEN Len(h) - start + 1 ELSE 0
      /\ \A i \in 1 .. Len(h) - start + 1 : newer[i] = h[start + i - 1]
  <2> HIDE DEF start
  <2> QED BY <1>3, <1>4, SubSeqProperties
<1>6. IsRun(newer, low1, top)
  <2>1. Len(newer) = top - low1
    BY <1>1, <1>2, <1>5
  <2>2. \A i \in 1 .. Len(newer) : newer[i] = low1 + i
    BY <1>1, <1>2, <1>5, <2>1
  <2> HIDE DEF newer, low1
  <2> QED BY <1>5, <2>1, <2>2 DEF IsRun
<1>7. Backlog(h, lastId) = Newest(newer)
  BY DEF Backlog
<1> HIDE DEF newer
<1> QED BY <1>6, <1>7

\* What subscribe replays is a run that ends with the newest event, holds
\* nothing the client has, and is empty only if the client has it all
\* (runs.py:150-163).
LEMMA BacklogIsRun ==
    ASSUME NEW h, NEW top \in Nat, NEW low \in 0 .. top, IsRun(h, low, top),
           NEW lastId \in 0 .. top
    PROVE  \E newLow \in lastId .. top :
               /\ IsRun(Backlog(h, lastId), newLow, top)
               /\ (MaxQueue = 0 /\ low = 0) => newLow = lastId
               /\ (newLow # lastId /\ newLow # low) =>
                      Len(Backlog(h, lastId)) = MaxQueue /\ MaxQueue # 0
               /\ MaxQueue # 0 => Len(Backlog(h, lastId)) <= MaxQueue
<1> DEFINE low1 == IF lastId <= low THEN low ELSE lastId
<1>1. PICK newer : Backlog(h, lastId) = Newest(newer) /\ IsRun(newer, low1, top)
  BY BacklogIsNewest
<1>2. low1 \in 0 .. top /\ low1 \in lastId .. top
  OBVIOUS
<1>3. PICK newLow \in low1 .. top :
          /\ IsRun(Newest(newer), newLow, top)
          /\ MaxQueue = 0 => newLow = low1
          /\ newLow # low1 => Len(Newest(newer)) = MaxQueue
          /\ MaxQueue # 0 => Len(Newest(newer)) <= MaxQueue
  <2> HIDE DEF low1
  <2> QED BY <1>1, <1>2, NewestKeepsRun
<1>4. newLow \in lastId .. top
  BY <1>2, <1>3
<1>5. newLow # low1 => MaxQueue # 0
  BY <1>3
<1>6. low = 0 => low1 = lastId
  BY <1>2
<1>7. low1 = lastId \/ low1 = low
  OBVIOUS
<1> HIDE DEF low1
<1> QED BY <1>1, <1>3, <1>4, <1>5, <1>6, <1>7

----------------------------------------------------------------------------
(* The loop of subscribe and the closed form Backlog are the same queue.     *)
(*                                                                           *)
(* The loop is a recursive function over the retained events.  It is         *)
(* compared with a function given in closed form: that one satisfies the     *)
(* recursion, so the recursion has a solution, and two functions that        *)
(* satisfy it agree, or they would differ at a least index.                  *)

\* The sequence low + 1 .. top of ids, the only run with these ends.
Ids(low, top) == [i \in 1 .. top - low |-> low + i]

\* A run is given by its ends.
LEMMA RunIsIds ==
    ASSUME NEW top \in Nat, NEW low \in 0 .. top
    PROVE  /\ IsRun(Ids(low, top), low, top)
           /\ \A q : IsRun(q, low, top) => q = Ids(low, top)
<1>1. top - low \in Nat /\ \A i \in 1 .. top - low : low + i \in Nat
  OBVIOUS
<1>2. /\ Ids(low, top) \in Seq(Nat) /\ Len(Ids(low, top)) = top - low
      /\ \A i \in 1 .. top - low : Ids(low, top)[i] = low + i
  <2>1. Ids(low, top) \in [1 .. top - low -> Nat]
    BY <1>1 DEF Ids
  <2>2. Ids(low, top) \in Seq(Nat)
    BY <1>1, <2>1
  <2> QED BY <1>1, <2>1, <2>2 DEF Ids
<1>3. IsRun(Ids(low, top), low, top)
  BY <1>2 DEF IsRun
<1>4. ASSUME NEW q, IsRun(q, low, top) PROVE q = Ids(low, top)
  BY <1>2, <1>4, SeqEqual DEF IsRun
<1> QED BY <1>3, <1>4

\* The queue made of the ids above base up to top: all of them, or the newest
\* MaxQueue.
Held(base, top) ==
    Ids(IF MaxQueue # 0 /\ top - base > MaxQueue THEN top - MaxQueue ELSE base, top)

\* Offering the next id to such a queue gives the next such queue.
LEMMA OfferToHeld ==
    ASSUME NEW top \in Nat, NEW base \in 0 .. top
    PROVE  Offer(Held(base, top), top + 1) = Held(base, top + 1)
<1> DEFINE low == IF MaxQueue # 0 /\ top - base > MaxQueue THEN top - MaxQueue ELSE base
           q == Ids(low, top)
<1>1. low \in 0 .. top
  BY BoundsAreNat
<1>2. IsRun(q, low, top) /\ q \in Seq(Nat) /\ Len(q) = top - low
  <2> HIDE DEF low
  <2> QED BY <1>1, RunIsIds DEF IsRun
<1>3. Held(base, top) = q
  BY DEF Held
<1>4. CASE ~Full(q)
  <2>1. IsRun(Offer(q, top + 1), low, top + 1)
    <3> HIDE DEF low, q
    <3> QED BY <1>1, <1>2, <1>4, AppendKeepsRun DEF Offer
  <2>2. MaxQueue = 0 \/ top - low < MaxQueue
    BY <1>2, <1>4, BoundsAreNat DEF Full
  <2>3. Held(base, top + 1) = Ids(low, top + 1)
    BY <2>2, BoundsAreNat DEF Held
  <2>4. top + 1 \in Nat /\ low \in 0 .. top + 1
    BY <1>1
  <2> HIDE DEF low, q
  <2> QED BY <1>3, <2>1, <2>3, <2>4, RunIsIds
<1>5. CASE Full(q)
  <2>1. MaxQueue # 0 /\ top - low = MaxQueue /\ Len(q) # 0
    BY <1>2, <1>5, BoundsAreNat DEF Full
  <2>2. low + 1 \in 0 .. top /\ IsRun(Tail(q), low + 1, top)
    <3> HIDE DEF low, q
    <3> QED BY <1>1, <1>2, <2>1, TailKeepsRun, EmptySeq
  <2>3. IsRun(Offer(q, top + 1), low + 1, top + 1)
    <3> HIDE DEF low, q
    <3> QED BY <1>5, <2>2, AppendKeepsRun DEF Offer
  <2>4. Held(base, top + 1) = Ids(low + 1, top + 1)
    BY <2>1, BoundsAreNat DEF Held
  <2>5. top + 1 \in Nat /\ low + 1 \in 0 .. top + 1
    BY <1>1
  <2> HIDE DEF low, q
  <2> QED BY <1>3, <2>3, <2>4, <2>5, RunIsIds
<1> QED BY <1>4, <1>5

\* The loop offers the ids of a run that are newer than lastId, one by one.
LEMMA LoopHolds ==
    ASSUME NEW h, NEW top \in Nat, NEW low \in 0 .. top, IsRun(h, low, top),
           NEW lastId \in Nat
    PROVE  BacklogLoop(h, lastId) =
               IF lastId <= low THEN Held(low, top)
               ELSE IF lastId <= top THEN Held(lastId, top) ELSE <<>>
<1> DEFINE base == IF lastId <= low THEN low ELSE lastId
           closed == [i \in 0 .. Len(h) |->
                         IF low + i <= base THEN <<>> ELSE Held(base, low + i)]
           Solves(f) == f = [i \in 0 .. Len(h) |->
                                IF i = 0 THEN <<>>
                                ELSE IF h[i] > lastId THEN Offer(f[i - 1], h[i])
                                ELSE f[i - 1]]
           queued == CHOOSE f : Solves(f)
<1>1. /\ Len(h) = top - low /\ Len(h) \in Nat
      /\ \A i \in 1 .. Len(h) : h[i] = low + i
  BY DEF IsRun
<1>2. base \in Nat /\ low <= base /\ base >= lastId
  OBVIOUS
<1>3. Held(base, base) = <<>>
  <2> HIDE DEF base
  <2>1. Held(base, base) = Ids(base, base)
    BY <1>2, BoundsAreNat DEF Held
  <2>2. base \in 0 .. base
    BY <1>2
  <2>3. IsRun(Ids(base, base), base, base)
    BY ONLY <1>2, <2>2, RunIsIds
  <2> QED BY <1>2, <2>1, <2>3, EmptySeq DEF IsRun
<1>4. Solves(closed)
  <2>1. ASSUME NEW i \in 1 .. Len(h), low + i <= base
        PROVE  closed[i] = closed[i - 1] /\ ~(h[i] > lastId)
    <3>1. i - 1 \in 0 .. Len(h) /\ low + (i - 1) <= base /\ h[i] = low + i
      BY <1>1, <1>2, <2>1
    <3>2. ~(h[i] > lastId)
      BY <1>1, <2>1
    <3> HIDE DEF base
    <3> QED BY <2>1, <3>1, <3>2
  <2>2. ASSUME NEW i \in 1 .. Len(h), low + i > base
        PROVE  closed[i] = Offer(closed[i - 1], h[i]) /\ h[i] > lastId
    <3> DEFINE prev == low + (i - 1)
    <3>1. /\ i - 1 \in 0 .. Len(h) /\ i \in 0 .. Len(h) /\ h[i] = prev + 1
          /\ prev \in Nat /\ base \in 0 .. prev /\ prev + 1 = low + i
      <4> HIDE DEF base
      <4> QED BY <1>1, <1>2, <2>2
    <3>2. closed[i - 1] = Held(base, prev)
      <4> HIDE DEF base
      <4>1. CASE prev <= base
        <5>1. prev = base
          BY <3>1, <4>1
        <5> QED BY <1>3, <3>1, <4>1, <5>1
      <4>2. CASE ~(prev <= base)
        BY <3>1, <4>2
      <4> QED BY <4>1, <4>2
    <3>3. closed[i] = Held(base, prev + 1)
      <4> HIDE DEF base
      <4> QED BY <2>2, <3>1
    <3>4. Offer(Held(base, prev), prev + 1) = Held(base, prev + 1)
      <4> HIDE DEF base, prev
      <4> QED BY ONLY <3>1, OfferToHeld
    <3>5. h[i] > lastId
      <4> HIDE DEF base
      <4> QED BY <1>1, <1>2, <2>2
    <3> HIDE DEF closed, base, prev
    <3> QED BY <3>1, <3>2, <3>3, <3>4, <3>5
  <2>3. closed[0] = <<>>
    <3> HIDE DEF base
    <3> QED BY <1>1, <1>2
  <2>4. ASSUME NEW i \in 0 .. Len(h)
        PROVE  closed[i] = IF i = 0 THEN <<>>
                           ELSE IF h[i] > lastId THEN Offer(closed[i - 1], h[i])
                           ELSE closed[i - 1]
    <3>1. CASE i = 0
      BY <2>3, <3>1
    <3>2. CASE i # 0
      <4>1. i \in 1 .. Len(h)
        BY <1>1, <3>2
      <4>2. low + i <= base \/ low + i > base
        <5> HIDE DEF base
        <5> QED BY <1>2, <4>1
      <4> HIDE DEF closed, base
      <4> QED BY <2>1, <2>2, <3>2, <4>1, <4>2
    <3> QED BY <3>1, <3>2
  <2>5. closed = [i \in 0 .. Len(h) |-> closed[i]]
    OBVIOUS
  <2> HIDE DEF closed
  <2> QED BY <2>4, <2>5
<1>5. Solves(queued)
  <2> HIDE DEF closed, Solves
  <2> QED BY <1>4
<1>6. queued[Len(h)] = closed[Len(h)]
  <2> DEFINE differ == {i \in 0 .. Len(h) : queued[i] # closed[i]}
             R == OpToRel(<, Nat)
  <2>0. Len(h) \in 0 .. Len(h)
    BY <1>1
  <2>1. SUFFICES ASSUME differ # {} PROVE FALSE
    <3> HIDE DEF queued, closed
    <3> QED BY <2>0
  <2>2. differ \subseteq Nat
    BY <1>1
  <2>3. PICK m \in differ : \A i \in differ : <<i, m>> \notin R
    <3> HIDE DEF differ, R
    <3>1. IsWellFoundedOn(R, Nat)
      BY NatLessThanWellFounded DEF R
    <3> QED BY <2>1, <2>2, <3>1, WFMin
  <2>4. m \in 0 .. Len(h) /\ queued[m] # closed[m]
    OBVIOUS
  <2> HIDE DEF queued, closed
  <2>5. queued[0] = <<>> /\ closed[0] = <<>>
    <3>1. 0 \in 0 .. Len(h)
      BY <1>1
    <3> QED BY <1>4, <1>5, <3>1
  <2>6. m # 0 /\ m - 1 \in 0 .. Len(h) /\ m - 1 \in Nat /\ m \in Nat /\ m - 1 < m
    BY <1>1, <2>4, <2>5
  <2>7. <<m - 1, m>> \in R
    BY <2>6 DEF OpToRel
  <2>8. queued[m - 1] = closed[m - 1]
    BY <2>3, <2>6, <2>7
  <2>9. \A f : Solves(f) => f[m] = IF h[m] > lastId THEN Offer(f[m - 1], h[m])
                                   ELSE f[m - 1]
    BY <2>4, <2>6
  <2> HIDE DEF Solves
  <2> QED BY <1>4, <1>5, <2>4, <2>8, <2>9
<1>7. BacklogLoop(h, lastId) = queued[Len(h)]
  BY DEF BacklogLoop
<1>8. closed[Len(h)] = IF top <= base THEN <<>> ELSE Held(base, top)
  <2>1. Len(h) \in 0 .. Len(h) /\ low + Len(h) = top
    BY <1>1
  <2> HIDE DEF base
  <2> QED BY <2>1
<1> HIDE DEF queued, closed
<1> QED BY <1>3, <1>6, <1>7, <1>8

\* Replaying from past the newest event replays nothing.
LEMMA NothingAfterNewest ==
    ASSUME NEW h, NEW top \in Nat, NEW low \in 0 .. top, IsRun(h, low, top),
           NEW lastId \in Nat, lastId > top
    PROVE  Backlog(h, lastId) = <<>>
<1> DEFINE Splits(k) == /\ \A i \in 1 .. k - 1 : h[i] <= lastId
                        /\ \A i \in k .. Len(h) : h[i] > lastId
<1>1. /\ h \in Seq(Nat) /\ Len(h) \in Nat /\ Len(h) = top - low
      /\ \A i \in 1 .. Len(h) : h[i] = low + i /\ h[i] <= lastId
  BY DEF IsRun
<1>2. Len(h) + 1 \in 1 .. Len(h) + 1 /\ Splits(Len(h) + 1)
  BY <1>1
<1>3. \A k \in 1 .. Len(h) + 1 : Splits(k) => k = Len(h) + 1
  <2> SUFFICES ASSUME NEW k \in 1 .. Len(h) + 1, Splits(k), k # Len(h) + 1
               PROVE  FALSE
    OBVIOUS
  <2>1. k \in k .. Len(h) /\ k \in 1 .. Len(h)
    BY <1>1
  <2>2. h[k] > lastId /\ h[k] <= lastId /\ h[k] = low + k
    BY <1>1, <2>1
  <2> QED BY <2>1, <2>2
<1>4. FirstAfter(h, lastId) = CHOOSE k \in 1 .. Len(h) + 1 : Splits(k)
  BY DEF FirstAfter
<1>5. FirstAfter(h, lastId) = Len(h) + 1
  <2> HIDE DEF Splits
  <2> QED BY <1>2, <1>3, <1>4
<1>6. SubSeq(h, Len(h) + 1, Len(h)) = <<>>
  BY <1>1, SubSeqEmpty
<1>7. Newest(<<>>) = <<>>
  BY EmptySeq, BoundsAreNat DEF Newest
<1> QED BY <1>5, <1>6, <1>7 DEF Backlog

\* The closed form keeps the ids of a run newer than lastId, or the newest
\* MaxQueue of them.
LEMMA BacklogHolds ==
    ASSUME NEW h, NEW top \in Nat, NEW low \in 0 .. top, IsRun(h, low, top),
           NEW lastId \in 0 .. top
    PROVE  Backlog(h, lastId) = IF lastId <= low THEN Held(low, top)
                                ELSE Held(lastId, top)
<1> DEFINE base == IF lastId <= low THEN low ELSE lastId
<1>1. PICK newer : Backlog(h, lastId) = Newest(newer) /\ IsRun(newer, base, top)
  BY BacklogIsNewest
<1>2. base \in 0 .. top
  OBVIOUS
<1> SUFFICES Newest(newer) = Held(base, top)
  BY <1>1
<1> HIDE DEF base
<1>3. PICK newLow \in base .. top :
          /\ IsRun(Newest(newer), newLow, top)
          /\ MaxQueue = 0 => newLow = base
          /\ newLow # base => Len(Newest(newer)) = MaxQueue
          /\ MaxQueue # 0 => Len(Newest(newer)) <= MaxQueue
  BY <1>1, <1>2, NewestKeepsRun
<1>4. newLow \in 0 .. top /\ Len(Newest(newer)) = top - newLow
  BY <1>2, <1>3 DEF IsRun
<1>5. newLow = IF MaxQueue # 0 /\ top - base > MaxQueue THEN top - MaxQueue ELSE base
  BY <1>2, <1>3, <1>4, BoundsAreNat
<1>6. Newest(newer) = Ids(newLow, top)
  BY <1>3, <1>4, RunIsIds
<1> QED BY <1>5, <1>6 DEF Held

\* On a history of consecutive ids, the loop and the closed form agree for
\* every Last-Event-Id.
LEMMA BacklogIsLoop ==
    ASSUME NEW h, NEW top \in Nat, NEW low \in 0 .. top, IsRun(h, low, top),
           NEW lastId \in Nat
    PROVE  Backlog(h, lastId) = BacklogLoop(h, lastId)
<1>1. CASE lastId <= top
  <2>1. lastId \in 0 .. top
    BY <1>1
  <2> QED BY <1>1, <2>1, BacklogHolds, LoopHolds
<1>2. CASE lastId > top
  <2>1. ~(lastId <= low) /\ ~(lastId <= top)
    BY <1>2
  <2> QED BY <1>2, <2>1, NothingAfterNewest, LoopHolds
<1> QED BY <1>1, <1>2

----------------------------------------------------------------------------
(* The invariant holds initially and every step keeps it.                   *)

\* A new run, with no event and no subscriber, satisfies the invariant.
LEMMA InitStreamInv == Init => StreamInv
<1> SUFFICES ASSUME Init PROVE StreamInv
  OBVIOUS
<1>0. <<>> \in Seq(Nat) /\ Len(<<>>) = 0
  BY EmptySeq
<1>1. TypeOK
  <2>1. \A c \in Clients : queue[c] = <<>> /\ seen[c] = <<>>
    BY DEF Init
  <2>2. queue \in [Clients -> Seq(Nat)] /\ seen \in [Clients -> Seq(Nat)]
    BY <1>0 DEF Init
  <2>3. MaxQueue # 0 => \A c \in Clients : Len(queue[c]) <= MaxQueue
    BY <1>0, <2>1, BoundsAreNat
  <2>4. MaxHistory # 0 => Len(events) <= MaxHistory
    BY <1>0, BoundsAreNat DEF Init
  <2>5. /\ nextId \in Nat /\ events \in Seq(Nat) /\ terminal \in 0 .. nextId
        /\ done \in BOOLEAN /\ doneAt \in 0 .. nextId /\ registered \subseteq Clients
        /\ dropped \in Nat /\ conn \in [Clients -> {"off", "open", "ended"}]
    <3>1. nextId \in Nat /\ terminal \in 0 .. nextId /\ doneAt \in 0 .. nextId
          /\ dropped \in Nat
      BY DEF Init
    <3>2. events \in Seq(Nat)
      BY <1>0 DEF Init
    <3>3. done \in BOOLEAN /\ registered \subseteq Clients
      BY DEF Init
    <3>4. conn \in [Clients -> {"off", "open", "ended"}]
      BY DEF Init
    <3> QED BY <3>1, <3>2, <3>3, <3>4
  <2> QED BY <2>2, <2>3, <2>4, <2>5 DEF TypeOK
<1>2. PhaseInv
  BY DEF Init, PhaseInv
<1>3. HistoryInv
  <2>1. IsRun(events, 0, 0)
    BY <1>0 DEF Init, IsRun
  <2> QED BY <2>1 DEF Init, HistoryInv
<1>4. ASSUME NEW c \in Clients PROVE ClientInv(c)
  BY <1>0 DEF Init, ClientInv, SeenInv, EndInv, TerminalAhead, LastSeen
<1> QED BY <1>1, <1>2, <1>3, <1>4 DEF StreamInv

\* A client's part of the invariant only reads that client's state.
LEMMA OtherClient ==
    ASSUME NEW c \in Clients, ClientInv(c), UNCHANGED producerVars,
           queue'[c] = queue[c], seen'[c] = seen[c], conn'[c] = conn[c],
           c \in registered' <=> c \in registered
    PROVE  ClientInv(c)'
BY DEF ClientInv, LiveInv, ClosedInv, SeenInv, EndInv, TerminalAhead,
       SawTerminal, LastSeen, producerVars

\* The last event a client received is one of the run's.
LEMMA LastSeenInRange ==
    ASSUME TypeOK, NEW c \in Clients, SeenInv(c)
    PROVE  LastSeen(c) \in 0 .. nextId
<1>1. seen[c] \in Seq(Nat) /\ nextId \in Nat
  BY DEF TypeOK
<1>2. CASE seen[c] = <<>>
  BY <1>1, <1>2 DEF LastSeen
<1>3. CASE seen[c] # <<>>
  <2>1. Len(seen[c]) \in 1 .. Len(seen[c])
    BY <1>1, <1>3, EmptySeq, LenProperties
  <2> QED BY <1>1, <1>3, <2>1 DEF LastSeen, SeenInv
<1> QED BY <1>2, <1>3

\* subscribe queues a run that continues what the client has, and closes it
\* with the sentinel once the run is done.
LEMMA AttachKeeps ==
    ASSUME StreamInv, NEW c \in Clients, Attach(c)
    PROVE  StreamInv'
<1> USE DEF producerVars
<1>1. TypeOK /\ PhaseInv /\ HistoryInv /\ ClientInv(c)
  BY DEF StreamInv
<1>2. LastSeen(c) \in 0 .. nextId
  BY <1>1, LastSeenInRange DEF ClientInv
<1>3. PICK low \in 0 .. nextId :
          /\ IsRun(events, low, nextId)
          /\ low = nextId => nextId = 0
          /\ low # 0 => MaxHistory # 0 /\ Len(events) = MaxHistory
  BY <1>1 DEF HistoryInv
<1> DEFINE b == Backlog(events, LastSeen(c))
<1>4. nextId \in Nat
  BY <1>1 DEF TypeOK
<1>5. PICK newLow \in LastSeen(c) .. nextId :
          /\ IsRun(b, newLow, nextId)
          /\ (MaxQueue = 0 /\ low = 0) => newLow = LastSeen(c)
          /\ (newLow # LastSeen(c) /\ newLow # low) =>
                 Len(b) = MaxQueue /\ MaxQueue # 0
          /\ MaxQueue # 0 => Len(b) <= MaxQueue
  BY <1>2, <1>3, <1>4, BacklogIsRun
<1>6. newLow \in 0 .. nextId
  BY <1>2, <1>5
<1>7. Unbounded => newLow = LastSeen(c)
  BY <1>3, <1>5 DEF Unbounded
<1>8. TerminalAhead(c, newLow)
  <2> SUFFICES ASSUME RoomForTerminal, terminal # 0, ~SawTerminal(c)
               PROVE  newLow < terminal
    BY DEF TerminalAhead
  <2>1. LastSeen(c) < terminal
    BY <1>1 DEF ClientInv, SeenInv, TerminalAhead
  <2>2. nextId <= terminal + Late /\ terminal \in Nat /\ terminal > 0
    BY <1>1, <1>4 DEF PhaseInv, TypeOK
  <2>3. CASE newLow = LastSeen(c)
    BY <2>1, <2>3
  <2>4. CASE newLow = low
    <3>1. CASE low = 0
      BY <2>2, <2>4, <3>1
    <3>2. CASE low # 0
      <4>1. nextId - low = MaxHistory /\ MaxHistory >= Late + 1
        BY <1>3, <3>2 DEF IsRun, RoomForTerminal
      <4> QED BY <1>3, <1>4, <2>2, <2>4, <4>1, BoundsAreNat
    <3> QED BY <3>1, <3>2
  <2>5. CASE newLow # LastSeen(c) /\ newLow # low
    <3>1. nextId - newLow = MaxQueue /\ MaxQueue >= Late + 2
      BY <1>5, <2>5 DEF IsRun, RoomForTerminal
    <3> QED BY <1>4, <1>6, <2>2, <3>1, BoundsAreNat
  <2> QED BY <2>3, <2>4, <2>5
<1>9. /\ seen' = seen /\ nextId' = nextId /\ terminal' = terminal
      /\ done' = done /\ doneAt' = doneAt /\ events' = events
      /\ LastSeen(c)' = LastSeen(c)
  BY DEF Attach, LastSeen
<1>10. TerminalAhead(c, newLow)'
  BY <1>8, <1>9 DEF TerminalAhead, SawTerminal
<1>11. CASE ~done
  <2>1. queue' = [queue EXCEPT ![c] = b] /\ registered' = registered \cup {c}
    BY <1>11 DEF Attach
  <2>2. queue'[c] = b
    BY <1>1, <2>1 DEF TypeOK
  <2>3. TypeOK'
    BY <1>1, <1>5, <2>1, <2>2 DEF TypeOK, Attach, IsRun
  <2>4. PhaseInv'
    BY <1>1, <1>11, <2>1 DEF PhaseInv, Attach, TypeOK
  <2>5. newLow = nextId => LastSeen(c) = nextId
    <3> SUFFICES ASSUME newLow = nextId, LastSeen(c) # nextId PROVE FALSE
      OBVIOUS
    <3>1. newLow # LastSeen(c)
      OBVIOUS
    <3>2. CASE newLow = low
      BY <1>2, <1>3, <3>2
    <3>3. CASE newLow # low
      <4>1. Len(b) = MaxQueue /\ MaxQueue # 0 /\ Len(b) = 0
        BY <1>4, <1>5, <3>1, <3>3 DEF IsRun
      <4> QED BY <4>1
    <3> QED BY <3>2, <3>3
  <2>6. LiveInv(c)'
    BY <1>5, <1>7, <1>9, <1>10, <2>2, <2>5 DEF LiveInv, Unbounded
  <2>7. ClientInv(c)'
    BY <1>1, <1>9, <1>11, <2>6
       DEF ClientInv, SeenInv, EndInv, TerminalAhead, SawTerminal, Attach, TypeOK
  <2>8. ASSUME NEW d \in Clients PROVE ClientInv(d)'
    <3>1. CASE d # c
      BY <1>1, <2>1, <3>1, OtherClient DEF StreamInv, Attach, TypeOK
    <3> QED BY <2>7, <3>1
  <2>9. HistoryInv'
    BY <1>1, <1>9 DEF HistoryInv
  <2> QED BY <2>3, <2>4, <2>8, <2>9 DEF StreamInv
<1>12. CASE done
  <2>1. queue' = [queue EXCEPT ![c] = Offer(b, Sentinel)] /\ registered' = registered
    BY <1>12 DEF Attach
  <2>2. queue'[c] = Offer(b, Sentinel)
    BY <1>1, <2>1 DEF TypeOK
  <2>3. PICK endLow \in newLow .. nextId :
            /\ IsClosedRun(Offer(b, Sentinel), endLow, nextId)
            /\ MaxQueue = 0 => endLow = newLow
            /\ endLow # newLow => Len(Offer(b, Sentinel)) = MaxQueue
            /\ MaxQueue # 0 => Len(Offer(b, Sentinel)) <= MaxQueue
    <3> HIDE DEF b
    <3> QED BY <1>4, <1>5, <1>6, OfferSentinelClosesRun
  <2>4. TypeOK'
    BY <1>1, <2>1, <2>2, <2>3 DEF TypeOK, Attach, IsClosedRun
  <2>5. PhaseInv'
    BY <1>1, <1>12, <2>1 DEF PhaseInv, Attach, TypeOK
  <2>6. TerminalAhead(c, endLow)'
    <3> SUFFICES ASSUME RoomForTerminal, terminal # 0, ~SawTerminal(c)
                 PROVE  endLow < terminal
      BY <1>9 DEF TerminalAhead, SawTerminal
    <3>1. CASE endLow = newLow
      BY <1>8, <3>1 DEF TerminalAhead
    <3>2. CASE endLow # newLow
      <4>1. nextId - endLow + 1 = MaxQueue /\ MaxQueue # 0
        BY <2>3, <3>2 DEF IsClosedRun
      <4>2. MaxQueue >= Late + 2
        BY <4>1 DEF RoomForTerminal
      <4>3. nextId <= terminal + Late /\ terminal \in Nat
        BY <1>1, <1>4 DEF PhaseInv, TypeOK
      <4>4. endLow \in Int
        BY <1>6, <2>3
      <4> QED BY <1>4, <4>1, <4>2, <4>3, <4>4, BoundsAreNat
    <3> QED BY <3>1, <3>2
  <2>7. ClosedInv(c)'
    <3>1. nextId \in doneAt .. nextId
      BY <1>1 DEF TypeOK
    <3>2. endLow \in LastSeen(c) .. nextId
      BY <1>2, <1>5, <2>3
    <3>3. Unbounded => endLow = LastSeen(c)
      BY <1>7, <2>3 DEF Unbounded
    <3> QED BY <1>9, <2>2, <2>3, <2>6, <3>1, <3>2, <3>3 DEF ClosedInv, Unbounded
  <2>8. ClientInv(c)'
    BY <1>1, <1>9, <1>12, <2>1, <2>7
       DEF ClientInv, SeenInv, EndInv, TerminalAhead, SawTerminal, Attach, TypeOK,
           PhaseInv
  <2>9. ASSUME NEW d \in Clients PROVE ClientInv(d)'
    <3>1. CASE d # c
      BY <1>1, <2>1, <3>1, OtherClient DEF StreamInv, Attach, TypeOK
    <3> QED BY <2>8, <3>1
  <2>10. HistoryInv'
    BY <1>1, <1>9 DEF HistoryInv
  <2> QED BY <2>4, <2>5, <2>9, <2>10 DEF StreamInv
<1> QED BY <1>11, <1>12
\* The first event of an open stream's queue, when it is not the sentinel, is
\* the next id of the run the queue holds.
LEMMA DeliverKeeps ==
    ASSUME StreamInv, NEW c \in Clients, Deliver(c)
    PROVE  StreamInv'
<1> USE DEF producerVars
<1> DEFINE q == queue[c]
           last == Len(seen[c])
<1>1. TypeOK /\ PhaseInv /\ HistoryInv /\ ClientInv(c)
  BY DEF StreamInv
<1>2. /\ conn[c] = "open" /\ q # <<>> /\ Head(q) # Sentinel
      /\ seen' = [seen EXCEPT ![c] = Append(seen[c], Head(q))]
      /\ queue' = [queue EXCEPT ![c] = Tail(q)]
      /\ UNCHANGED <<nextId, events, terminal, done, doneAt, dropped, registered, conn>>
  BY DEF Deliver
<1>3. q \in Seq(Nat) /\ seen[c] \in Seq(Nat) /\ nextId \in Nat /\ doneAt \in Nat
  BY <1>1 DEF TypeOK
<1>4. /\ Head(q) \in Nat /\ Tail(q) \in Seq(Nat) /\ Len(Tail(q)) = Len(q) - 1
      /\ \A i \in 1 .. Len(Tail(q)) : Tail(q)[i] = q[i + 1]
      /\ Head(q) = q[1] /\ Len(q) \in Nat /\ Len(q) # 0
  BY <1>2, <1>3, HeadTailProperties, EmptySeq, LenProperties
<1>5. queue'[c] = Tail(q) /\ seen'[c] = Append(seen[c], Head(q))
  BY <1>1, <1>2 DEF TypeOK
<1>6. /\ Append(seen[c], Head(q)) \in Seq(Nat)
      /\ last \in Nat
      /\ Len(Append(seen[c], Head(q))) = last + 1
      /\ \A i \in 1 .. last : Append(seen[c], Head(q))[i] = seen[c][i]
      /\ Append(seen[c], Head(q))[last + 1] = Head(q)
  BY <1>3, <1>4, AppendId
<1>7. TypeOK'
  BY <1>1, <1>2, <1>4, <1>5, <1>6, BoundsAreNat DEF TypeOK
<1>8. PhaseInv' /\ HistoryInv'
  BY <1>1, <1>2 DEF PhaseInv, HistoryInv
<1>9. LastSeen(c) \in 0 .. nextId
  BY <1>1, LastSeenInRange DEF ClientInv
<1>10. LastSeen(c)' = Head(q)
  <2>1. seen'[c] # <<>> /\ Len(seen'[c]) = last + 1
    BY <1>5, <1>6, EmptySeq
  <2> QED BY <1>5, <1>6, <2>1 DEF LastSeen
\* What the queue held, whether the stream is open or closed.
<1>11. \E top \in 0 .. nextId, low \in 0 .. nextId :
          /\ low \in LastSeen(c) .. top
          /\ Head(q) = low + 1
          /\ low + 1 <= top
          /\ Unbounded => low = LastSeen(c)
          /\ TerminalAhead(c, low)
          /\ c \in registered => top = nextId /\ IsRun(Tail(q), low + 1, top)
          /\ done => top \in doneAt .. nextId /\ IsClosedRun(Tail(q), low + 1, top)
  <2>1. CASE c \in registered
    <3>1. PICK low \in LastSeen(c) .. nextId :
              /\ IsRun(q, low, nextId)
              /\ Unbounded => low = LastSeen(c)
              /\ TerminalAhead(c, low)
      BY <1>1, <2>1 DEF ClientInv, LiveInv
    <3>2. low \in 0 .. nextId /\ ~done
      BY <1>1, <1>2, <1>9, <2>1, <3>1 DEF PhaseInv
    <3>3. low + 1 \in 0 .. nextId /\ Head(q) = low + 1 /\ IsRun(Tail(q), low + 1, nextId)
      <4> HIDE DEF q
      <4> QED BY <1>2, <1>3, <3>1, <3>2, TailKeepsRun
    <3> QED BY <1>3, <2>1, <3>1, <3>2, <3>3
  <2>2. CASE c \notin registered
    <3>1. done
      BY <1>1, <1>2, <2>2 DEF PhaseInv
    <3>2. PICK top \in doneAt .. nextId : \E low \in LastSeen(c) .. top :
              /\ IsClosedRun(q, low, top)
              /\ Unbounded => low = LastSeen(c)
              /\ TerminalAhead(c, low)
      BY <1>1, <1>2, <3>1 DEF ClientInv, ClosedInv
    <3>3. PICK low \in LastSeen(c) .. top :
              /\ IsClosedRun(q, low, top)
              /\ Unbounded => low = LastSeen(c)
              /\ TerminalAhead(c, low)
      BY <3>2
    <3>4. top \in 0 .. nextId /\ low \in 0 .. top
      BY <1>3, <1>9, <3>2, <3>3
    <3>5. Len(q) = top - low + 1 /\ q[Len(q)] = Sentinel
          /\ \A i \in 1 .. Len(q) - 1 : q[i] = low + i
      BY <3>3 DEF IsClosedRun
    <3>6. Len(q) # 1
      BY <1>2, <1>4, <3>5
    <3>7. Head(q) = low + 1 /\ low + 1 <= top
      BY <1>4, <3>4, <3>5, <3>6
    <3>8. IsClosedRun(Tail(q), low + 1, top)
      BY <1>4, <3>4, <3>5, <3>6 DEF IsClosedRun
    <3>9. low \in 0 .. nextId
      BY <1>3, <3>4
    <3> HIDE DEF q
    <3> QED BY <2>2, <3>1, <3>2, <3>3, <3>4, <3>7, <3>8, <3>9
  <2> QED BY <2>1, <2>2
<1>12. PICK top \in 0 .. nextId, low \in 0 .. nextId :
          /\ low \in LastSeen(c) .. top
          /\ Head(q) = low + 1
          /\ low + 1 <= top
          /\ Unbounded => low = LastSeen(c)
          /\ TerminalAhead(c, low)
          /\ c \in registered => top = nextId /\ IsRun(Tail(q), low + 1, top)
          /\ done => top \in doneAt .. nextId /\ IsClosedRun(Tail(q), low + 1, top)
  BY <1>11
<1>13. low + 1 \in 1 .. top /\ low + 1 \in 1 .. nextId
  BY <1>3, <1>12
<1>14. TerminalAhead(c, low + 1)'
  <2> SUFFICES ASSUME RoomForTerminal, terminal # 0
               PROVE  low + 1 < terminal \/ SawTerminal(c)'
    BY <1>2 DEF TerminalAhead
  <2>1. terminal \in Nat
    BY <1>1, <1>3 DEF TypeOK
  <2>2. CASE SawTerminal(c)
    BY <1>2, <1>5, <1>6, <2>2 DEF SawTerminal
  <2>3. CASE low < terminal /\ low + 1 # terminal
    BY <1>13, <2>1, <2>3
  <2>4. CASE low + 1 = terminal
    BY <1>2, <1>5, <1>6, <1>12, <2>4 DEF SawTerminal
  <2> QED BY <1>12, <2>2, <2>3, <2>4 DEF TerminalAhead
<1>15. SeenInv(c)'
  <2>1. \A i \in 1 .. last + 1 : seen'[c][i] \in 1 .. nextId
    BY <1>1, <1>5, <1>6, <1>12, <1>13 DEF ClientInv, SeenInv
  <2>2. \A i, j \in 1 .. last + 1 : i < j => seen'[c][i] < seen'[c][j]
    <3> SUFFICES ASSUME NEW i \in 1 .. last + 1, NEW j \in 1 .. last + 1, i < j
                 PROVE  seen'[c][i] < seen'[c][j]
      OBVIOUS
    <3>1. CASE j \in 1 .. last
      BY <1>1, <1>5, <1>6, <3>1 DEF ClientInv, SeenInv
    <3>2. CASE j = last + 1
      <4>1. i \in 1 .. last /\ seen[c] # <<>>
        BY <1>3, <1>6, <3>2, EmptySeq
      <4>2. LastSeen(c) = seen[c][last]
        BY <4>1 DEF LastSeen
      <4>3. i = last \/ seen[c][i] < seen[c][last]
        BY <1>1, <1>6, <4>1 DEF ClientInv, SeenInv
      <4>4. seen[c][i] \in Nat /\ seen[c][last] \in Nat
        BY <1>1, <1>6, <4>1, <1>3 DEF ClientInv, SeenInv
      <4>5. seen[c][i] <= LastSeen(c)
        BY <4>2, <4>3, <4>4
      <4> QED BY <1>5, <1>6, <1>9, <1>12, <3>2, <4>1, <4>4, <4>5
    <3> QED BY <1>6, <3>1, <3>2
  <2>3. TerminalAhead(c, LastSeen(c))'
    BY <1>10, <1>12, <1>14 DEF TerminalAhead
  <2> QED BY <1>2, <1>5, <1>6, <2>1, <2>2, <2>3 DEF SeenInv
<1>16. c \in registered' => LiveInv(c)'
  <2> SUFFICES ASSUME c \in registered PROVE LiveInv(c)'
    BY <1>2
  <2>1. low + 1 \in LastSeen(c)' .. nextId' /\ IsRun(queue'[c], low + 1, nextId')
    BY <1>2, <1>5, <1>10, <1>12, <1>13
  <2> QED BY <1>2, <1>10, <1>12, <1>14, <2>1 DEF LiveInv
<1>17. conn'[c] = "open" /\ done' => ClosedInv(c)'
  <2> SUFFICES ASSUME done PROVE ClosedInv(c)'
    BY <1>2
  <2>1. /\ top \in doneAt' .. nextId' /\ low + 1 \in LastSeen(c)' .. top
        /\ IsClosedRun(queue'[c], low + 1, top)
    BY <1>2, <1>5, <1>10, <1>12, <1>13
  <2> QED BY <1>10, <1>12, <1>14, <2>1 DEF ClosedInv
<1>18. EndInv(c)'
  BY <1>2 DEF EndInv
<1>19. ASSUME NEW d \in Clients PROVE ClientInv(d)'
  <2>1. CASE d # c
    BY <1>1, <1>2, <2>1, OtherClient DEF StreamInv, TypeOK
  <2> QED BY <1>15, <1>16, <1>17, <1>18, <2>1 DEF ClientInv
<1> QED BY <1>7, <1>8, <1>19 DEF StreamInv
\* When the sentinel comes first, nothing of the closed run is left: the client
\* has everything up to the close, or at least the terminal event.
LEMMA SentinelIsLast ==
    ASSUME StreamInv, NEW c \in Clients, Finish(c)
    PROVE  /\ done
           /\ RoomForTerminal => SawTerminal(c)
           /\ Unbounded => LastSeen(c) >= doneAt
<1>1. TypeOK /\ PhaseInv /\ ClientInv(c)
  BY DEF StreamInv
<1>2. conn[c] = "open" /\ queue[c] # <<>> /\ Head(queue[c]) = Sentinel
  BY DEF Finish
<1>3. queue[c] \in Seq(Nat) /\ nextId \in Nat /\ doneAt \in Nat /\ terminal \in Nat
  BY <1>1 DEF TypeOK
<1>4. Head(queue[c]) = queue[c][1] /\ Len(queue[c]) \in Nat /\ Len(queue[c]) # 0
  BY <1>2, <1>3, HeadTailProperties, EmptySeq, LenProperties
<1>5. LastSeen(c) \in 0 .. nextId
  BY <1>1, LastSeenInRange DEF ClientInv
<1>6. done
  <2> SUFFICES ASSUME ~done PROVE FALSE
    OBVIOUS
  <2>1. PICK low \in LastSeen(c) .. nextId : IsRun(queue[c], low, nextId)
    BY <1>1, <1>2 DEF PhaseInv, ClientInv, LiveInv
  <2>2. queue[c][1] = low + 1
    BY <1>4, <2>1 DEF IsRun
  <2> QED BY <1>2, <1>4, <1>5, <2>1, <2>2 DEF Sentinel
<1>7. PICK top \in doneAt .. nextId : \E low \in LastSeen(c) .. top :
          /\ IsClosedRun(queue[c], low, top)
          /\ Unbounded => low = LastSeen(c)
          /\ TerminalAhead(c, low)
  BY <1>1, <1>2, <1>6 DEF ClientInv, ClosedInv
<1>8. PICK low \in LastSeen(c) .. top :
          /\ IsClosedRun(queue[c], low, top)
          /\ Unbounded => low = LastSeen(c)
          /\ TerminalAhead(c, low)
  BY <1>7
<1>9. low \in Nat /\ top \in Nat
  BY <1>3, <1>5, <1>7, <1>8
<1>10. low = top
  <2> SUFFICES ASSUME low # top PROVE FALSE
    OBVIOUS
  <2>1. Len(queue[c]) = top - low + 1 /\ \A i \in 1 .. Len(queue[c]) - 1 : queue[c][i] = low + i
    BY <1>8 DEF IsClosedRun
  <2>2. 1 \in 1 .. Len(queue[c]) - 1
    BY <1>4, <1>8, <1>9, <2>1
  <2>3. queue[c][1] = low + 1
    BY <2>1, <2>2
  <2> QED BY <1>2, <1>4, <1>9, <2>3 DEF Sentinel
<1>11. terminal # 0 /\ terminal <= doneAt
  BY <1>1, <1>6 DEF PhaseInv
<1>12. RoomForTerminal => SawTerminal(c)
  BY <1>3, <1>7, <1>8, <1>9, <1>10, <1>11 DEF TerminalAhead
<1>13. Unbounded => LastSeen(c) >= doneAt
  BY <1>3, <1>7, <1>8, <1>9, <1>10
<1> QED BY <1>6, <1>12, <1>13

\* A subscriber that meets the sentinel has everything up to it.
LEMMA FinishKeeps ==
    ASSUME StreamInv, NEW c \in Clients, Finish(c)
    PROVE  StreamInv'
<1> USE DEF producerVars
<1>1. TypeOK /\ PhaseInv /\ HistoryInv /\ ClientInv(c)
  BY DEF StreamInv
<1>2. /\ conn' = [conn EXCEPT ![c] = "ended"]
      /\ queue' = [queue EXCEPT ![c] = <<>>]
      /\ registered' = registered \ {c}
      /\ UNCHANGED <<nextId, events, terminal, done, doneAt, dropped, seen>>
  BY DEF Finish
<1>3. <<>> \in Seq(Nat) /\ Len(<<>>) = 0
  BY EmptySeq
<1>4. /\ done
      /\ RoomForTerminal => SawTerminal(c)
      /\ Unbounded => LastSeen(c) >= doneAt
  BY SentinelIsLast
<1>5. TypeOK'
  BY <1>1, <1>2, <1>3, BoundsAreNat DEF TypeOK
<1>6. PhaseInv' /\ HistoryInv'
  BY <1>1, <1>2, <1>4 DEF PhaseInv, HistoryInv, TypeOK
<1>7. conn'[c] = "ended" /\ c \notin registered'
  BY <1>1, <1>2 DEF TypeOK
<1>8. ClientInv(c)'
  BY <1>1, <1>2, <1>4, <1>7
     DEF ClientInv, SeenInv, EndInv, TerminalAhead, SawTerminal, LastSeen
<1>9. ASSUME NEW d \in Clients PROVE ClientInv(d)'
  <2>1. CASE d # c
    BY <1>1, <1>2, <2>1, OtherClient DEF StreamInv, TypeOK
  <2> QED BY <1>8, <2>1
<1> QED BY <1>5, <1>6, <1>9 DEF StreamInv

\* A broken connection forgets the queue and nothing the client received.
LEMMA DisconnectKeeps ==
    ASSUME StreamInv, NEW c \in Clients, Disconnect(c)
    PROVE  StreamInv'
<1> USE DEF producerVars
<1>1. TypeOK /\ PhaseInv /\ HistoryInv /\ ClientInv(c)
  BY DEF StreamInv
<1>2. /\ conn[c] = "open"
      /\ conn' = [conn EXCEPT ![c] = "off"]
      /\ queue' = [queue EXCEPT ![c] = <<>>]
      /\ registered' = registered \ {c}
      /\ UNCHANGED <<nextId, events, terminal, done, doneAt, dropped, seen>>
  BY DEF Disconnect
<1>3. <<>> \in Seq(Nat) /\ Len(<<>>) = 0
  BY EmptySeq
<1>4. TypeOK'
  BY <1>1, <1>2, <1>3, BoundsAreNat DEF TypeOK
<1>5. PhaseInv' /\ HistoryInv'
  BY <1>1, <1>2 DEF PhaseInv, HistoryInv, TypeOK
<1>6. conn'[c] = "off" /\ c \notin registered'
  BY <1>1, <1>2 DEF TypeOK
<1>7. ClientInv(c)'
  BY <1>1, <1>2, <1>6
     DEF ClientInv, SeenInv, EndInv, TerminalAhead, SawTerminal, LastSeen
<1>8. ASSUME NEW d \in Clients PROVE ClientInv(d)'
  <2>1. CASE d # c
    BY <1>1, <1>2, <2>1, OtherClient DEF StreamInv, TypeOK
  <2> QED BY <1>7, <2>1
<1> QED BY <1>4, <1>5, <1>8 DEF StreamInv

\* A queue with room for the events after the terminal one and for the sentinel
\* keeps the terminal event.
LEMMA RoomIsEnough ==
    ASSUME NEW top \in Nat, NEW low \in Nat, NEW term \in Nat,
           top - low = MaxQueue, MaxQueue >= Late + 2, top <= term + Late
    PROVE  low < term
BY BoundsAreNat

\* The terminal event is the one published now, or an earlier one no more than
\* Late events ago.
TerminalStep ==
    \/ terminal' = terminal /\ terminal = 0
    \/ terminal' = terminal /\ terminal # 0 /\ nextId < terminal + Late
    \/ terminal = 0 /\ terminal' = nextId'

\* publish extends the history and every registered queue by the next id.
LEMMA RecordKeeps ==
    ASSUME StreamInv, Record, TerminalStep
    PROVE  StreamInv'
<1>1. TypeOK /\ PhaseInv /\ HistoryInv
  BY DEF StreamInv
<1>2. /\ nextId' = nextId + 1
      /\ events' = Retain(events, nextId + 1)
      /\ queue' = [c \in Clients |-> IF c \in registered
                                     THEN Offer(queue[c], nextId + 1)
                                     ELSE queue[c]]
      /\ dropped' = dropped + Cardinality({c \in registered : Full(queue[c])})
      /\ UNCHANGED <<done, doneAt, registered, conn, seen>>
  BY DEF Record, clientVars
<1>3. nextId \in Nat /\ terminal \in 0 .. nextId /\ doneAt \in 0 .. nextId
  BY <1>1 DEF TypeOK
<1>4. /\ terminal' \in 0 .. nextId'
      /\ terminal' # 0 => nextId' <= terminal' + Late
      /\ terminal # 0 => terminal' = terminal
  BY <1>2, <1>3, BoundsAreNat DEF TerminalStep
<1>5. PhaseInv'
  BY <1>1, <1>2, <1>4 DEF PhaseInv
<1>6. PICK low \in 0 .. nextId :
          /\ IsRun(events, low, nextId)
          /\ low = nextId => nextId = 0
          /\ low # 0 => MaxHistory # 0 /\ Len(events) = MaxHistory
  BY <1>1 DEF HistoryInv
<1>7. PICK newLow \in low .. nextId :
          /\ IsRun(events', newLow, nextId')
          /\ MaxHistory = 0 => newLow = low
          /\ newLow # low => Len(events') = MaxHistory
          /\ MaxHistory # 0 => Len(events') <= MaxHistory
  BY <1>1, <1>2, <1>3, <1>6, RetainKeepsRun DEF TypeOK
<1>8. HistoryInv'
  <2>1. newLow \in 0 .. nextId' /\ newLow # nextId'
    BY <1>2, <1>3, <1>6, <1>7
  <2>2. ASSUME newLow # 0
        PROVE  MaxHistory # 0 /\ Len(events') = MaxHistory
    <3>1. CASE newLow # low
      BY <1>6, <1>7, <3>1
    <3>2. CASE newLow = low
      <4>1. MaxHistory # 0 /\ nextId - low = MaxHistory
        BY <1>6, <2>2, <3>2 DEF IsRun
      <4>2. Len(events') = nextId' - newLow
        BY <1>7 DEF IsRun
      <4>3. Len(events') <= MaxHistory
        BY <1>7, <4>1
      <4> QED BY <1>2, <1>3, <1>6, <3>2, <4>1, <4>2, <4>3, BoundsAreNat
    <3> QED BY <3>1, <3>2
  <2> QED BY <1>2, <1>7, <2>1, <2>2 DEF HistoryInv
\* One client's queue: an offer to a registered one, nothing to the others.
<1>9. ASSUME NEW c \in Clients, c \in registered
      PROVE  LiveInv(c)' /\ queue'[c] \in Seq(Nat)
                         /\ (MaxQueue # 0 => Len(queue'[c]) <= MaxQueue)
  <2>1. queue'[c] = Offer(queue[c], nextId + 1)
    BY <1>2, <1>9
  <2>2. PICK lo \in LastSeen(c) .. nextId :
            /\ IsRun(queue[c], lo, nextId)
            /\ Unbounded => lo = LastSeen(c)
            /\ lo = nextId => LastSeen(c) = nextId
            /\ TerminalAhead(c, lo)
    BY <1>9 DEF StreamInv, ClientInv, LiveInv
  <2>3. LastSeen(c) \in 0 .. nextId
    BY <1>1, LastSeenInRange DEF StreamInv, ClientInv
  <2>4. lo \in 0 .. nextId
    BY <1>3, <2>2, <2>3
  <2>5. MaxQueue # 0 => Len(queue[c]) <= MaxQueue
    BY <1>1 DEF TypeOK
  <2>6. PICK newLo \in lo .. nextId :
            /\ IsRun(queue'[c], newLo, nextId')
            /\ MaxQueue = 0 => newLo = lo
            /\ newLo # lo => Len(queue'[c]) = MaxQueue
            /\ MaxQueue # 0 => Len(queue'[c]) <= MaxQueue
    <3>1. \E newLo \in lo .. nextId :
              /\ IsRun(Offer(queue[c], nextId + 1), newLo, nextId + 1)
              /\ MaxQueue = 0 => newLo = lo
              /\ newLo # lo => Len(Offer(queue[c], nextId + 1)) = MaxQueue
              /\ MaxQueue # 0 => Len(Offer(queue[c], nextId + 1)) <= MaxQueue
      BY <1>3, <2>2, <2>4, <2>5, OfferKeepsRun
    <3>2. nextId' = nextId + 1
      BY <1>2
    <3> QED BY <2>1, <3>1, <3>2
  <2>7. newLo \in 0 .. nextId
    BY <1>3, <2>4, <2>6
  <2>8. LastSeen(c)' = LastSeen(c)
    BY <1>2 DEF LastSeen
  <2>9. TerminalAhead(c, newLo)'
    <3> SUFFICES ASSUME RoomForTerminal, terminal' # 0, ~SawTerminal(c)'
                 PROVE  newLo < terminal'
      BY DEF TerminalAhead
    <3>1. CASE terminal = 0
      <4>1. terminal' = nextId + 1
        BY <1>2, <3>1 DEF TerminalStep
      <4> QED BY <1>3, <2>7, <4>1
    <3>2. CASE terminal # 0 /\ newLo = lo
      <4>1. terminal' = terminal /\ ~SawTerminal(c)
        BY <1>2, <1>4, <3>2 DEF SawTerminal
      <4> QED BY <2>2, <3>2, <4>1 DEF TerminalAhead
    <3>3. CASE terminal # 0 /\ newLo # lo
      <4>1. nextId' - newLo = MaxQueue
        BY <2>6, <3>3 DEF IsRun
      <4>2. nextId' \in Nat /\ newLo \in Nat /\ MaxQueue # 0
        BY <1>2, <1>3, <2>7, <4>1
      <4>3. MaxQueue >= Late + 2
        BY <4>2 DEF RoomForTerminal
      <4>4. nextId' <= terminal' + Late /\ terminal' \in Nat
        BY <1>2, <1>3, <1>4, <3>3
      <4> QED BY <4>1, <4>2, <4>3, <4>4, RoomIsEnough
    <3> QED BY <3>1, <3>2, <3>3
  <2>10. LiveInv(c)'
    <3>1. newLo \in LastSeen(c)' .. nextId' /\ newLo # nextId'
      BY <1>2, <1>3, <2>2, <2>3, <2>6, <2>7, <2>8
    <3>2. Unbounded => newLo = LastSeen(c)'
      BY <2>2, <2>6, <2>8 DEF Unbounded
    <3>3. IsRun(queue'[c], newLo, nextId')
      BY <1>2, <2>1, <2>6
    <3> QED BY <2>9, <3>1, <3>2, <3>3 DEF LiveInv, Unbounded
  <2> QED BY <2>1, <2>6, <2>10 DEF IsRun
<1>10. ASSUME NEW c \in Clients, c \notin registered PROVE queue'[c] = queue[c]
  BY <1>2, <1>10
<1>11. TypeOK'
  <2>1. queue' \in [Clients -> Seq(Nat)]
    <3>1. \A c \in Clients : queue'[c] \in Seq(Nat)
      BY <1>1, <1>9, <1>10 DEF TypeOK
    <3>2. queue' = [c \in Clients |-> queue'[c]]
      BY <1>2
    <3> QED BY <3>1, <3>2
  <2>2. MaxQueue # 0 => \A c \in Clients : Len(queue'[c]) <= MaxQueue
    BY <1>1, <1>9, <1>10 DEF TypeOK
  <2>3. dropped' \in Nat
    <3>1. IsFiniteSet({c \in registered : Full(queue[c])})
      BY <1>1, ClientsAreFinite, FS_Subset DEF TypeOK
    <3> QED BY <1>1, <1>2, <3>1, FS_CardinalityType DEF TypeOK
  <2>4. events' \in Seq(Nat) /\ (MaxHistory # 0 => Len(events') <= MaxHistory)
    BY <1>2, <1>7 DEF IsRun
  <2>5. nextId' \in Nat /\ doneAt' \in 0 .. nextId'
    BY <1>2, <1>3
  <2> QED BY <1>1, <1>2, <1>4, <2>1, <2>2, <2>3, <2>4, <2>5 DEF TypeOK
<1>12. ASSUME NEW c \in Clients PROVE ClientInv(c)'
  <2>1. ClientInv(c) /\ LastSeen(c)' = LastSeen(c) /\ LastSeen(c) \in 0 .. nextId
    BY <1>1, <1>2, LastSeenInRange DEF StreamInv, ClientInv, LastSeen
  <2>2. ASSUME NEW n \in 0 .. nextId, TerminalAhead(c, n)
        PROVE  TerminalAhead(c, n)'
    <3>1. CASE terminal = 0
      BY <1>2, <1>3, <3>1 DEF TerminalStep, TerminalAhead
    <3>2. CASE terminal # 0
      BY <1>2, <1>4, <2>2, <3>2 DEF TerminalAhead, SawTerminal
    <3> QED BY <3>1, <3>2
  <2>3. SeenInv(c)'
    <3>1. \A i \in 1 .. Len(seen[c]) : seen[c][i] \in 1 .. nextId + 1
      BY <1>3, <2>1 DEF ClientInv, SeenInv
    <3> QED BY <1>2, <2>1, <2>2, <3>1 DEF ClientInv, SeenInv
  <2>4. EndInv(c)'
    <3> SUFFICES ASSUME conn[c] = "ended"
                 PROVE  /\ RoomForTerminal => SawTerminal(c)'
                        /\ Unbounded => LastSeen(c)' >= doneAt'
      BY <1>2 DEF EndInv
    <3>1. done /\ terminal' = terminal
      BY <1>1, <1>4 DEF PhaseInv
    <3> QED BY <1>2, <2>1, <3>1 DEF ClientInv, EndInv, SawTerminal
  <2>5. ASSUME conn[c] = "open", done PROVE ClosedInv(c)'
    <3>1. c \notin registered /\ terminal # 0
      BY <1>1, <2>5 DEF PhaseInv
    <3>2. queue'[c] = queue[c] /\ terminal' = terminal
      BY <1>4, <1>10, <3>1
    <3>3. PICK top \in doneAt .. nextId : \E lo \in LastSeen(c) .. top :
              /\ IsClosedRun(queue[c], lo, top)
              /\ Unbounded => lo = LastSeen(c)
              /\ TerminalAhead(c, lo)
      BY <2>1, <2>5 DEF ClientInv, ClosedInv
    <3>4. PICK lo \in LastSeen(c) .. top :
              /\ IsClosedRun(queue[c], lo, top)
              /\ Unbounded => lo = LastSeen(c)
              /\ TerminalAhead(c, lo)
      BY <3>3
    <3>5. top \in doneAt' .. nextId' /\ lo \in LastSeen(c)' .. top /\ lo \in 0 .. nextId
      BY <1>2, <1>3, <2>1, <3>3, <3>4
    <3>6. TerminalAhead(c, lo)'
      BY <2>2, <3>4, <3>5
    <3> QED BY <2>1, <3>2, <3>4, <3>5, <3>6 DEF ClosedInv
  <2> QED BY <1>2, <1>9, <2>3, <2>4, <2>5 DEF ClientInv
<1> QED BY <1>5, <1>8, <1>11, <1>12 DEF StreamInv

\* mark_done closes every registered queue with the sentinel.
LEMMA MarkDoneKeeps ==
    ASSUME StreamInv, MarkDone
    PROVE  StreamInv'
<1>1. TypeOK /\ PhaseInv /\ HistoryInv
  BY DEF StreamInv
<1>2. /\ terminal # 0 /\ ~done
      /\ done' = TRUE /\ doneAt' = nextId /\ registered' = {}
      /\ queue' = [c \in Clients |-> IF c \in registered
                                     THEN Offer(queue[c], Sentinel)
                                     ELSE queue[c]]
      /\ UNCHANGED <<nextId, events, terminal, dropped, conn, seen>>
  BY DEF MarkDone, clientVars
<1>3. nextId \in Nat /\ terminal \in 0 .. nextId
  BY <1>1 DEF TypeOK
<1>4. HistoryInv'
  BY <1>1, <1>2 DEF HistoryInv
<1>5. PhaseInv'
  BY <1>1, <1>2, <1>3 DEF PhaseInv
<1>6. ASSUME NEW c \in Clients, c \in registered
      PROVE  /\ ClosedInv(c)'
             /\ queue'[c] \in Seq(Nat)
             /\ MaxQueue # 0 => Len(queue'[c]) <= MaxQueue
  <2>1. queue'[c] = Offer(queue[c], Sentinel)
    BY <1>2, <1>6
  <2>2. PICK low \in LastSeen(c) .. nextId :
            /\ IsRun(queue[c], low, nextId)
            /\ Unbounded => low = LastSeen(c)
            /\ TerminalAhead(c, low)
    BY <1>6 DEF StreamInv, ClientInv, LiveInv
  <2>3. LastSeen(c) \in 0 .. nextId
    BY <1>1, LastSeenInRange DEF StreamInv, ClientInv
  <2>4. low \in 0 .. nextId
    BY <1>3, <2>2, <2>3
  <2>5. MaxQueue # 0 => Len(queue[c]) <= MaxQueue
    BY <1>1 DEF TypeOK
  <2>6. PICK newLow \in low .. nextId :
            /\ IsClosedRun(Offer(queue[c], Sentinel), newLow, nextId)
            /\ MaxQueue = 0 => newLow = low
            /\ newLow # low => Len(Offer(queue[c], Sentinel)) = MaxQueue
            /\ MaxQueue # 0 => Len(Offer(queue[c], Sentinel)) <= MaxQueue
    BY <1>3, <2>2, <2>4, <2>5, OfferSentinelClosesRun
  <2>7. newLow \in 0 .. nextId
    BY <1>3, <2>4, <2>6
  <2>8. TerminalAhead(c, newLow)'
    <3> SUFFICES ASSUME RoomForTerminal, ~SawTerminal(c)
                 PROVE  newLow < terminal
      BY <1>2 DEF TerminalAhead, SawTerminal
    <3>1. CASE newLow = low
      BY <1>2, <2>2, <3>1 DEF TerminalAhead
    <3>2. CASE newLow # low
      <4>1. nextId + 1 - newLow = MaxQueue
        BY <1>3, <2>6, <2>7, <3>2 DEF IsClosedRun
      <4>2. MaxQueue >= Late + 2
        BY <1>3, <2>7, <4>1 DEF RoomForTerminal
      <4>3. nextId <= terminal + Late
        BY <1>1, <1>2 DEF PhaseInv
      <4> QED BY <1>3, <2>7, <4>1, <4>2, <4>3, BoundsAreNat
    <3> QED BY <3>1, <3>2
  <2>9. LastSeen(c)' = LastSeen(c)
    BY <1>2 DEF LastSeen
  <2>10. ClosedInv(c)'
    <3>1. nextId \in doneAt' .. nextId' /\ newLow \in LastSeen(c)' .. nextId
      BY <1>2, <1>3, <2>2, <2>3, <2>6, <2>7, <2>9
    <3>2. Unbounded => newLow = LastSeen(c)'
      BY <2>2, <2>6, <2>9 DEF Unbounded
    <3> QED BY <2>1, <2>6, <2>8, <3>1, <3>2 DEF ClosedInv, Unbounded
  <2> QED BY <2>1, <2>6, <2>10 DEF IsClosedRun
<1>7. ASSUME NEW c \in Clients, c \notin registered PROVE queue'[c] = queue[c]
  BY <1>2, <1>7
<1>8. TypeOK'
  <2>1. queue' \in [Clients -> Seq(Nat)]
    <3>1. \A c \in Clients : queue'[c] \in Seq(Nat)
      BY <1>1, <1>6, <1>7 DEF TypeOK
    <3>2. queue' = [c \in Clients |-> queue'[c]]
      BY <1>2
    <3> QED BY <3>1, <3>2
  <2>2. MaxQueue # 0 => \A c \in Clients : Len(queue'[c]) <= MaxQueue
    BY <1>1, <1>6, <1>7 DEF TypeOK
  <2> QED BY <1>1, <1>2, <1>3, <2>1, <2>2 DEF TypeOK
<1>9. ASSUME NEW c \in Clients PROVE ClientInv(c)'
  <2>1. ClientInv(c) /\ (conn[c] = "open" => c \in registered) /\ conn[c] # "ended"
    BY <1>1, <1>2 DEF StreamInv, PhaseInv
  <2>2. SeenInv(c)'
    BY <1>2, <2>1 DEF ClientInv, SeenInv, TerminalAhead, SawTerminal, LastSeen
  <2> QED BY <1>2, <1>6, <2>1, <2>2 DEF ClientInv, EndInv
<1> QED BY <1>4, <1>5, <1>8, <1>9 DEF StreamInv

\* Every step of the run and of its clients preserves the invariant.
LEMMA StepKeepsStreamInv == StreamInv /\ [Next]_vars => StreamInv'
<1> SUFFICES ASSUME StreamInv, [Next]_vars PROVE StreamInv'
  OBVIOUS
<1>1. CASE Publish
  BY <1>1, RecordKeeps DEF Publish, TerminalStep
<1>2. CASE PublishTerminal
  BY <1>2, RecordKeeps DEF PublishTerminal, TerminalStep
<1>3. CASE PublishLate
  BY <1>3, RecordKeeps DEF PublishLate, TerminalStep
<1>4. CASE MarkDone
  BY <1>4, MarkDoneKeeps
<1>5. ASSUME NEW c \in Clients, Attach(c) PROVE StreamInv'
  BY <1>5, AttachKeeps
<1>6. ASSUME NEW c \in Clients, Deliver(c) PROVE StreamInv'
  BY <1>6, DeliverKeeps
<1>7. ASSUME NEW c \in Clients, Finish(c) PROVE StreamInv'
  BY <1>7, FinishKeeps
<1>8. ASSUME NEW c \in Clients, Disconnect(c) PROVE StreamInv'
  BY <1>8, DisconnectKeeps
<1>9. CASE UNCHANGED vars
  BY <1>9
     DEF StreamInv, TypeOK, PhaseInv, HistoryInv, ClientInv, LiveInv, ClosedInv,
         SeenInv, EndInv, TerminalAhead, SawTerminal, LastSeen, vars,
         producerVars, clientVars
<1> QED BY <1>1, <1>2, <1>3, <1>4, <1>5, <1>6, <1>7, <1>8, <1>9 DEF Next, Produce

\* In every reachable state of AgentRun's event stream, whatever its limits, the
\* queues hold runs of consecutive events that continue what each client has.
THEOREM StreamInvHolds == Spec => []StreamInv
<1>1. Init => StreamInv
  BY InitStreamInv
<1>2. StreamInv /\ [Next]_vars => StreamInv'
  BY StepKeepsStreamInv
<1> QED BY <1>1, <1>2, PTL DEF Spec

----------------------------------------------------------------------------
(* What follows from the invariant.                                         *)

\* Queue and history limits are respected, and every field keeps its type.
THEOREM TypeCorrect == Spec => []TypeOK
<1>1. StreamInv => TypeOK
  BY DEF StreamInv
<1> QED BY <1>1, StreamInvHolds, PTL

\* No client ever receives an event twice or out of order, over any number of
\* disconnections and replays.
THEOREM DeliveryInOrder == Spec => []SeenInOrder
<1>1. StreamInv => SeenInOrder
  BY DEF StreamInv, ClientInv, SeenInv, SeenInOrder
<1> QED BY <1>1, StreamInvHolds, PTL

\* Whoever is told the stream is over has received the terminal event, if the
\* limits leave room for it.
THEOREM TerminalDelivered == Spec => []EndSeesTerminal
<1>1. StreamInv => EndSeesTerminal
  BY DEF StreamInv, ClientInv, EndInv, EndSeesTerminal, SawTerminal
<1> QED BY <1>1, StreamInvHolds, PTL

\* A slow subscriber only lags: its queue is consecutive up to the last event.
THEOREM SlowSubscriberOnlyLags == Spec => []LagsOnlyBehind
<1>1. StreamInv => LagsOnlyBehind
  <2> SUFFICES ASSUME StreamInv, NEW c \in registered
               PROVE  /\ Consecutive(queue[c])
                      /\ IF queue[c] = <<>> THEN LastSeen(c) = nextId
                         ELSE queue[c][Len(queue[c])] = nextId
    BY DEF LagsOnlyBehind
  <2>1. TypeOK /\ ClientInv(c) /\ c \in Clients
    BY DEF StreamInv, TypeOK
  <2>2. PICK low \in LastSeen(c) .. nextId :
            IsRun(queue[c], low, nextId) /\ (low = nextId => LastSeen(c) = nextId)
    BY <2>1 DEF ClientInv, LiveInv
  <2>3. LastSeen(c) \in 0 .. nextId /\ nextId \in Nat
    BY <2>1, LastSeenInRange DEF ClientInv, TypeOK
  <2>4. low \in 0 .. nextId
    BY <2>2, <2>3
  <2>5. /\ queue[c] \in Seq(Nat) /\ Len(queue[c]) = nextId - low
        /\ \A i \in 1 .. Len(queue[c]) : queue[c][i] = low + i
    BY <2>2 DEF IsRun
  <2>6. Consecutive(queue[c])
    BY <2>3, <2>4, <2>5 DEF Consecutive
  <2>7. CASE queue[c] = <<>>
    BY <2>2, <2>3, <2>4, <2>5, <2>6, <2>7, EmptySeq
  <2>8. CASE queue[c] # <<>>
    <3>1. Len(queue[c]) \in 1 .. Len(queue[c])
      BY <2>3, <2>4, <2>5, <2>8, EmptySeq
    <3> QED BY <2>3, <2>4, <2>5, <2>6, <2>8, <3>1
  <2> QED BY <2>7, <2>8
<1> QED BY <1>1, StreamInvHolds, PTL

\* What subscribe replays is exactly what its loop puts in the queue, event by
\* event, for every history and every Last-Event-Id.
THEOREM ReplayIsTheLoop == Spec => []BacklogIsTheLoop
<1>1. StreamInv => BacklogIsTheLoop
  <2> SUFFICES ASSUME StreamInv, NEW lastId \in 0 .. nextId + 1
               PROVE  Backlog(events, lastId) = BacklogLoop(events, lastId)
    BY DEF BacklogIsTheLoop
  <2>1. nextId \in Nat
    BY DEF StreamInv, TypeOK
  <2>2. PICK low \in 0 .. nextId : IsRun(events, low, nextId)
    BY DEF StreamInv, HistoryInv
  <2>3. lastId \in Nat
    BY <2>1
  <2> QED BY <2>1, <2>2, <2>3, BacklogIsLoop
<1> QED BY <1>1, StreamInvHolds, PTL
----------------------------------------------------------------------------
(* The queues implement the promise made to a client.                       *)

\* Delivering the head of a queue is receiving a newer event, and the very next
\* one when nothing is bounded.
LEMMA DeliverIsReceive ==
    ASSUME StreamInv, NEW c \in Clients, Deliver(c)
    PROVE  Log!Receive(c)
<1> DEFINE q == queue[c]
<1>1. TypeOK /\ PhaseInv /\ ClientInv(c)
  BY DEF StreamInv
<1>2. /\ conn[c] = "open" /\ q # <<>> /\ Head(q) # Sentinel
      /\ seen' = [seen EXCEPT ![c] = Append(seen[c], Head(q))]
      /\ UNCHANGED <<nextId, done, doneAt, conn>>
  BY DEF Deliver, producerVars
<1>3. q \in Seq(Nat) /\ seen \in [Clients -> Seq(Nat)] /\ nextId \in Nat
      /\ doneAt \in 0 .. nextId
  BY <1>1 DEF TypeOK
<1>4. Head(q) = q[1] /\ Head(q) \in Nat /\ Len(q) \in Nat /\ Len(q) # 0
  BY <1>2, <1>3, HeadTailProperties, EmptySeq, LenProperties
<1>5. LastSeen(c) \in 0 .. nextId
  BY <1>1, LastSeenInRange DEF ClientInv
<1>6. \A d \in Clients : LastSeen(d)' = IF d = c THEN Head(q) ELSE LastSeen(d)
  <2> SUFFICES ASSUME NEW d \in Clients
               PROVE  LastSeen(d)' = IF d = c THEN Head(q) ELSE LastSeen(d)
    OBVIOUS
  <2>1. CASE d # c
    BY <1>2, <1>3, <2>1 DEF LastSeen
  <2>2. CASE d = c
    <3>1. seen'[c] = Append(seen[c], Head(q))
      BY <1>2, <1>3
    <3>2. /\ seen'[c] # <<>>
          /\ seen'[c][Len(seen'[c])] = Head(q)
      BY <1>3, <1>4, <3>1, AppendId, AppendProperties
    <3> QED BY <2>2, <3>2 DEF LastSeen
  <2> QED BY <2>1, <2>2
<1>7. Head(q) \in LastSeen(c) + 1 .. nextId /\ (Unbounded => Head(q) = LastSeen(c) + 1)
  <2>1. CASE c \in registered
    <3>1. PICK low \in LastSeen(c) .. nextId :
              IsRun(q, low, nextId) /\ (Unbounded => low = LastSeen(c))
      BY <1>1, <2>1 DEF ClientInv, LiveInv
    <3>2. q[1] = low + 1 /\ Len(q) = nextId - low
      BY <1>4, <3>1 DEF IsRun
    <3>3. low \in 0 .. nextId /\ low < nextId
      BY <1>3, <1>4, <1>5, <3>1, <3>2
    <3> HIDE DEF q
    <3> QED BY <1>3, <1>4, <1>5, <3>1, <3>2, <3>3
  <2>2. CASE c \notin registered
    <3>1. PICK top \in doneAt .. nextId : \E low \in LastSeen(c) .. top :
              IsClosedRun(q, low, top) /\ (Unbounded => low = LastSeen(c))
      BY <1>1, <1>2, <2>2 DEF PhaseInv, ClientInv, ClosedInv
    <3>2. PICK low \in LastSeen(c) .. top :
              IsClosedRun(q, low, top) /\ (Unbounded => low = LastSeen(c))
      BY <3>1
    <3>3. top \in 0 .. nextId /\ low \in 0 .. top
      BY <1>3, <1>5, <3>1, <3>2
    <3>4. Len(q) = top - low + 1 /\ q[Len(q)] = Sentinel
          /\ \A i \in 1 .. Len(q) - 1 : q[i] = low + i
      BY <3>2 DEF IsClosedRun
    <3>5. Len(q) # 1
      BY <1>2, <1>4, <3>4
    <3>6. q[1] = low + 1 /\ low + 1 <= top
      BY <1>4, <3>3, <3>4, <3>5
    <3> HIDE DEF q
    <3> QED BY <1>3, <1>4, <1>5, <3>2, <3>3, <3>6
  <2> QED BY <2>1, <2>2
<1>8. [d \in Clients |-> LastSeen(d)]'
        = [[d \in Clients |-> LastSeen(d)] EXCEPT ![c] = Head(q)]
  BY <1>6
<1>9. c \notin {d \in Clients : conn[d] = "ended"}
  BY <1>2
<1>10. UNCHANGED <<nextId, done, doneAt, {d \in Clients : conn[d] = "ended"}>>
  BY <1>2
<1>11. Head(q) \in [d \in Clients |-> LastSeen(d)][c] + 1 .. nextId
       /\ (MaxQueue = 0 /\ MaxHistory = 0
             => Head(q) = [d \in Clients |-> LastSeen(d)][c] + 1)
  BY <1>7 DEF Unbounded
<1> HIDE DEF q
<1> QED BY <1>8, <1>9, <1>10, <1>11 DEF Log!Receive

\* The sentinel comes after the last event: the end is told once, when the run
\* is closed and, if nothing is bounded, everything has been received.
LEMMA FinishIsEnd ==
    ASSUME StreamInv, NEW c \in Clients, Finish(c)
    PROVE  Log!End(c)
<1>1. /\ conn[c] = "open" /\ conn' = [conn EXCEPT ![c] = "ended"]
      /\ UNCHANGED <<nextId, done, doneAt, seen>>
  BY DEF Finish, producerVars
<1>2. conn \in [Clients -> {"off", "open", "ended"}]
  BY DEF StreamInv, TypeOK
<1>3. done /\ (Unbounded => LastSeen(c) >= doneAt)
  BY SentinelIsLast
<1>4. {d \in Clients : conn[d] = "ended"}'
        = {d \in Clients : conn[d] = "ended"} \cup {c}
  BY <1>1, <1>2
<1>5. [d \in Clients |-> LastSeen(d)]' = [d \in Clients |-> LastSeen(d)]
  BY <1>1 DEF LastSeen
<1> QED BY <1>1, <1>3, <1>4, <1>5 DEF Log!End, Unbounded

\* A step that leaves the ids, the close and what clients have and know alone is
\* invisible to the promise.
LEMMA InvisibleStep ==
    ASSUME UNCHANGED <<nextId, done, doneAt, seen>>,
           {c \in Clients : conn[c] = "ended"}' = {c \in Clients : conn[c] = "ended"}
    PROVE  UNCHANGED Log!logVars
<1>1. [c \in Clients |-> LastSeen(c)]' = [c \in Clients |-> LastSeen(c)]
  BY DEF LastSeen
<1> QED BY <1>1 DEF Log!logVars

\* Every step is a step of the promised log, or invisible to it.
LEMMA StepRefinesEventLog ==
    StreamInv /\ [Next]_vars => [Log!LogNext]_(Log!logVars)
<1> SUFFICES ASSUME StreamInv, [Next]_vars PROVE [Log!LogNext]_(Log!logVars)
  OBVIOUS
<1>1. CASE Record
  <2>1. nextId' = nextId + 1 /\ UNCHANGED <<done, doneAt, conn, seen>>
    BY <1>1 DEF Record, clientVars
  <2>2. [c \in Clients |-> LastSeen(c)]' = [c \in Clients |-> LastSeen(c)]
    BY <2>1 DEF LastSeen
  <2> QED BY <2>1, <2>2 DEF Log!LogNext, Log!Emit
<1>2. CASE MarkDone
  <2>1. ~done /\ done' = TRUE /\ doneAt' = nextId /\ UNCHANGED <<nextId, conn, seen>>
    BY <1>2 DEF MarkDone, clientVars
  <2>2. [c \in Clients |-> LastSeen(c)]' = [c \in Clients |-> LastSeen(c)]
    BY <2>1 DEF LastSeen
  <2> QED BY <2>1, <2>2 DEF Log!LogNext, Log!Close
<1>3. ASSUME NEW c \in Clients, Attach(c) \/ Disconnect(c)
      PROVE  UNCHANGED Log!logVars
  <2>1. conn[c] # "ended" /\ conn'[c] # "ended"
        /\ \A d \in Clients : d # c => conn'[d] = conn[d]
    BY <1>3 DEF Attach, Disconnect, StreamInv, TypeOK
  <2>2. UNCHANGED <<nextId, done, doneAt, seen>>
    BY <1>3 DEF Attach, Disconnect, producerVars
  <2>3. {d \in Clients : conn[d] = "ended"}' = {d \in Clients : conn[d] = "ended"}
    BY <2>1
  <2> QED BY <2>2, <2>3, InvisibleStep
<1>4. ASSUME NEW c \in Clients, Deliver(c) PROVE Log!LogNext
  BY <1>4, DeliverIsReceive DEF Log!LogNext
<1>5. ASSUME NEW c \in Clients, Finish(c) PROVE Log!LogNext
  BY <1>5, FinishIsEnd DEF Log!LogNext
<1>6. CASE UNCHANGED vars
  BY <1>6, InvisibleStep DEF vars, producerVars, clientVars
<1> QED BY <1>1, <1>2, <1>3, <1>4, <1>5, <1>6
        DEF Next, Produce, Publish, PublishTerminal, PublishLate

\* For every set of clients and every limit, publish, subscribe and mark_done
\* implement EventLog: ordered delivery with resume, complete when unbounded.
THEOREM StreamRefinesEventLog == Spec => ImplementsEventLog
<1>1. Init => Log!LogInit
  <2> SUFFICES ASSUME Init PROVE Log!LogInit
    OBVIOUS
  <2>1. [c \in Clients |-> LastSeen(c)] = [c \in Clients |-> 0]
    BY DEF Init, LastSeen
  <2>2. {c \in Clients : conn[c] = "ended"} = {}
    BY DEF Init
  <2> QED BY <2>1, <2>2 DEF Init, Log!LogInit
<1>2. StreamInv /\ [Next]_vars => [Log!LogNext]_(Log!logVars)
  BY StepRefinesEventLog
<1> QED BY <1>1, <1>2, StreamInvHolds, PTL DEF Spec, ImplementsEventLog, Log!LogSpec
----------------------------------------------------------------------------
(* Without limits a client's hands hold the stream from its start.           *)

\* What a client has received are the ids from 1 on, each at its own place.
SeenFromStart ==
    Unbounded => \A c \in Clients : \A i \in 1 .. Len(seen[c]) : seen[c][i] = i

\* And who is told the end has them up to the last event before the close.
SeenIsWhole ==
    /\ SeenFromStart
    /\ Unbounded => \A c \in Clients : conn[c] = "ended" => doneAt \in 0 .. Len(seen[c])

\* The last id received is then how many were.
LEMMA LastIsLen ==
    ASSUME TypeOK, SeenFromStart, Unbounded, NEW c \in Clients
    PROVE  LastSeen(c) = Len(seen[c]) /\ Len(seen[c]) \in Nat
<1>1. seen[c] \in Seq(Nat) /\ Len(seen[c]) \in Nat
  BY LenProperties DEF TypeOK
<1>2. CASE seen[c] = <<>>
  BY <1>2, EmptySeq DEF LastSeen
<1>3. CASE seen[c] # <<>>
  <2>1. Len(seen[c]) \in 1 .. Len(seen[c])
    BY <1>1, <1>3, EmptySeq
  <2> QED BY <1>1, <1>3, <2>1 DEF LastSeen, SeenFromStart
<1> QED BY <1>2, <1>3

\* The next event delivered takes the next place.
LEMMA DeliverKeepsStart ==
    ASSUME StreamInv, SeenFromStart, Unbounded, NEW c \in Clients, Deliver(c)
    PROVE  SeenFromStart'
<1>1. TypeOK
  BY DEF StreamInv
<1>2. /\ queue[c] \in Seq(Nat) /\ queue[c] # <<>> /\ seen \in [Clients -> Seq(Nat)]
      /\ seen' = [seen EXCEPT ![c] = Append(seen[c], Head(queue[c]))]
  BY <1>1 DEF TypeOK, Deliver
<1>3. Head(queue[c]) \in Nat /\ seen[c] \in Seq(Nat)
  BY <1>2, HeadTailProperties
<1>4. /\ seen'[c] = Append(seen[c], Head(queue[c])) /\ seen'[c] # <<>>
      /\ Len(seen[c]) \in Nat /\ Len(seen'[c]) = Len(seen[c]) + 1
      /\ \A i \in 1 .. Len(seen[c]) : seen'[c][i] = seen[c][i]
      /\ seen'[c][Len(seen'[c])] = Head(queue[c])
  BY <1>2, <1>3, AppendId, AppendProperties
<1>5. [d \in Clients |-> LastSeen(d)]'[c] = [d \in Clients |-> LastSeen(d)][c] + 1
  <2> DEFINE cursor == [d \in Clients |-> LastSeen(d)]
  <2>1. PICK id \in cursor[c] + 1 .. nextId :
            /\ MaxQueue = 0 /\ MaxHistory = 0 => id = cursor[c] + 1
            /\ cursor' = [cursor EXCEPT ![c] = id]
    BY DeliverIsReceive DEF Log!Receive
  <2>2. c \in DOMAIN cursor
    OBVIOUS
  <2>3. cursor'[c] = cursor[c] + 1
    <3> HIDE DEF cursor
    <3> QED BY <2>1, <2>2 DEF Unbounded
  <2> QED BY <2>3
<1>6. LastSeen(c)' = LastSeen(c) + 1
  BY <1>5
<1>7. LastSeen(c)' = Head(queue[c])
  BY <1>4 DEF LastSeen
<1>8. Head(queue[c]) = Len(seen[c]) + 1
  BY <1>1, <1>6, <1>7, LastIsLen
<1>9. \A i \in 1 .. Len(seen'[c]) : seen'[c][i] = i
  <2>1. \A i \in 1 .. Len(seen'[c]) : i \in 1 .. Len(seen[c]) \/ i = Len(seen[c]) + 1
    BY <1>4
  <2> QED BY <1>4, <1>8, <2>1 DEF SeenFromStart
<1>10. \A d \in Clients : d # c => seen'[d] = seen[d]
  BY <1>2
<1> QED BY <1>9, <1>10 DEF SeenFromStart

\* Without limits every client receives the events from the first on, none left
\* out over any number of reconnections, and one that is told the end has all
\* that were published before the close.
THEOREM NothingLostWithoutLimits == Spec => []SeenIsWhole
<1>1. Init => SeenFromStart
  <2> SUFFICES ASSUME Init, NEW c \in Clients PROVE \A i \in 1 .. Len(seen[c]) : seen[c][i] = i
    BY DEF SeenFromStart
  <2>1. seen[c] = <<>>
    BY DEF Init
  <2> QED BY <2>1, EmptySeq
<1>2. StreamInv /\ SeenFromStart /\ [Next]_vars => SeenFromStart'
  <2> SUFFICES ASSUME StreamInv, SeenFromStart, [Next]_vars, Unbounded
               PROVE  SeenFromStart'
    BY DEF SeenFromStart, Unbounded
  <2>1. CASE \E c \in Clients : Deliver(c)
    BY <2>1, DeliverKeepsStart
  <2>2. CASE seen' = seen
    BY <2>2 DEF SeenFromStart
  <2> QED BY <2>1, <2>2 DEF Next, Produce, Publish, PublishTerminal, PublishLate, Record,
             MarkDone, Attach, Finish, Disconnect, clientVars, vars
<1>3. StreamInv /\ SeenFromStart => SeenIsWhole
  <2> SUFFICES ASSUME StreamInv, SeenFromStart, Unbounded, NEW c \in Clients,
                      conn[c] = "ended"
               PROVE  doneAt \in 0 .. Len(seen[c])
    BY DEF SeenIsWhole
  <2>1. LastSeen(c) >= doneAt /\ doneAt \in 0 .. nextId /\ nextId \in Nat
    BY DEF StreamInv, TypeOK, ClientInv, EndInv
  <2>2. LastSeen(c) = Len(seen[c]) /\ Len(seen[c]) \in Nat
    BY LastIsLen DEF StreamInv
  <2> QED BY <2>1, <2>2
<1> QED BY <1>1, <1>2, <1>3, StreamInvHolds, PTL DEF Spec

----------------------------------------------------------------------------
(* Nobody waits for ever on a closed stream: the part of EveryStreamEnds that *)
(* does not depend on fairness.                                             *)

\* The generator of an open subscription to a closed run has something to read,
\* and what it reads last, and nothing before, is the sentinel.
SentinelWaits ==
    \A c \in Clients :
        conn[c] = "open" /\ done =>
            /\ Len(queue[c]) \in Nat \ {0}
            /\ \A i \in 1 .. Len(queue[c]) : queue[c][i] = Sentinel <=> i = Len(queue[c])

\* Nothing is ever added to it: whatever happens, it stays as it is, loses its
\* head to the client, or the subscription is over.
ClosedOnlyDrains ==
    \A c \in Clients :
        conn[c] = "open" /\ done =>
            \/ conn'[c] # "open"
            \/ queue'[c] = queue[c]
            \/ queue'[c] = Tail(queue[c])

\* mark_done and a late subscribe leave the sentinel where every reader comes
\* to it (runs.py:164-176, 194-205).
THEOREM SentinelIsAhead == Spec => []SentinelWaits
<1>1. StreamInv => SentinelWaits
  <2> SUFFICES ASSUME StreamInv, NEW c \in Clients, conn[c] = "open", done
               PROVE  /\ Len(queue[c]) \in Nat \ {0}
                      /\ \A i \in 1 .. Len(queue[c]) :
                             queue[c][i] = Sentinel <=> i = Len(queue[c])
    BY DEF SentinelWaits
  <2>1. TypeOK /\ ClosedInv(c) /\ SeenInv(c)
    BY DEF StreamInv, ClientInv
  <2>2. LastSeen(c) \in 0 .. nextId /\ nextId \in Nat /\ doneAt \in 0 .. nextId
    BY <2>1, LastSeenInRange DEF TypeOK
  <2>3. PICK top \in doneAt .. nextId : \E low \in LastSeen(c) .. top :
            IsClosedRun(queue[c], low, top)
    BY <2>1 DEF ClosedInv
  <2>4. PICK low \in LastSeen(c) .. top : IsClosedRun(queue[c], low, top)
    BY <2>3
  <2>5. top \in Nat /\ low \in 0 .. top
    BY <2>2
  <2>6. /\ Len(queue[c]) = top - low + 1 /\ queue[c][Len(queue[c])] = Sentinel
        /\ \A i \in 1 .. Len(queue[c]) - 1 : queue[c][i] = low + i
    BY <2>4 DEF IsClosedRun
  <2>7. ASSUME NEW i \in 1 .. Len(queue[c]), i # Len(queue[c])
        PROVE  queue[c][i] # Sentinel
    <3>1. i \in 1 .. Len(queue[c]) - 1
      BY <2>5, <2>6, <2>7
    <3> QED BY <2>5, <2>6, <3>1 DEF Sentinel
  <2>8. Len(queue[c]) \in Nat \ {0}
    BY <2>5, <2>6
  <2> QED BY <2>6, <2>7, <2>8
<1> QED BY <1>1, StreamInvHolds, PTL

\* So a client that keeps reading is told the end after as many reads as its
\* queue holds, and nothing the run or other clients do can put it off.
THEOREM ClosedStreamsDrain == Spec => [][ClosedOnlyDrains]_vars
<1>1. StreamInv /\ [Next]_vars => ClosedOnlyDrains
  <2> SUFFICES ASSUME StreamInv, [Next]_vars, NEW c \in Clients, conn[c] = "open", done
               PROVE  \/ conn'[c] # "open"
                      \/ queue'[c] = queue[c]
                      \/ queue'[c] = Tail(queue[c])
    BY DEF ClosedOnlyDrains
  <2>1. registered = {} /\ TypeOK
    BY DEF StreamInv, PhaseInv
  <2>2. CASE Produce
    BY <2>1, <2>2 DEF Produce, Publish, PublishTerminal, PublishLate, Record, MarkDone
  <2>3. ASSUME NEW d \in Clients, Attach(d) PROVE queue'[c] = queue[c]
    BY <2>1, <2>3 DEF Attach, TypeOK
  <2>4. ASSUME NEW d \in Clients, Deliver(d)
        PROVE  queue'[c] = queue[c] \/ queue'[c] = Tail(queue[c])
    BY <2>1, <2>4 DEF Deliver, TypeOK
  <2>5. ASSUME NEW d \in Clients, Finish(d) \/ Disconnect(d)
        PROVE  conn'[c] # "open" \/ queue'[c] = queue[c]
    BY <2>1, <2>5 DEF Finish, Disconnect, TypeOK
  <2>6. CASE UNCHANGED vars
    BY <2>6 DEF vars
  <2> QED BY <2>2, <2>3, <2>4, <2>5, <2>6 DEF Next
<1> QED BY <1>1, StreamInvHolds, PTL DEF Spec
=============================================================================
