------------------------------ MODULE NodeStack ------------------------------
(***************************************************************************)
(* The node wrappers of src/codagent/nodes, stacked as docs/modules/nodes.md *)
(* recommends, with the loop guard and the tracer between cache and node:    *)
(* with_retry(with_timeout(with_cache(with_loop_guard(trace(parse(node)))))).*)
(* Threads share one stack, so they share its cache and its guard's history; *)
(* neither has a lock.                                                      *)
(*                                                                         *)
(* with_timeout runs what it wraps in a worker thread and waits for it, so   *)
(* caller and worker are one process with one phase.  Threads switch at     *)
(* calls (CPython 3.10 and later, keys hashed and compared in C): from the   *)
(* membership test to move_to_end, and from the store to the first len(), is *)
(* one step; the guard's generator, the node and each turn of the eviction   *)
(* loop are steps of their own.  The clock counts ticks up to MaxClock.      *)
(***************************************************************************)
EXTENDS Integers, SequencesExt

CONSTANTS Threads, Keys,
          NoKey,              \* the key of a thread that has made no call
          Attempts,           \* with_retry
          RetryOn,            \* with_retry's on, of the Errors below
          Seconds,            \* with_timeout
          Ttl, MaxSize,       \* with_cache
          Window, MaxRepeats, \* with_loop_guard
          MaxCalls,           \* bound on the calls of each thread
          MaxClock            \* bound on the clock

Errors == {"NodeTimeout", "LoopDetected", "RuntimeError", "KeyError", "error"}

\* The wrappers raise ValueError otherwise, but for the ttl: with_cache accepts
\* any, None for no expiry and zero or less for entries that are never used.
ASSUME ConfigIsValid ==
    /\ {Attempts, Seconds, Ttl, MaxSize, Window, MaxRepeats} \subseteq Nat \ {0}
    /\ RetryOn \subseteq Errors
    /\ NoKey \notin Keys
    /\ {MaxCalls, MaxClock} \subseteq Nat

\* A process has some threads.
ASSUME ThreadsAreFinite == IsFiniteSet(Threads)

VARIABLES clock,
          cache,   \* the OrderedDict, least recently used first: each entry has
                   \* its key, its expiry and (history) when its node call began
          history, \* the guard's deque of fingerprints
          call     \* what each thread and its worker are doing

stackVars == <<clock, cache, history, call>>

Idle == [phase |-> "idle", key |-> NoKey, attempt |-> 0,
         since |-> 0, now |-> 0, late |-> FALSE, disturbed |-> FALSE,
         own |-> 0, began |-> 0, served |-> 0, calls |-> 0]

\* The phases in which the worker runs and the caller waits for it.
InWorker == {"submitted", "asked", "missed", "counting", "counted", "running",
             "storing", "stored", "full"}

At(c, p) == call[c].phase = p
Go(c, p) == call' = [call EXCEPT ![c].phase = p]
Holding(k) == {i \in 1 .. Len(cache) : cache[i].key = k}
Place(k) == CHOOSE i \in Holding(k) : TRUE
Without(k) == IF Holding(k) = {} THEN cache ELSE RemoveAt(cache, Place(k))

\* The entry of k that calls had stored is gone.
Forgotten(k) == [c \in Threads |->
    IF call[c].key = k THEN [call[c] EXCEPT !.own = 0] ELSE call[c]]

StackInit ==
    /\ clock = 0
    /\ cache = <<>>
    /\ history = <<>>
    /\ call = [c \in Threads |-> Idle]

Tick ==
    /\ clock < MaxClock
    /\ clock' = clock + 1
    /\ UNCHANGED <<cache, history, call>>

----------------------------------------------------------------------------
(* with_retry and with_timeout.                                             *)

Call(c, k) ==
    /\ At(c, "idle") /\ call[c].calls < MaxCalls
    /\ call' = [call EXCEPT ![c] =
           [Idle EXCEPT !.phase = "submitted", !.key = k, !.attempt = 1,
                        !.since = clock, !.calls = call[c].calls + 1]]
    /\ UNCHANGED <<clock, cache, history>>

\* future.result gives up on the worker, and the executor's exit waits for it.
TimesOut(c) ==
    /\ call[c].phase \in InWorker /\ ~call[c].late
    /\ clock >= call[c].since + Seconds
    /\ call' = [call EXCEPT ![c].late = TRUE]
    /\ UNCHANGED <<clock, cache, history>>

\* What the worker ended with reaches the caller unless it gave up before; an
\* error in `on` is retried after a backoff, the last one is raised.
Settled(c, outcome) ==
    LET seen == IF call[c].late THEN "NodeTimeout" ELSE outcome
    IN [call[c] EXCEPT
            !.phase = IF seen \in RetryOn /\ call[c].attempt < Attempts
                      THEN "backoff" ELSE "idle",
            !.late = FALSE, !.disturbed = FALSE]

WorkerEnds(c, outcome) == call' = [call EXCEPT ![c] = Settled(c, outcome)]

\* The backoff is over and the next attempt is submitted.
Retry(c) ==
    /\ At(c, "backoff")
    /\ call' = [call EXCEPT ![c].phase = "submitted", ![c].attempt = @ + 1,
                            ![c].since = clock]
    /\ UNCHANGED <<clock, cache, history>>

----------------------------------------------------------------------------
(* with_cache: the lookup.                                                  *)

\* The worker starts and reads the clock once for lookup and expiry.
ReadClock(c) ==
    /\ At(c, "submitted")
    /\ call' = [call EXCEPT ![c].phase = "asked", ![c].now = clock]
    /\ UNCHANGED <<clock, cache, history>>

\* A live entry becomes the most recent and is the answer; an expired one is
\* deleted.
Lookup(c) ==
    LET k == call[c].key
    IN /\ At(c, "asked")
       /\ IF \E i \in Holding(k) : cache[i].expiry > call[c].now
          THEN LET entry == cache[Place(k)]
               IN /\ cache' = Append(Without(k), entry)
                  /\ call' = [call EXCEPT ![c] =
                         [Settled(c, "value")
                             EXCEPT !.served = call[c].now - entry.began]]
          ELSE /\ cache' = Without(k)
               /\ call' = [d \in Threads |->
                      IF d = c THEN [call[c] EXCEPT !.phase = "missed"]
                      ELSE IF Holding(k) = {} THEN call[d] ELSE Forgotten(k)[d]]
       /\ UNCHANGED <<clock, history>>

----------------------------------------------------------------------------
(* with_loop_guard.                                                         *)

Repeats(k) == Cardinality({i \in 1 .. Len(history) : history[i] = k})

\* The generator over the deque starts.
StartCount(c) ==
    /\ At(c, "missed")
    /\ call' = [call EXCEPT ![c].phase = "counting", ![c].disturbed = FALSE]
    /\ UNCHANGED <<clock, cache, history>>

\* Mutant of Count: one repeat too many is let through.
CountStrictly(c) ==
    /\ At(c, "counting")
    /\ IF call[c].disturbed THEN WorkerEnds(c, "RuntimeError")
       ELSE IF Repeats(call[c].key) > MaxRepeats THEN WorkerEnds(c, "LoopDetected")
       ELSE Go(c, "counted")
    /\ UNCHANGED <<clock, cache, history>>

\* It ends: an append meanwhile is an error of the deque's iterator; too many
\* repeats raise, and the refused call is not recorded.
Count(c) ==
    /\ At(c, "counting")
    /\ IF call[c].disturbed THEN WorkerEnds(c, "RuntimeError")
       ELSE IF Repeats(call[c].key) >= MaxRepeats THEN WorkerEnds(c, "LoopDetected")
       ELSE Go(c, "counted")
    /\ UNCHANGED <<clock, cache, history>>

\* The call is recorded, the oldest one drops out, and the node starts.
Record(c) ==
    LET longer == Append(history, call[c].key)
    IN /\ At(c, "counted")
       /\ history' = IF Len(longer) > Window THEN Tail(longer) ELSE longer
       /\ call' = [d \in Threads |->
              IF d = c THEN [call[c] EXCEPT !.phase = "running", !.began = clock]
              ELSE [call[d] EXCEPT !.disturbed = @ \/ At(d, "counting")]]
       /\ UNCHANGED <<clock, cache>>

----------------------------------------------------------------------------
(* The node, with parse_structured and StateTracer around it.               *)

\* A string is parsed as JSON first, and the parser accepts it or raises.
Parsed(raw) == IF raw = "prose" THEN {"error"} ELSE {"value", "error"}

\* The tracer records either way, and a raising on_step replaces a result by
\* its own error.
Traced(outcome) == {outcome, "error"}

NodeEnds(c) ==
    /\ At(c, "running")
    /\ \E raw \in {"object", "json", "prose", "error"} :
           \E parsed \in IF raw = "error" THEN {"error"} ELSE Parsed(raw) :
               \E outcome \in Traced(parsed) :
                   IF outcome = "value" THEN Go(c, "storing")
                   ELSE WorkerEnds(c, "error")
    /\ UNCHANGED <<clock, cache, history>>

----------------------------------------------------------------------------
(* with_cache: the store.                                                   *)

Stored(c, expiry) ==
    call' = [Forgotten(call[c].key) EXCEPT ![c].phase = "stored", ![c].own = expiry]

\* Mutant of Store: the entry lives for Ttl from now, not from the question.
StoreFromNow(c) ==
    /\ At(c, "storing")
    /\ cache' = Append(Without(call[c].key),
                       [key |-> call[c].key, expiry |-> clock + Ttl,
                        began |-> call[c].began])
    /\ Stored(c, clock + Ttl)
    /\ UNCHANGED <<clock, history>>

\* Mutant of Store: a value whose caller gave up is thrown away.
StoreInTime(c) ==
    /\ At(c, "storing")
    /\ cache' = IF call[c].late THEN cache
                ELSE Append(Without(call[c].key),
                            [key |-> call[c].key, expiry |-> call[c].now + Ttl,
                             began |-> call[c].began])
    /\ Stored(c, call[c].now + Ttl)
    /\ UNCHANGED <<clock, history>>

\* The value is stored and made the most recent.
Store(c) ==
    /\ At(c, "storing")
    /\ cache' = Append(Without(call[c].key),
                       [key |-> call[c].key, expiry |-> call[c].now + Ttl,
                        began |-> call[c].began])
    /\ Stored(c, call[c].now + Ttl)
    /\ UNCHANGED <<clock, history>>

\* Mutant of CheckSize: one entry too many is tolerated.
CheckSizeLoosely(c) ==
    /\ At(c, "stored")
    /\ IF Len(cache) > MaxSize + 1 THEN Go(c, "full") ELSE WorkerEnds(c, "value")
    /\ UNCHANGED <<clock, cache, history>>

CheckSize(c) ==
    /\ At(c, "stored")
    /\ IF Len(cache) > MaxSize THEN Go(c, "full") ELSE WorkerEnds(c, "value")
    /\ UNCHANGED <<clock, cache, history>>

\* popitem: others may have emptied the cache since its size was read.
Evict(c) ==
    /\ At(c, "full")
    /\ IF cache = <<>>
       THEN WorkerEnds(c, "KeyError") /\ UNCHANGED cache
       ELSE /\ cache' = Tail(cache)
            /\ call' = [Forgotten(Head(cache).key) EXCEPT ![c].phase = "stored"]
    /\ UNCHANGED <<clock, history>>

----------------------------------------------------------------------------

WorkerStep(c) ==
    \/ ReadClock(c) \/ Lookup(c) \/ StartCount(c) \/ Count(c) \/ Record(c)
    \/ Store(c) \/ CheckSize(c) \/ Evict(c)

CallerStep(c) == TimesOut(c) \/ Retry(c)

StackNext ==
    \/ Tick
    \/ \E c \in Threads : WorkerStep(c) \/ CallerStep(c) \/ NodeEnds(c)
    \/ \E c \in Threads, k \in Keys : Call(c, k)

StackSpec == StackInit /\ [][StackNext]_stackVars

\* Threads run and time passes; a node need not ever return.
FairStackSpec ==
    /\ StackSpec
    /\ WF_stackVars(Tick)
    /\ \A c \in Threads : WF_stackVars(WorkerStep(c)) /\ WF_stackVars(CallerStep(c))

----------------------------------------------------------------------------
(* Properties.                                                              *)

\* An answer from the cache is younger than ttl, counted from the moment its
\* node call began to the moment it was asked for, however long the node and
\* the threads took in between.
AnswersAreFresh == \A c \in Threads : call[c].served < Ttl

\* Threads that store at once evict for each other, and the cache outgrows
\* max_size only by the stores whose eviction loop is still running.
CacheIsBounded ==
    Len(cache) <= MaxSize
        + Cardinality({c \in Threads : call[c].phase \in {"stored", "full"}})

\* The guard counts and records in separate steps: of the last Window calls at
\* most MaxRepeats are alike, plus one for each further thread.
RepeatsAreBounded ==
    \A k \in Keys : Repeats(k) <= MaxRepeats + Cardinality(Threads) - 1

\* A node that succeeds after its caller gave up has not worked in vain: the
\* retry finds the value, and runs the node again only if it expired, or was
\* evicted, replaced or found expired by another call.
LateValueIsUsed ==
    \A c \in Threads :
        call[c].phase \in {"missed", "counting", "counted", "running"}
            => call[c].own <= call[c].now

\* "a timed-out node continues to run in the background" (timeout.py:8-10): a
\* caller whose time is up is given NodeTimeout while the node goes on.
DeadlineIsHard ==
    \A c \in Threads : call[c].late ~> (call[c].phase \in {"idle", "backoff"})
=============================================================================
