------------------------------ MODULE RateLimit ------------------------------
(***************************************************************************)
(* rate_limit (src/codagent/tools/rate_limit.py): one sliding window shared  *)
(* by the threads that call one decorated tool.  The pass through the lock   *)
(* (read the clock, drop expired calls, count) is one action; a blocked      *)
(* thread sleeps outside the lock and passes through it again.               *)
(*                                                                         *)
(* The code uses only differences to now, so the clock stands at 0 and a     *)
(* Tick makes every recorded call older.  A tick is the least time the code  *)
(* sleeps (0.001 s); Window ticks are its window of one second.              *)
(***************************************************************************)
EXTENDS Integers, Sequences, FiniteSetsExt

CONSTANTS Callers,       \* threads calling the tool
          Calls,         \* per_second is Calls / Seconds: a float, so any ratio
          Seconds,
          Window,        \* ticks in one second
          Depth          \* length of the history kept for the properties

\* The most calls one window admits: len(calls) < per_second, rounded up.
Capacity == (Calls + Seconds - 1) \div Seconds

Horizon == Seconds * Window + 1   \* older calls are not told apart

\* rate_limit raises ValueError unless per_second > 0.
ASSUME ConfigIsValid ==
    /\ Calls \in Nat \ {0} /\ Seconds \in Nat \ {0}
    /\ Window \in Nat \ {0}
    /\ Depth \in Nat /\ Depth >= Capacity

VARIABLES calls,   \* ages of the calls in the deque, newest first
          caller,  \* "idle", "running", "refused" or "asleep"
          left,    \* ticks each sleeping thread has left
          raises,  \* raise_on_exceed, as the tool was decorated
          history  \* ages of the last Depth calls admitted, newest first

vars == <<calls, caller, left, raises, history>>

----------------------------------------------------------------------------

\* Mutant of Live: a call exactly a window old is popped.
LiveAtBoundary(s) ==
    SubSeq(s, 1, Max({0} \cup {i \in DOMAIN s : s[i] < Window}))

\* calls once the oldest ones with calls[0] < now - window are popped.
Live(s) == SubSeq(s, 1, Max({0} \cup {i \in DOMAIN s : s[i] <= Window}))

\* len(calls) < capacity, for capacity = Calls / Seconds.
HasRoom(live) == Len(live) * Seconds < Calls

Remember(s) == <<0>> \o SubSeq(s, 1, IF Len(s) < Depth THEN Len(s) ELSE Depth - 1)

Init ==
    /\ calls = << >>
    /\ caller = [c \in Callers |-> "idle"]
    /\ left = [c \in Callers |-> 0]
    /\ raises \in BOOLEAN
    /\ history = << >>

\* Mutant of Pass: a blocked thread sleeps on and never looks again.
PassOnceOnly(c) ==
    LET live == Live(calls)
    IN IF HasRoom(live) /\ caller[c] # "asleep"
       THEN /\ calls' = <<0>> \o live
            /\ history' = Remember(history)
            /\ caller' = [caller EXCEPT ![c] = "running"]
            /\ UNCHANGED left
       ELSE /\ calls' = live
            /\ caller' = [caller EXCEPT ![c] = "asleep"]
            /\ left' = [left EXCEPT ![c] = Window]
            /\ UNCHANGED history

\* One pass through the lock: admitted, refused with RateLimitExceeded, or put
\* to sleep until the oldest call is a window old.
Pass(c) ==
    LET live == Live(calls)
    IN IF HasRoom(live)
       THEN /\ calls' = <<0>> \o live
            /\ history' = Remember(history)
            /\ caller' = [caller EXCEPT ![c] = "running"]
            /\ UNCHANGED left
       ELSE /\ calls' = live
            /\ IF raises
               THEN caller' = [caller EXCEPT ![c] = "refused"] /\ UNCHANGED left
               ELSE /\ caller' = [caller EXCEPT ![c] = "asleep"]
                    /\ left' = [left EXCEPT ![c] =
                                  Max({1, Window - live[Len(live)]})]
            /\ UNCHANGED history

Call(c) == caller[c] \in {"idle", "refused"} /\ Pass(c) /\ UNCHANGED raises

\* time.sleep is over: back to the top of the loop.
Wake(c) == caller[c] = "asleep" /\ left[c] = 0 /\ Pass(c) /\ UNCHANGED raises

\* The tool returns or raises.
Return(c) ==
    /\ caller[c] = "running"
    /\ caller' = [caller EXCEPT ![c] = "idle"]
    /\ UNCHANGED <<calls, left, raises, history>>

Older(s) == [i \in DOMAIN s |-> IF s[i] < Horizon THEN s[i] + 1 ELSE Horizon]

\* The clock advances.
Tick ==
    /\ calls' = Older(calls)
    /\ history' = Older(history)
    /\ left' = [c \in Callers |-> IF left[c] > 0 THEN left[c] - 1 ELSE 0]
    /\ UNCHANGED <<caller, raises>>

Next ==
    \/ Tick
    \/ \E c \in Callers : Call(c) \/ Wake(c) \/ Return(c)

Spec == Init /\ [][Next]_vars

\* The clock runs, a thread whose sleep is over runs, and the tool returns.
FairSpec ==
    /\ Spec
    /\ WF_vars(Tick)
    /\ \A c \in Callers : WF_vars(Wake(c)) /\ WF_vars(Return(c))

----------------------------------------------------------------------------
(* Properties.                                                              *)

\* The ages and the threads have their types; no sleep is longer than a window.
TypeOK ==
    /\ calls \in Seq(0 .. Horizon)
    /\ caller \in [Callers -> {"idle", "running", "refused", "asleep"}]
    /\ left \in [Callers -> 0 .. Window]
    /\ raises \in BOOLEAN
    /\ history \in Seq(0 .. Horizon)
    /\ Len(history) <= Depth

\* The deque holds the latest calls admitted and every one of the last window,
\* and never more than Capacity of them.
DequeIsLatest ==
    /\ Len(calls) <= Capacity
    /\ Len(calls) <= Len(history)
    /\ \A i \in DOMAIN history :
           IF i <= Len(calls) THEN calls[i] = history[i]
                              ELSE history[i] > Window

\* A call is admitted.
Admission == \E c \in Callers : caller[c] # "running" /\ caller'[c] = "running"

\* A call is admitted only when the n-th call before it is at least d ticks old:
\* no period of d ticks admits more than n calls, whenever it starts.
Spaced(n, d) == Admission /\ Len(history) >= n => history[n] >= d

\* No closed window of one second, wherever it starts and whoever calls or wakes
\* up in it, admits more than Capacity calls.
WindowIsLimited == [][Spaced(Capacity, Window + 1)]_vars

\* Blocked threads cannot wait on each other for ever: one of them, or a
\* newcomer, gets through.
SomeoneGetsThrough ==
    (\E c \in Callers : caller[c] = "asleep")
        ~> (\E c \in Callers : caller[c] = "running")

=============================================================================
