------------------------------ MODULE RunTask -------------------------------
(***************************************************************************)
(* run_task (src/codagent/server/runs.py), the background task that drives  *)
(* one run: middleware hooks, the pre-emptive budget check, the token loop  *)
(* with its cooperative cancel and its budget check, the close of the       *)
(* upstream generator, hard cancellation, contract validation, the terminal *)
(* event, mark_done and the after_run hooks.                                *)
(*                                                                         *)
(* asyncio runs one task at a time and switches only where a task awaits,   *)
(* so a step here runs from one await to the next.  The awaits are the      *)
(* middleware hooks (pc "before", "afterRun", and every publish, whose      *)
(* after_event hooks run outside the lock), the upstream (pc "streaming")   *)
(* and its aclose (pc "closing").                                           *)
(*                                                                         *)
(* Two middlewares are built in and their effect is modelled with them:     *)
(* _RunStoreMirror copies snapshots and events to a RunStore, and           *)
(* _MetricsMiddleware, always last, counts without ever awaiting.           *)
(***************************************************************************)
EXTENDS Naturals, Sequences, FiniteSets

CONSTANTS Hooks,          \* the middlewares that may await, in order: each
                          \* "user" (application code) or "mirror"
          Ceiling,        \* the user's token ceiling, 0 = no budget gate
          HasContracts,   \* a harness with contracts is configured
          Faults,         \* what may raise in some run: application "user"
                          \* hooks, the "mirror" because its store fails, a
                          \* contract's "judge"
          MaxTokens,      \* bound on the tokens accumulated
          MaxNotes,       \* bound on the events hooks publish themselves
          MaxHardCancels, \* bound on Task.cancel() calls
          MaxSpent        \* bound on the user's total spending

ASSUME HooksAreKnown ==
    /\ Hooks \in Seq({"user", "mirror"})
    /\ Len(Hooks) > 0
\* The registry puts the store mirror after the application's own hooks.
ASSUME MirrorIsLast ==
    \A i \in 1 .. Len(Hooks) : Hooks[i] = "mirror" => i = Len(Hooks)
ASSUME SwitchIsBoolean == HasContracts \in BOOLEAN
ASSUME FaultsAreKnown == Faults \subseteq {"user", "mirror", "judge"}
ASSUME BoundsAreNat ==
    /\ Ceiling \in Nat
    /\ MaxTokens \in Nat
    /\ MaxNotes \in Nat
    /\ MaxHardCancels \in Nat
    /\ MaxSpent \in Nat

VARIABLES pc,          \* where run_task is
          hook,        \* the before_run or after_run hook it awaits
          frames,      \* the publish calls in progress, outermost first
          status,      \* AgentRun.status
          cancel,      \* _cancel_requested
          events,      \* the names of the events published
          finished,    \* finished_at is set
          done,        \* mark_done ran
          failed,      \* run_task's local: an exception was caught
          over,        \* run_task's local: budget_violation is set
          pending,     \* the exception that aclose must not swallow
          accumulated, \* the number of tokens in run_task's accumulated
          spent,       \* output tokens recorded for the user, by all its runs
          saved,       \* the status in the store's snapshot, "none" before one
          stored,      \* the events the store has, by their ids
          counts,      \* the metrics counters
          hardCancels, \* Task.cancel() calls so far
          faulty       \* what may raise in this run

taskVars == <<pc, hook, frames, failed, over, pending, accumulated>>
runVars == <<status, cancel, events, finished, done>>
outsideVars == <<spent, saved, stored, counts, hardCancels, faulty>>
vars == <<taskVars, runVars, outsideVars>>

TerminalNames == {"run.done", "run.contract_failed", "run.budget_exceeded",
                  "run.cancelled", "run.failed"}
EventNames == TerminalNames \cup {"run.started", "token", "note"}

----------------------------------------------------------------------------
(* Publishing.  A frame is a publish call that awaits its after_event hooks; *)
(* a hook that publishes an event of its own ("note") opens a frame inside   *)
(* the one that called it.                                                   *)

Frame(id) == [event |-> id, hook |-> 1]
Top == frames[Len(frames)]
Pop == SubSeq(frames, 1, Len(frames) - 1)

\* The locked part of publish, from run_task itself.
PublishFromTask(name) ==
    /\ events' = Append(events, name)
    /\ frames' = <<Frame(Len(events) + 1)>>

\* Mutant of CountEvent: the table of terminal metrics lacks the budget.
CountEventWithoutBudget(id) ==
    counts' = [counts EXCEPT
        !.tokens = IF events[id] = "token" THEN @ + 1 ELSE @,
        !.terminals = IF events[id] \in TerminalNames \ {"run.budget_exceeded"}
                      THEN @ + 1 ELSE @]

\* _MetricsMiddleware.after_event.
CountEvent(id) ==
    counts' = [counts EXCEPT
        !.tokens = IF events[id] = "token" THEN @ + 1 ELSE @,
        !.terminals = IF events[id] \in TerminalNames THEN @ + 1 ELSE @]

\* Mutant of MirrorEvent: tokens are mirrored, outcomes are not.
MirrorOnlyTokens(kind, id) ==
    stored' = IF kind = "mirror" /\ events[id] \notin TerminalNames
              THEN Append(stored, id) ELSE stored

\* Mutant of MirrorEvent: an append that seems to fail is repeated.
MirrorEventTwice(kind, id) ==
    IF kind = "mirror"
    THEN \/ stored' = Append(stored, id)
         \/ "mirror" \in faulty /\ stored' = stored \o <<id, id>>
    ELSE stored' = stored

\* _RunStoreMirror.after_event: an append that fails is swallowed, whether or
\* not the store had applied it.
MirrorEvent(kind, id) ==
    IF kind = "mirror"
    THEN \/ stored' = Append(stored, id)
         \/ "mirror" \in faulty /\ stored' = stored
    ELSE stored' = stored

\* _RunStoreMirror.before_run and after_run.
MirrorSnapshot(kind) == saved' = IF kind = "mirror" THEN status ELSE saved

AtLastHook == frames # <<>> /\ Top.hook = Len(Hooks)

\* The outermost publish is about to return to run_task, which is at place p.
ReturningTo(p) == pc = p /\ Len(frames) = 1 /\ AtLastHook

\* What the last after_event hooks of the innermost publish do.
FinishHooks ==
    /\ MirrorEvent(Hooks[Top.hook], Top.event)
    /\ CountEvent(Top.event)

\* The event's next hook runs.
NextHook ==
    /\ frames # <<>>
    /\ Top.hook < Len(Hooks)
    /\ MirrorEvent(Hooks[Top.hook], Top.event)
    /\ frames' = [frames EXCEPT ![Len(frames)].hook = @ + 1]
    /\ UNCHANGED <<pc, hook, failed, over, pending, accumulated, runVars,
                   spent, saved, counts, hardCancels, faulty>>

\* A hook's own publish returns to the hook.
NestedReturns ==
    /\ AtLastHook
    /\ Len(frames) > 1 \/ pc \in {"before", "afterRun"}
    /\ FinishHooks
    /\ frames' = Pop
    /\ UNCHANGED <<pc, hook, failed, over, pending, accumulated, runVars,
                   spent, saved, hardCancels, faulty>>

\* The hook that is running now, if any.
RunningHook ==
    IF frames # <<>> THEN Hooks[Top.hook]
    ELSE IF pc \in {"before", "afterRun"} THEN Hooks[hook] ELSE "none"

Notes == Cardinality({i \in 1 .. Len(events) : events[i] = "note"})

\* A user hook calls run.publish, which the code allows (runs.py:97-100).
HookPublishes ==
    /\ RunningHook = "user"
    /\ Notes < MaxNotes
    /\ events' = Append(events, "note")
    /\ frames' = Append(frames, Frame(Len(events) + 1))
    /\ UNCHANGED <<pc, hook, failed, over, pending, accumulated, status,
                   cancel, finished, done, outsideVars>>

----------------------------------------------------------------------------
(* The end of the run: the terminal event is chosen from what was decided in *)
(* this very step, status first, then the publish.                           *)

Conclude(name, st) ==
    /\ pc' = "terminal"
    /\ status' = st
    /\ PublishFromTask(name)

\* Mutant of Settle: a cancel hides the budget violation that requested it.
SettleCancelFirst ==
    \/ failed' /\ Conclude("run.failed", "failed")
    \/ ~failed' /\ cancel' /\ Conclude("run.cancelled", "cancelled")
    \/ ~failed' /\ ~cancel' /\ Conclude("run.done", "completed")
    \/ ~failed' /\ ~cancel' /\ HasContracts
        /\ Conclude("run.contract_failed", "failed")

\* Mutant of Settle: contracts decide before a cancel does.
SettleIgnoringCancel ==
    \/ failed' /\ Conclude("run.failed", "failed")
    \/ ~failed' /\ over' /\ Conclude("run.budget_exceeded", "failed")
    \/ ~failed' /\ ~over' /\ Conclude("run.done", "completed")

\* Mutant of Settle: the status is set after the terminal event, not before.
SettleStatusLate ==
    /\ pc' = "terminal"
    /\ UNCHANGED status
    /\ PublishFromTask(IF failed' THEN "run.failed"
                       ELSE IF over' THEN "run.budget_exceeded"
                       ELSE IF cancel' THEN "run.cancelled" ELSE "run.done")

\* An exception raised by validate leaves run_task: it is outside the try.
Settle ==
    \/ failed' /\ Conclude("run.failed", "failed")
    \/ ~failed' /\ over' /\ Conclude("run.budget_exceeded", "failed")
    \/ ~failed' /\ ~over' /\ cancel' /\ Conclude("run.cancelled", "cancelled")
    \/ /\ ~failed' /\ ~over' /\ ~cancel'
       /\ \/ Conclude("run.done", "completed")
          \/ HasContracts /\ Conclude("run.contract_failed", "failed")
          \/ /\ HasContracts /\ "judge" \in faulty
             /\ pc' = "crashed"
             /\ frames' = <<>>
             /\ UNCHANGED <<status, events>>

----------------------------------------------------------------------------
(* From creation to the token loop.                                         *)

Init ==
    /\ pc = "created"
    /\ hook = 0
    /\ frames = <<>>
    /\ status = "queued"
    /\ cancel = FALSE
    /\ events = <<>>
    /\ finished = FALSE
    /\ done = FALSE
    /\ failed = FALSE
    /\ over = FALSE
    /\ pending = "none"
    /\ accumulated = 0
    /\ spent \in 0 .. MaxSpent
    /\ saved = "none"
    /\ stored = <<>>
    /\ counts = [started |-> 0, tokens |-> 0, terminals |-> 0]
    /\ hardCancels = 0
    /\ faulty \in SUBSET Faults

Start ==
    /\ pc = "created"
    /\ pc' = "before"
    /\ hook' = 1
    /\ UNCHANGED <<frames, failed, over, pending, accumulated, runVars,
                   outsideVars>>

InHook(p) == pc = p /\ frames = <<>>

BeforeReturns ==
    /\ InHook("before")
    /\ hook < Len(Hooks)
    /\ hook' = hook + 1
    /\ MirrorSnapshot(Hooks[hook])
    /\ UNCHANGED <<pc, frames, failed, over, pending, accumulated, runVars,
                   spent, stored, counts, hardCancels, faulty>>

\* The last before_run hook returns: the run is running and says so.
BeforeDone ==
    /\ InHook("before")
    /\ hook = Len(Hooks)
    /\ MirrorSnapshot(Hooks[hook])
    /\ counts' = [counts EXCEPT !.started = @ + 1]
    /\ status' = "running"
    /\ PublishFromTask("run.started")
    /\ pc' = "started"
    /\ UNCHANGED <<hook, failed, over, pending, accumulated, cancel, finished,
                   done, spent, stored, hardCancels, faulty>>

\* A before_run hook raises: the hooks after it, metrics included, never run.
\* A store that fails may have applied the write.
BeforeRaises ==
    /\ InHook("before")
    /\ Hooks[hook] \in faulty
    /\ MirrorSnapshot(Hooks[hook]) \/ UNCHANGED saved
    /\ failed' = TRUE
    /\ UNCHANGED <<over, cancel>>
    /\ Settle
    /\ UNCHANGED <<hook, pending, accumulated, finished, done, spent, stored,
                   counts, hardCancels, faulty>>

OverCeiling(n) == Ceiling # 0 /\ n >= Ceiling

\* run.started is out: the pre-emptive budget check, then the upstream call.
StartedReturns ==
    /\ ReturningTo("started")
    /\ FinishHooks
    /\ over' = OverCeiling(spent)
    /\ cancel' = (cancel \/ OverCeiling(spent))
    /\ UNCHANGED failed
    /\ IF cancel'
       THEN Settle
       ELSE /\ pc' = "streaming"
            /\ frames' = <<>>
            /\ UNCHANGED <<status, events>>
    /\ UNCHANGED <<hook, pending, accumulated, finished, done, spent, saved,
                   hardCancels, faulty>>

----------------------------------------------------------------------------
(* The token loop.                                                          *)

LeaveLoop == pc' = "closing" /\ UNCHANGED <<frames, events>>

\* Mutant of Token: the cancel is not checked between tokens.
TokenIgnoringCancel ==
    /\ pc = "streaming"
    /\ accumulated < MaxTokens
    /\ accumulated' = accumulated + 1
    /\ IF Ceiling = 0 THEN UNCHANGED spent ELSE spent' = spent + 1
    /\ over' = OverCeiling(spent')
    /\ cancel' = (cancel \/ over')
    /\ IF over' THEN LeaveLoop
       ELSE pc' = "token" /\ PublishFromTask("token")
    /\ UNCHANGED <<hook, failed, pending, status, finished, done, saved,
                   stored, counts, hardCancels, faulty>>

\* The upstream yields a token.  A cancel drops it and leaves the loop; so does
\* the budget, once the token is recorded; otherwise it is published.
Token ==
    /\ pc = "streaming"
    /\ cancel \/ accumulated < MaxTokens
    /\ IF cancel
       THEN /\ LeaveLoop
            /\ UNCHANGED <<accumulated, spent, over, cancel>>
       ELSE /\ accumulated' = accumulated + 1
            /\ IF Ceiling = 0 THEN UNCHANGED spent ELSE spent' = spent + 1
            /\ over' = OverCeiling(spent')
            /\ cancel' = over'
            /\ IF over' THEN LeaveLoop
               ELSE pc' = "token" /\ PublishFromTask("token")
    /\ UNCHANGED <<hook, failed, pending, status, finished, done, saved,
                   stored, counts, hardCancels, faulty>>

TokenReturns ==
    /\ ReturningTo("token")
    /\ FinishHooks
    /\ frames' = <<>>
    /\ pc' = "streaming"
    /\ UNCHANGED <<hook, failed, over, pending, accumulated, runVars, spent,
                   saved, hardCancels, faulty>>

UpstreamEnds ==
    /\ pc = "streaming"
    /\ LeaveLoop
    /\ UNCHANGED <<hook, failed, over, pending, accumulated, status, cancel,
                   finished, done, outsideVars>>

UpstreamRaises ==
    /\ pc = "streaming"
    /\ LeaveLoop
    /\ pending' = "error"
    /\ UNCHANGED <<hook, failed, over, accumulated, status, cancel, finished,
                   done, outsideVars>>

\* Mutant of CloseReturns: a CancelledError is not caught (runs.py:292).
CloseReturnsUncaught ==
    /\ pc = "closing"
    /\ failed' = (pending = "error")
    /\ UNCHANGED <<over, cancel>>
    /\ IF pending = "cancelled"
       THEN pc' = "aborted" /\ frames' = <<>> /\ UNCHANGED <<status, events>>
       ELSE Settle
    /\ UNCHANGED <<hook, pending, accumulated, finished, done, outsideVars>>

\* aclose returns or raises, which is swallowed; the exception it interrupted,
\* if any, goes on to run_task's handlers.
CloseReturns ==
    /\ pc = "closing"
    /\ failed' = (pending = "error")
    /\ cancel' = (cancel \/ pending = "cancelled")
    /\ UNCHANGED over
    /\ Settle
    /\ UNCHANGED <<hook, pending, accumulated, finished, done, outsideVars>>

----------------------------------------------------------------------------
(* The terminal event is out: finished_at, mark_done, after_run.            *)

TerminalReturns ==
    /\ ReturningTo("terminal")
    /\ FinishHooks
    /\ frames' = <<>>
    /\ finished' = TRUE
    /\ done' = TRUE
    /\ pc' = "afterRun"
    /\ hook' = 1
    /\ UNCHANGED <<failed, over, pending, accumulated, status, cancel, events,
                   spent, saved, hardCancels, faulty>>

\* An after_run hook returns, or raises, which is swallowed.
AfterRunReturns ==
    /\ InHook("afterRun")
    /\ \/ MirrorSnapshot(Hooks[hook])
       \/ Hooks[hook] \in faulty /\ UNCHANGED saved
    /\ hook' = hook + 1
    /\ pc' = IF hook = Len(Hooks) THEN "exited" ELSE "afterRun"
    /\ UNCHANGED <<frames, failed, over, pending, accumulated, runVars, spent,
                   stored, counts, hardCancels, faulty>>

----------------------------------------------------------------------------
(* Outside run_task.                                                        *)

\* POST /v1/runs/{id}/cancel, a subscriber's or a hook's request_cancel.
RequestCancel ==
    /\ ~cancel
    /\ cancel' = TRUE
    /\ UNCHANGED <<taskVars, status, events, finished, done, outsideVars>>

\* Another run of the same user records a token.
OthersSpend ==
    /\ Ceiling # 0
    /\ spent < MaxSpent
    /\ spent' = spent + 1
    /\ UNCHANGED <<taskVars, runVars, saved, stored, counts, hardCancels, faulty>>

\* Mutant of CaughtAt: the handler covers the terminal publish too.
CaughtAtTerminalToo == {"before", "started", "terminal"}

\* The awaits from which CancelledError reaches run_task's handler directly;
\* the token loop closes the upstream first, and the others are not covered.
CaughtAt == {"before", "started"}

\* Task.cancel(): CancelledError is raised at the await run_task is in, and
\* unwinds any publish in progress there.  Before the first step nothing of
\* run_task ever runs; in the try it becomes a cooperative cancel; aclose
\* swallows it; in the terminal publish or in after_run it ends the task.  A
\* store write it interrupts may or may not have been applied.
HardCancel ==
    /\ hardCancels < MaxHardCancels
    /\ hardCancels' = hardCancels + 1
    /\ pc \notin {"exited", "aborted", "crashed"}
    /\ IF frames # <<>>
       THEN \/ UNCHANGED stored
            \/ Hooks[Top.hook] = "mirror" /\ stored' = Append(stored, Top.event)
       ELSE UNCHANGED stored
    /\ IF InHook("before") \/ InHook("afterRun")
       THEN MirrorSnapshot(Hooks[hook]) \/ UNCHANGED saved
       ELSE UNCHANGED saved
    /\ \/ /\ pc \in CaughtAt
          /\ cancel' = TRUE
          /\ UNCHANGED <<failed, over, pending>>
          /\ Settle
       \/ /\ pc \in {"streaming", "token"}
          /\ pending' = "cancelled"
          /\ pc' = "closing"
          /\ frames' = <<>>
          /\ UNCHANGED <<failed, over, cancel, status, events>>
       \/ /\ pc = "closing"
          /\ failed' = (pending = "error")
          /\ cancel' = (cancel \/ pending = "cancelled")
          /\ UNCHANGED <<over, pending>>
          /\ Settle
       \/ /\ pc \in {"created", "terminal", "afterRun"}
          /\ pc' = "aborted"
          /\ frames' = <<>>
          /\ UNCHANGED <<failed, over, pending, cancel, status, events>>
    /\ UNCHANGED <<hook, accumulated, finished, done, spent, counts, faulty>>

HookStep ==
    \/ NextHook \/ NestedReturns \/ BeforeReturns \/ BeforeDone
    \/ StartedReturns \/ TokenReturns \/ TerminalReturns \/ AfterRunReturns

TaskStep == Start \/ HookStep \/ CloseReturns

Next ==
    \/ TaskStep
    \/ HookPublishes \/ BeforeRaises
    \/ Token \/ UpstreamEnds \/ UpstreamRaises
    \/ RequestCancel \/ OthersSpend \/ HardCancel

Spec == Init /\ [][Next]_vars

\* The event loop runs a ready task, hooks and aclose return, and the upstream
\* keeps yielding; it need not ever end by itself.
FairSpec == Spec /\ WF_vars(TaskStep) /\ WF_vars(Token)
----------------------------------------------------------------------------
(* Properties.                                                              *)

Over == pc \in {"exited", "aborted", "crashed"}

TerminalIds == {i \in 1 .. Len(events) : events[i] \in TerminalNames}
Tokens == Cardinality({i \in 1 .. Len(events) : events[i] = "token"})
Starts == Cardinality({i \in 1 .. Len(events) : events[i] = "run.started"})
FinalStatuses == {"completed", "failed", "cancelled"}
Outcome == IF TerminalIds = {} THEN "none"
           ELSE events[CHOOSE i \in TerminalIds : \A j \in TerminalIds : i <= j]

\* No event of the run follows its terminal event, except what hooks publish,
\* so no subscriber sees a second outcome.
TerminalIsLast ==
    \A i \in TerminalIds :
        \A j \in i + 1 .. Len(events) : events[j] = "note"

\* "Terminal events (exactly one is emitted)" (runs.py:236) and "subscribers
\* always see end-of-stream" (runs.py:296): however the task ends, it has
\* published one terminal event and closed the stream.
EndIsAnnounced == Over => done /\ Cardinality(TerminalIds) = 1

\* The exceptions to EndIsAnnounced: however hooks, stores, budgets, cancels
\* and the upstream combine, a run that is running gets its outcome and its end
\* of stream, unless a contract raises.  A Task.cancel() takes something away
\* only before the task's first step, when nothing of the run has happened, or
\* once the outcome is published, when at worst the end of the stream is lost.
EndUnlessKilled ==
    Over => \/ done /\ Cardinality(TerminalIds) = 1
            \/ /\ pc = "aborted" /\ hardCancels > 0
               /\ \/ status = "queued" /\ events = <<>>
                  \/ status \in FinalStatuses /\ Cardinality(TerminalIds) = 1
            \/ pc = "crashed" /\ "judge" \in faulty /\ status = "running"

\* A run ends naturally only when nobody had cancelled it when its outcome was
\* chosen, and then subscribers hold every token the contracts judged.
NaturalEndIsWhole ==
    [][(Outcome = "none" /\ Outcome' \in {"run.done", "run.contract_failed"})
        => ~cancel' /\ Tokens' = accumulated']_vars

\* A budget violation is announced as one, although it also sets the cancel
\* flag and clients may cancel meanwhile; and only then.
BudgetIsNamed ==
    Outcome # "none" => (over <=> Outcome = "run.budget_exceeded")

\* As long as the store itself does not fail, it holds the whole history and
\* the final status when the task ends, whatever the other middlewares do.
StoreIsComplete ==
    /\ pc = "exited" /\ hardCancels = 0 /\ "mirror" \notin faulty
    /\ \E i \in 1 .. Len(Hooks) : Hooks[i] = "mirror"
    => /\ saved = status
       /\ {stored[i] : i \in 1 .. Len(stored)} = 1 .. Len(events)
       /\ Len(stored) = Len(events)

\* A store that fails or is interrupted leaves gaps, never repetitions, and its
\* events are in the order of their ids, except that an event a hook publishes
\* while it handles another is stored before that other one.
StoreInOrder ==
    \A i, j \in 1 .. Len(stored) : i < j =>
        stored[i] < stored[j] \/ (stored[i] > stored[j] /\ events[stored[i]] = "note")

\* Each token, each outcome and each start that was announced is counted once
\* when the task ends normally and was not interrupted; a run that a before_run
\* hook ended was announced and counted as an outcome, and as no start.
MetricsMatchHistory ==
    (pc = "exited" /\ hardCancels = 0) =>
        /\ counts.tokens = Tokens /\ counts.terminals = 1
        /\ counts.started = Starts

\* A requested cancel ends the run as long as the upstream keeps yielding,
\* even if it would never stop by itself, also when the task is cancelled hard
\* while it is running; it comes too late only for a task killed where
\* EndUnlessKilled allows it, or by a contract.
CancelLands ==
    cancel ~> (done \/ pc = "crashed" \/ (pc = "aborted" /\ status # "running"))

Promise == INSTANCE RunOutcome WITH outcome <- Outcome, closed <- done

\* run_task keeps what its docstring promises.
ImplementsRunOutcome == Promise!OutcomeSpec
=============================================================================
