# A TLA+ model of codagent

TLA+ modules that model codagent's stateful core, TLC configurations that check
them on small instances, and theorems checked by TLAPS for every value of the
constants. `PROJECT.json` lists the runs, the mutants that show each property can
fail, the source lines of every definition, the hazards, the findings and the
theorems.

## 1. Inventory

codagent is a Python library around LLM agents. Its parts, the state each keeps
and what makes it correct:

| Part | Source (`src/codagent/`) | State | Operations | Correct when |
|---|---|---|---|---|
| Event stream of a run | `server/runs.py` AgentRun | history, next id, one queue per subscriber, done flag, drop counter | publish, subscribe (replay, then live), mark_done, request_cancel, snapshot | ids in order without repetition; end of stream always reached, after the outcome; drops only when a limit says so |
| Run task | `server/runs.py` run_task | status, accumulated output, cancel flag, budget verdict | hooks, token loop, aclose, validation, terminal event | one outcome, agreeing with the status, then the end of the stream |
| Middleware, store mirror, metrics | `server/middleware.py`, `stores.py`, `metrics.py` | persisted snapshot and events, counters | before_run, after_event, after_run | store and counters agree with the history |
| Budget gate | `server/budgets.py`, `stores.py` | usage per user, shared by runs | check, record_token | concurrent runs charge exactly, overshoot boundedly, stop |
| Registry and HTTP app | `server/runs.py`, `server/app.py` | runs by id, their tasks | create, get, cancel (polls 1 s), stream, shutdown | handlers and task agree on the outcome |
| Application object | `server/app.py` CodagentApp, `server/agents.py` | hooks, routes, the built application | register, build on the first request, serve | what was accepted takes effect |
| Sessions | `server/sessions.py` | runs of a session | create, attach, list | order of attachment |
| Circuit breaker | `tools/circuit.py` | state, failures, opened_at, behind a lock | call (two locked sections around the tool) | fails fast while cooling down, one trial decides |
| Rate limiter | `tools/rate_limit.py` | deque of call times, behind a lock | call, raising or blocking | no window over the rate; blocked callers get through |
| Graph node wrappers | `nodes/*.py` | cache, recent-call history, no lock | retry, timeout, cache, loop guard, structured output | a result is used once it is valid and not after its time; limits are exceeded by the calls under way at most |
| Observability | `observability/*.py` | tokens, prices, steps, no lock | record, reload prices, cap, step | caps trip and stay tripped; only overlapping calls lose tokens |
| Harness and contracts | `harness/*.py`, `harness/adapters` | contracts, the last context | validate, set_context | the verdict is that of all contracts, on the documents of the run it is about |
| Message integrations | `harness/langchain_integration.py`, `integrations/*.py` | none of their own; some write into the caller's messages or agent | inject the addendum, validate | no request goes out without the rules, and a copy has them once |
| Targets and CLI | `harness/targets`, `cli.py`, `integrations/anthropic_client.py` | files and backups, patched clients | install, apply, wrap, unwrap | the user's text survives; a client is wrapped once |

How they interact. The HTTP handlers (`app.py`) create a run through the registry,
which starts `run_task` as an asyncio task. The task publishes events on the run;
every publish appends to the history, feeds the queue of each subscriber, then
awaits the `after_event` hook of each middleware, which may publish again. The
store mirror and the metrics are two such middlewares. A handler streams a run by
iterating `subscribe`, cancels it by setting a flag that the task reads between
tokens. All runs of an app share one budget gate. Tools run in the threads of the
application and share one breaker and one limiter per decorated function. Graph
nodes do the same with the cache and the history of their wrappers, and the model's
calls with a cost tracker. A harness is one object, used by every run of the
application and by the client library's integration that adds its text to requests.

What is hard in it: any await lets another task run (a publish in progress, a
cancel, another run of the same user); `Task.cancel()` raises at whatever await the
task is in; clients disconnect and reconnect at any moment; queues and history drop
when full; hooks, judges and stores raise; threads interleave between the two
locked sections of the breaker, around the sleep of the limiter, and anywhere in
the wrappers and trackers that have no lock; a process dies while it rewrites a
user's file. The list is in
`PROJECT.json` under `hazards`, each at its line.

## 2. Modules

| Module | Models | Kind |
|---|---|---|
| `EventLog` | what `subscribe` promises a client | abstract |
| `RunStream` | publish, subscribe, mark_done of one AgentRun; disconnecting clients | detailed, refines `EventLog` |
| `RunOutcome` | what `run_task` promises about one run | abstract |
| `RunTask` | `run_task` with middleware, store mirror, metrics, budget, cancels | detailed, refines `RunOutcome` |
| `ServedRun` | one run and its clients: `run_task` publishing into the queues of `RunStream` | composes `RunTask` and `RunStream` |
| `BudgetGate` | the budget shared by the runs of several users | detailed |
| `BreakerPromise` | the three-state machine of the breaker's documentation | abstract |
| `CircuitBreaker` | the breaker and its threads | detailed, refines `BreakerPromise` until two calls overlap |
| `RateLimit` | the limiter and its threads, raising and blocking | detailed |
| `RunService` | the HTTP handlers, the registry with its shutdown, the sessions, over several runs | composes `RunOutcome` |
| `CodagentApp` | the registrations on an application object, its build, then `RunService` | extends `RunService` |
| `NodeStack` | retry, timeout, cache, loop guard, tracer and parser around a node, called by threads | detailed |
| `SpendCaps` | cost tracker, caps, step budget and price registry, shared by threads | detailed |
| `HarnessRuns` | a harness shared by runs: contracts, context, integrations | detailed |
| `HarnessTargets` | files written by `codagent install` and `Harness.apply` | detailed |
| `PatchedClients` | SDK clients wrapped and unwrapped | detailed |
| `MC*` | the TLC instances: constants, symmetry, reference definitions | |
| `*_proofs` | the theorems and their lemmas | |

**RunStream.** A step is a section that awaits nothing: the locked part of `publish`
(`Record`), the registration in `subscribe` (`Attach`), `mark_done` (`MarkDone`), one
event yielded to a client (`Deliver`), the sentinel met (`Finish`), a broken connection
(`Disconnect`). Events are their ids. `Offer` is put_nowait with the drop-oldest policy,
`Backlog` is the replay in closed form, `BacklogLoop` the code's loop, and
`BacklogIsTheLoop` says that they compute the same. History
variables: `seen` (what each client received over all its connections) and `doneAt`.

**RunTask.** `pc` names the await `run_task` is in; a step runs from one await to the
next, so choosing the outcome and starting the terminal publish are one step (`Settle`).
`frames` is the stack of publish calls in progress: a hook that publishes opens a frame
inside the one that called it. The hooks are the constant `Hooks`: "user" code, which
may publish, and the "mirror"; either may raise (`Faults`); the metrics middleware is
always last and never awaits, so its effect is part of the step that ends a publish.
`HardCancel` is `Task.cancel()` at each await. The stream itself is abstracted to the
list of event names and `done`: what subscribers see of it is RunStream's subject.

**ServedRun.** RunTask and RunStream composed: each step of the task that publishes or
closes is at once a `Record` or `MarkDone` of the stream (`Broadcast`), since the locked
sections await nothing, and between two steps any client attaches, reads, meets the
sentinel or breaks off (`ClientMoves`). The ids of RunStream are the places in RunTask's
list of names; `TerminalId` is the place of the first terminal name. What RunStream leaves
to its environment (when a terminal event comes, what may follow it, when it is closed)
is here done by run_task, and `DrivesRunStream` says that it keeps to it.

**BudgetGate.** Each run opens (the pre-emptive check), receives tokens (record, check,
publish or stop: no await in between), ends. `tripped` marks a run stopped by a token
and `rejected` one stopped before the first.

**CircuitBreaker.** One action per locked section: `Admit`/`Refuse` before the tool,
`Succeed`/`Fail` after it, `Abandon` for a BaseException, which the code does not count.
The clock is the difference `now - opened_at` in ticks, kept up to `ResetAfter`, all the
code can tell; `quiet` is a history variable, the time since any call last failed.

**RateLimit.** One pass through the lock is one action (`Pass`): pop expired calls,
count, admit, refuse or sleep. Ages are kept newest first; a tick is the least time the
code sleeps. The rate is `Calls / Seconds`, as the code compares an integer with a
float. `raises` is `raise_on_exceed`, either way for the whole behaviour. `history` is a
history variable: the ages of the last admissions, whether or not the deque still has
them.

**RunService.** A handler that awaits nothing is one step; `cancel` is a request that
polls (`RequestCancel`, `Deadline`, `Answer`). A run is `task` (its coroutine, one step
per await), `status`, the cancel flag and the outcome; it does what `RunOutcome`, which
`RunTask` refines, allows, or dies in a contract that raises (`Crash`). Hard cancels
are RunTask's subject: no handler makes one. The polls in between and the clock are one
bit, `late`. `named` and `known` are history variables: the session each run's POST
named and the runs created before shutdown began.

**CodagentApp.** Registering a hook is one step, a route two: the call of `route()`
and the call of the decorator it returned. `Build` is the first request, and
only then do the steps of `RunService` begin, except those of a registry the caller
made and used before. `late` is a history variable: the routes whose decorator was
called after the build.

**NodeStack.** A thread's `phase` is the call it is in, from `submitted` (the
executor has the node) through the cache lookup, the guard's count, the node and the
store to `idle`; CPython switches threads at calls, so each call into Python code or
back is a step. Caller and worker are one process, because the executor's exit makes
the caller wait: `late` says that its timeout is over. `disturbed` is the deque
iterator's error, an append during the count. The cache keeps what the code keeps
(order, key, expiry) and the time its node call began. `own` is a history variable:
the expiry of what a call stored, cleared when another call takes that entry out.

**SpendCaps.** A turn is `StepBudget.step`, the model's call, `BudgetCap.record_call`.
`self.input_tokens += int(n)` is a read (`BeginRecord`) and a write (`StoreInput`)
with a call between them. A tracker may be made with a model, with prices of its own
or with neither (`NewTrackers`). `truth` is history: the tokens recorded, whether calls
overlapped, and whether one came before any named its model.

**HarnessRuns.** An answer is the set of marks that the contracts' regular
expressions look for, a judge's reply one of the forms its parser tells apart, so each
contract is one operator giving the verdicts it can come to; a contract whose addendum
is empty (a meta agent's by default) adds nothing, and a harness of such contracts
leaves messages as they are (`Added`). Messages are a count of addenda and a form; each
integration is the set of forms it adds to, and `InPlace` says which write into what the
caller keeps. Those read the text (`Prepare`) and write it back (`Inject`) in two steps,
so threads that share a system message or an agent overwrite each other: `held` has the
text and how often it was written. Runs share `contracts` and `context`; a
`context_provider` is called without a word about the run, so it may return any run's
documents (`Documents`).

**HarnessTargets.** A file's text is a set of pieces: the user's, numbered, and
codagent's rules. `write_text` is two steps (`EmptyFile`, `WriteFile`, and the same
for the backup), and the process may die between any two (`Die`). A user edits while
no install runs; `backedUp` and `torn` are history variables.

**PatchedClients.** A client's `create` is a stack of wrappers; `Shown` is what
`getattr` finds on the outermost one, which is codagent's own attributes, or a copy of
them that `functools.wraps` made.

## 3. Runs

Passing runs:

| Run | What it shows |
|---|---|
| `RunStream_bounded` | bounded queues and history lose old events only, never the outcome; the stream is the `EventLog` under reconnection and every open subscription ends |
| `RunTask_all` | what `run_task` keeps under raising hooks, stores and judges, two hard cancels, a shared budget, publishing hooks; refinement of `RunOutcome`; what the store and the counters have; which faults alone take a run's end away; a cancel ends a run whose upstream never ends |
| `ServedRun_clients` | no client sees two outcomes, and the end of a stream comes after the outcome that the status says, with hooks that raise and publish, contracts that raise and a hard cancel |
| `BudgetGate_mixed` | charges, overshoot and silence over concurrent runs, under all four limits |
| `CircuitBreaker_threads` | the fields agree, trials wait and an open breaker is tried again, for three threads; until two calls overlap the breaker is `BreakerPromise` |
| `RateLimit_window` | at 1.5 calls per second no window is over the rate, refusing or blocking, and someone blocked always gets through |
| `RunService` | registrations take effect; a cancel is answered with the outcome announced, or not final only at the deadline or after a contract raised; shutdown returns over closed runs; a session lists its runs in order |
| `Unlocked_threads` | answers from the cache are younger than their ttl; cache and guard exceed their limits by the calls under way only; a value that came too late for its caller answers the retry; only overlapping calls lose tokens; caps stay tripped and are overshot by one call for each caller |
| `Harness_parts` | server and caller read the same verdict; no usual request goes out without the rules, a copy has them once, and messages written in place as often as they were written at most; the user's text survives installs and crashes, but for two named cases; a client is not wrapped twice unless an opaque wrapper hides the first |

Runs that show a disagreement between the code and its documentation, quoted in
`PROJECT.json` under `findings`:

| Run | What TLC finds |
|---|---|
| `RunTask_judge_raises` | a contract that raises leaves the stream open for ever |
| `NodeStack_deadline` | a node that does not return keeps its caller beyond the timeout |
| `Harness_shared` | a run that set its context is judged by the documents of another run, since all runs of an application share one contract |

Where the other properties say less than the documentation, the hypothesis they need
is the reason, and dropping it gives a counterexample in the same model: with
`max_queue_size=1` the sentinel evicts the terminal event (`RoomForTerminal` of
`EndSeesTerminal`); a call admitted before the breaker opened closes it when it
succeeds late, and a half-open breaker admits every thread that calls (`BreakerPromise`
is kept until two calls overlap only); a blocked thread can be overtaken at every wake-up
(`SomeoneGetsThrough`, not every one); input tokens count only if the application
records them (`CountInput`); a `before_run` hook that raises ends a run that never
started (`MetricsMatchHistory` counts the starts announced, not the runs); a
`Task.cancel()` before the first step of a run, or once its outcome is chosen, ends it
without an outcome or without the end of its stream (`EndUnlessKilled`, against the
comment at `server/runs.py:294`, and in no other place); `per_second=0.5`
admits one call each second, since the limit is the rate rounded up
(`WindowIsLimited`, against `docs/modules/tools.md:224`); a registry of the caller's
own runs none of the application's hooks, and a route whose decorator is called after
the first request is not served (`RegisteredIsServed`); two contracts of one name, or
one named `all_ok`, make server and caller disagree (`Distinct` in `PassMeansAllOk`);
the callbacks that write into the caller's messages add the addendum again on every
retry (`made` in `AddendaMatchInjections`); calls before the first that names its model are priced at once
when it does (`unnamed` in `SpendIsCapped`).

Bounds and why they are enough. RunStream: two clients, since clients interact only
through the run; ids up to a terminal event at most the fifth (`MaxId` before it) and
one event after it (`Late`) against a queue of 3 and a history of 4, so both overflow, also
the queue by a replay, a reconnecting client finds its next event evicted, and a sentinel
meets a full queue. ServedRun: one client, since clients meet only through the run, two
tokens, one note and one hard cancel against a queue of 3 and a history of 2, the least
that leave room for the terminal event.
RunTask: two tokens reach a ceiling of 3 with the tokens of other runs (`MaxSpent`), or
end below it; one event published by a hook (`MaxNotes`) suffices to nest and to follow
the terminal event; two hard cancels reach the close of the upstream. BudgetGate: two
runs of one user beside one of another, ceilings that are each reached first on some
path, in the middle of a run. CircuitBreaker: three threads (a trial, a late failure, a
late success), failures up to twice the threshold. RunService: two runs, created before,
during and after a shutdown, in one session, in two or in none, with one cancel request:
two requests do not meet, since each only sets a flag that is never reset; one hook and
one route, each registered before the build, after it or (the route) across it.
RateLimit: one more thread than a window admits, a window of three ticks, so calls of
every age from fresh to expired meet. NodeStack: two threads, each with one call of two
attempts, on one key or on two, a cache of one entry and a guard that refuses the second
call, so that both fill up and an entry expires, is evicted or replaced by the other
thread; the clock reaches every expiry (`MaxClock`). SpendCaps: two callers whose caps
differ, calls with and without tokens of each kind and a model's name, two trackers one
after the other. HarnessRuns: two runs, each asking twice, with messages of their own or
shared, enough for one to write into a message between the other's reading and writing
it, and to retrieve between the other's retrieval and its validation; every kind of
contract, with and without a judge, and bundles with and without rules. HarnessTargets: two edits of each of two files and installs of two
targets, so that a file is named twice; five wrappers on a client. Runs, files and clients
share no variable, so `MCHarness` explores each with the others at rest, and `MCUnlocked`
the wrappers with the tracker at rest and the tracker with the wrappers. Symmetry over
callers is used in runs without liveness properties only.

`CHECK_DEADLOCK FALSE` is set where the program really stops: a run that is over with
its clients gone (RunStream, ServedRun), a task that has exited (RunTask), runs that have ended
(BudgetGate), a service with nothing left to do (RunService), and callers, runs and
users who have done what their bounds allow (NodeStack, SpendCaps, HarnessRuns,
HarnessTargets). A breaker and a limiter can always be called again.

Fairness. RunStream: the task that publishes goes on to the outcome and closes the
stream, and a connected client keeps reading; nobody is obliged to attach. The first is
an assumption about the run, not a theorem: `RunTask_judge_raises` is a run that breaks
it, and `EndUnlessKilled` says which others may (a hard cancel before the first step or
once the outcome is chosen); for those runs `EveryStreamEnds` says nothing.
RunTask: the event loop resumes a ready task, hooks and aclose return, the upstream
keeps yielding but need not end. CircuitBreaker: the clock advances, a called tool
returns or raises, the agent goes on calling. RateLimit: the clock advances, a thread
whose sleep is over runs, the tool returns. NodeStack's `FairStackSpec`: the clock advances
and threads run; a node need not return, which is what a timeout is for. No action is
strongly fair: asyncio and the operating system run what is ready, and promise nothing
about what is ready only now and then.

## 4. Proofs

For every number of clients, users, runs and threads, and every limit:

* `RunStream_proofs`. `StreamInv` is inductive. Its heart is that a queue is always a
  run of consecutive ids that ends with the newest (`LiveInv`) or with the sentinel
  (`ClosedInv`), starting at or after what the client has: `SeenInOrder` alone is not
  inductive, since it says nothing of what is still queued. The lemmas on `Offer`,
  `Retain`, `Newest` and `Backlog` say how each keeps a run a run; each action then has
  one lemma. From the invariant: `TypeCorrect`, `DeliveryInOrder`, `SlowSubscriberOnlyLags`,
  `TerminalDelivered` (assuming room for the terminal event, `RoomForTerminal`, which
  `max_queue_size=1` shows to be needed) and `StreamRefinesEventLog`. `ReplayIsTheLoop`
  proves the loop of `subscribe` equal to its closed form: the loop is a recursive function
  over the history, the closed form satisfies its equations (`OfferToHeld`), and the least
  place at which they differed would contradict them (`LoopHolds`), so no induction
  theorem is needed. `NothingLostWithoutLimits` is about streams without limits. Of the
  liveness of closed streams, what needs no fairness is proved: the sentinel is in every
  open queue (`SentinelIsAhead`) and nothing is put in front of it (`ClosedStreamsDrain`).
* `BudgetGate_proofs`. The counter of a user is what was published plus one per tripped
  run (`ChargedIsPublished`), with the ceiling and the truth of the verdicts in one
  inductive invariant; the overshoot bound follows arithmetically, and silence from the
  monotonicity of the counters.
* `CircuitBreaker_proofs`. State, failures and opened_at agree (`FieldsAgree`) and
  opened_at is the last failure while it is set, so a trial waits for `ResetAfter` of
  quiet, for any threads. While calls do not overlap, a call in progress knows the
  state (`CallKnowsState`), which gives the steps of `BreakerPromise`; when they do,
  a late success or a second trial already breaks it.
* `RateLimit_proofs`. The deque is a prefix of the admissions and all others are more
  than a window old (`DequeIsLatest`), so the call `Capacity` admissions ago is expired
  whenever there is room: `WindowLimitHolds`.
* `RunTask_proofs`. `TaskInv` joins what one await of `run_task` knows of the rest.
  `Publishing` describes the stack of publish calls: an inner one is of a newer event,
  whatever follows the outermost one's event was published by hooks, and an event is
  stored only when its publish ends. `KilledWhere` says where a task that was cancelled
  hard can have stopped, `StartsCounted` that the starts counted are those announced. `Control` and `Outer` say, for each `pc`, which
  locals are set and which publish is outermost; `Announced`, that the terminal event
  exists exactly from the step that chose it and the stream is closed only after it;
  `Counted`, that the counters are those of the history less the publish in progress;
  `Mirrored`, that every event of a store without faults is stored or in a frame. None
  of the properties is inductive by itself: TerminalIsLast needs that what is appended
  during the terminal publish comes from hooks, StoreIsComplete that the frames hold
  exactly what is not stored yet. The refinement of `RunOutcome` follows step by step.
  What of `CancelLands` needs no fairness is proved too (`CancelStopsTokens`): a cancel is
  never taken back, no token is accumulated or published after it, and `run_task` only
  moves on towards its end.
* `RunTask_proofs`, the served run. `StepPublishes` lists what one step of `run_task` can
  publish and where; from it `PublishesBounded` (before the terminal event at most
  run.started, a token for each one accumulated and the notes, after it only notes) and
  `OutcomeHolds` (the status is that of the outcome, and the tokens of a natural end are
  those accumulated) are inductive. With them each step of the composed run is a step of
  RunStream (`TaskDrivesStream`), so the theorems of `RunStream_proofs`, instantiated as
  `StreamFacts`, hold of its stream: the assumptions of RunStream are proved of this
  instance, and its steps and those of ServedRun's own instance are shown to be the same
  (`StreamFactsHold`). `OutcomeIsSeen` joins what a client received (strictly increasing
  ids, the terminal one among them at the end) to what the ids name (one terminal event,
  which agrees with the status); `WholeAnswerIsSeen` is the same for a natural end without
  limits. The two composed properties, `AnswerIsWhole` and `DrivesRunStream`, are proved and
  in no run.
* `CodagentApp_proofs`. A path is waiting for its decorator or in the list, never both
  (`AppInv`), so what a late decorator adds is exactly what is not served. For the
  service, `ServiceInv` joins `RunsInv` (a status is final exactly from the terminal
  event on, and a task over only when its stream is closed or a contract raised),
  `RequestsInv` (an answer stays true, since no outcome is taken back), `ShutdownInv` (a
  run that shutdown found and does not wait for is over) and `SessionsInv` (the registry
  has the runs that have a task, and no others are in a session). `AppServes` shows that the application
  implements the service, so each of its theorems holds of the application as well;
  `RunsKeepPromise`, that no request, session or shutdown touches what `RunOutcome`
  promises of each run, is proved and in no run.
* `Unlocked_proofs`, the tracker. What a caller has read of a counter is at most what
  was recorded, and is the counter itself while one caller at most is recording
  (`Reads`, `Alone`); so without overlaps a step takes no token back, and `UsdGrows`
  with the loaded prices being copies makes a reached cap stay reached. The bound on
  the spend is by blame: each caller that has begun to count and has not been let through
  since pays for one call above the highest cap, also when it is half counted
  (`LateCallersPay`); `FirstIsNamed` keeps apart the one call that may be counted before
  it names the model and so sets the price.
* `Unlocked_proofs`, the node wrappers. `StackInv` joins four facts. The cache has one
  entry for a key, and no entry outlives the start of its node call by more than ttl
  (`IsCache`), because a call reads the clock for lookup and expiry before the node
  starts: AnswersAreFresh says nothing of the entries that are still to be read. What a
  call has stored is in the cache or expired (`CallOK`), since every step that takes an
  entry out clears it in the calls that own it; hence a retry can miss it only if it
  expired (`LateValueIsUsed`). Each entry over `max_size` has a call in its eviction
  loop (`SizeOK`). A counted call will be recorded, so the repeats in the history are
  bounded together with the calls that are counted and not yet recorded (`CountsOK`):
  the bound on the history alone is not inductive.
* `Harness_proofs`, files and clients. `Kept` says where the user's last text is at each
  step of an install: in the file until the backup is written, then in the backup
  (replace) or in the text about to be written (append). For clients, AddendumOnce alone
  is not inductive, since an unwrap may uncover an inner wrapper: `SeenOrCovered` says of
  every prefix of the stack that a codagent wrapper in it shows or is covered.
* `Harness_proofs`, runs. `AddendaMatchInjections` is about what was sent; the invariant
  adds what messages hold and what a run has read. Messages hold at most as many addenda
  as were written into them, and some if any was, since whoever writes adds one to what
  it read: a thread that overwrites another's text may lose an addendum, never the last
  one; messages of a single run have as many as were written (`HeldOK`). What a run has
  read was written before, and what it is ready to send has the rules (`CopyOK`).
  That server and caller agree rests on the lemma `DistinctNames`: as many names as
  contracts make the naming injective, so the last verdict under a name is the
  contract's own.

Assumptions are the named ASSUMEs on the constants, which TLC evaluates on every run.

Every invariant, action property and refinement that a passing run checks is proved. Only
model-checked is liveness (`EveryStreamEnds`, `CancelLands`, `NeverStuckOpen`,
`SomeoneGetsThrough`), because the provers treat neither fairness nor ENABLED. Proved and
in no run, beside the two above: `VerdictIsTrue` of BudgetGate, and the theorems that name
an invariant of the proofs themselves.

## 5. Not modelled

Not modelled: the text of events and SSE formatting, JSON bodies and error responses,
the regular expressions of the built-in contracts (an answer has the marks they find or
not), prompts, parsing and fetching of markdown sources, prices as floats (integers
here), the records of the tracer, HTTP middleware (handed to Starlette), `codagent
serve`, `load_snapshot` and `get_events` (no code reads a store back), argument
validation of tools (stateless), and what happens to a hook or an upstream that never
returns (the code has no timeout: the run never ends).

Hard places that no property covers, because the repository says nowhere what should
happen: the registry keeps every run and its history for ever (`server/runs.py:429`);
only output tokens are recorded, so a limit on input tokens is reached by the
application's own records alone (`server/runs.py:277`); the drop counter is bumped at
one of the three places that drop (`server/runs.py:127`); `RefusalPattern` looks for
its keywords in the answer while its addendum speaks of the request
(`harness/builtin.py:269`); a judge's NONCOMPLIANT, written as one word, contains the
marker (`harness/builtin.py:461`); `parse_structured` gives an instance that is already
parsed to the parser, which its docstring says it returns as-is
(`nodes/structured.py:31`). The models have the code's behaviour in each.

Compositions left out. Validation over the breaker over the limiter: to the breaker a
refusal of the limiter is a call of its tool that raises, which `CircuitBreaker` already
allows at any moment, and validation keeps no state. Budget and stream: `RunTask` has the
user's counter, `BudgetGate` the runs that share it, and neither reads a queue. Requests
and stream: a run of `RunService` is the run that `RunOutcome` promises, which `RunTask` is
proved to implement and `ServedRun` shows to its clients.
