----------------------------- MODULE RunService -----------------------------
(***************************************************************************)
(* The HTTP application around the runs (src/codagent/server/app.py), their *)
(* registry and its shutdown (runs.py:371-450) and the session store        *)
(* (sessions.py).                                                           *)
(*                                                                         *)
(* A handler that awaits nothing is one step: POST /v1/runs creates the     *)
(* task, registers the run and attaches it to its session at once.  POST    *)
(* cancel sets the flag, then polls the task until it is over or one second *)
(* has passed; everything else runs meanwhile.  A run's task does what      *)
(* RunOutcome promises (RunTask shows it), or dies in a contract that       *)
(* raises.  GET and the session listing only read, and what a stream        *)
(* delivers is RunStream's subject.                                         *)
(***************************************************************************)
EXTENDS Naturals, Sequences, FiniteSets

CONSTANTS Runs,           \* the runs that may be created
          Requests,       \* POST cancel requests
          Sessions,       \* session ids that clients use
          None,
          JudgeMayRaise,  \* a contract may raise out of run_task
          MayTimeOut      \* shutdown_timeout is configured

ASSUME NoneIsNoSession == None \notin Sessions \cup Runs
ASSUME SwitchesAreBoolean == JudgeMayRaise \in BOOLEAN /\ MayTimeOut \in BOOLEAN

VARIABLES created,   \* the registry's runs, in the order of creation
          task,      \* each run's task: "none", "before", "running",
                     \* "terminal", "after" or "over"
          status,    \* AgentRun.status
          cancel,    \* _cancel_requested
          outcome,   \* the terminal event published, or "none"
          closed,    \* mark_done ran
          sessions,  \* the session store: the runs of each session it has
          named,     \* history: the session each run's POST named, or None
          request,   \* each cancel request: its run, phase and answer
          shutdown,  \* "serving", "waiting", "returned" or "timedOut"
          waitedFor, \* the runs shutdown waits for
          known      \* history: the runs created before shutdown began

runVars == <<task, status, cancel, outcome, closed>>
storeVars == <<created, sessions, named>>
shutdownVars == <<shutdown, waitedFor, known>>
vars == <<runVars, storeVars, request, shutdownVars>>

\* What run_task promises of each run.
Run(r) == INSTANCE RunOutcome WITH
    status <- status[r], outcome <- outcome[r], closed <- closed[r]

Final == {"completed", "cancelled", "failed"}

\* Mutant of InFlight: a task that has not begun is not waited for.
InFlightRunning == {r \in Runs : task[r] \notin {"none", "before", "over"}}

\* in_flight: the tasks that are not done.
InFlight == {r \in Runs : task[r] \notin {"none", "over"}}

Init ==
    /\ created = <<>>
    /\ task = [r \in Runs |-> "none"]
    /\ status = [r \in Runs |-> "queued"]
    /\ cancel = [r \in Runs |-> FALSE]
    /\ outcome = [r \in Runs |-> "none"]
    /\ closed = [r \in Runs |-> FALSE]
    /\ sessions = <<>>   \* the function with no session in its domain
    /\ named = [r \in Runs |-> None]
    /\ request = [q \in Requests |-> [phase |-> "idle", run |-> None,
                                      answer |-> "none", late |-> FALSE]]
    /\ shutdown = "serving"
    /\ waitedFor = {}
    /\ known = {}
----------------------------------------------------------------------------
(* The task of a run, one step per await (RunTask has the details).          *)

\* The before_run hooks returned.
Begin(r) ==
    /\ task[r] = "before"
    /\ task' = [task EXCEPT ![r] = "running"]
    /\ status' = [status EXCEPT ![r] = "running"]
    /\ UNCHANGED <<cancel, outcome, closed, storeVars, request, shutdownVars>>

\* What run_task may announce.  Before it runs it can only fail, and a cancel
\* requested meanwhile is found when it does run.
MayEnd(r, o) ==
    \/ o = "run.failed" /\ task[r] \in {"before", "running"}
    \/ /\ task[r] = "running"
       /\ \/ o = "run.cancelled" /\ cancel[r]
          \/ o = "run.budget_exceeded"
          \/ o \in {"run.done", "run.contract_failed"} /\ ~cancel[r]

\* Mutant of Conclude: the status changes and the event is published later.
ConcludeSilently(r, o) ==
    /\ MayEnd(r, o)
    /\ task' = [task EXCEPT ![r] = "terminal"]
    /\ status' = [status EXCEPT ![r] = Run(r)!StatusOf[o]]
    /\ cancel' = [cancel EXCEPT ![r] = @ \/ o = "run.budget_exceeded"]
    /\ UNCHANGED <<outcome, closed, storeVars, request, shutdownVars>>

\* Status and terminal event, with no await between them.
Conclude(r, o) ==
    /\ MayEnd(r, o)
    /\ task' = [task EXCEPT ![r] = "terminal"]
    /\ status' = [status EXCEPT ![r] = Run(r)!StatusOf[o]]
    /\ outcome' = [outcome EXCEPT ![r] = o]
    /\ cancel' = [cancel EXCEPT ![r] = @ \/ o = "run.budget_exceeded"]
    /\ UNCHANGED <<closed, storeVars, request, shutdownVars>>

\* A contract raises: the task is over and nothing was announced.
Crash(r) ==
    /\ JudgeMayRaise
    /\ task[r] = "running" /\ ~cancel[r]
    /\ task' = [task EXCEPT ![r] = "over"]
    /\ UNCHANGED <<status, cancel, outcome, closed, storeVars, request,
                   shutdownVars>>

CloseStream(r) ==
    /\ task[r] = "terminal"
    /\ task' = [task EXCEPT ![r] = "after"]
    /\ closed' = [closed EXCEPT ![r] = TRUE]
    /\ UNCHANGED <<status, cancel, outcome, storeVars, request, shutdownVars>>

\* The after_run hooks returned.
Exit(r) ==
    /\ task[r] = "after"
    /\ task' = [task EXCEPT ![r] = "over"]
    /\ UNCHANGED <<status, cancel, outcome, closed, storeVars, request,
                   shutdownVars>>

----------------------------------------------------------------------------
(* Handlers.                                                                *)

HasSession(s) == s \in DOMAIN sessions

\* Mutant of AttachRun: the session is made again for every run.
AttachRunAnew(s, r) ==
    sessions' = [t \in DOMAIN sessions \cup {s} |->
                    IF t = s THEN <<r>> ELSE sessions[t]]

\* attach_run: a session nobody created is created now.
AttachRun(s, r) ==
    sessions' = [t \in DOMAIN sessions \cup {s} |->
                    IF t # s THEN sessions[t]
                    ELSE Append(IF HasSession(s) THEN sessions[s] ELSE <<>>, r)]

\* POST /v1/runs, in session s or in none; or application code that creates a
\* run through the registry, which it may do during shutdown too.
CreateRun(r, s) ==
    /\ task[r] = "none"
    /\ task' = [task EXCEPT ![r] = "before"]
    /\ created' = Append(created, r)
    /\ named' = [named EXCEPT ![r] = s]
    /\ IF s = None THEN UNCHANGED sessions ELSE AttachRun(s, r)
    /\ UNCHANGED <<status, cancel, outcome, closed, request, shutdownVars>>

\* POST /v1/sessions: a new session has no run.
CreateSession(s) ==
    /\ ~HasSession(s)
    /\ sessions' = [t \in DOMAIN sessions \cup {s} |->
                        IF t = s THEN <<>> ELSE sessions[t]]
    /\ UNCHANGED <<runVars, created, named, request, shutdownVars>>

\* POST /v1/runs/{id}/cancel: the flag is set and the wait begins.
RequestCancel(q, r) ==
    /\ request[q].phase = "idle"
    /\ task[r] # "none"
    /\ cancel' = [cancel EXCEPT ![r] = TRUE]
    /\ request' = [request EXCEPT ![q].phase = "polling", ![q].run = r]
    /\ UNCHANGED <<task, status, outcome, closed, storeVars, shutdownVars>>

\* The second has passed.
Deadline(q) ==
    /\ request[q].phase = "polling"
    /\ ~request[q].late
    /\ request' = [request EXCEPT ![q].late = TRUE]
    /\ UNCHANGED <<runVars, storeVars, shutdownVars>>

\* The poll finds the task over, or the deadline passed, and the handler
\* answers with the status of now.
Answer(q) ==
    /\ request[q].phase = "polling"
    /\ task[request[q].run] = "over" \/ request[q].late
    /\ request' = [request EXCEPT ![q].phase = "answered",
                                  ![q].answer = status[request[q].run]]
    /\ UNCHANGED <<runVars, storeVars, shutdownVars>>

----------------------------------------------------------------------------
(* Shutdown.                                                                *)

\* The runs in flight now are those it waits for; with none it returns.
BeginShutdown ==
    /\ shutdown = "serving"
    /\ waitedFor' = InFlight
    /\ known' = {r \in Runs : task[r] # "none"}
    /\ shutdown' = IF InFlight = {} THEN "returned" ELSE "waiting"
    /\ UNCHANGED <<runVars, storeVars, request>>

ShutdownReturns ==
    /\ shutdown = "waiting"
    /\ waitedFor \cap InFlight = {}
    /\ shutdown' = "returned"
    /\ UNCHANGED <<runVars, storeVars, request, waitedFor, known>>

\* The runs still in flight are left behind, not cancelled.
ShutdownTimesOut ==
    /\ MayTimeOut
    /\ shutdown = "waiting"
    /\ waitedFor \cap InFlight # {}
    /\ shutdown' = "timedOut"
    /\ UNCHANGED <<runVars, storeVars, request, waitedFor, known>>

RunStep(r) ==
    Begin(r) \/ (\E o \in DOMAIN Run(r)!StatusOf : Conclude(r, o)) \/ Crash(r)
             \/ CloseStream(r) \/ Exit(r)

Next ==
    \/ \E r \in Runs : RunStep(r) \/ (\E s \in Sessions \cup {None} : CreateRun(r, s))
    \/ \E s \in Sessions : CreateSession(s)
    \/ \E q \in Requests : (\E r \in Runs : RequestCancel(q, r)) \/ Deadline(q) \/ Answer(q)
    \/ BeginShutdown \/ ShutdownReturns \/ ShutdownTimesOut

Spec == Init /\ [][Next]_vars

----------------------------------------------------------------------------
(* Properties.                                                              *)

Crashed(r) == task[r] = "over" /\ outcome[r] = "none"

\* What a cancel is answered is true and stays true: a final status is that of
\* the terminal event, which a subscriber who comes now finds in the backlog
\* (app.py:150-152), and only the deadline, or a contract that killed the run,
\* lets the answer be a status that is not final.
AnswerIsOutcome ==
    \A q \in Requests :
        LET r == request[q].run
            said == request[q].answer
        IN request[q].phase = "answered" =>
               IF said \in Final
               THEN outcome[r] # "none" /\ said = Run(r)!StatusOf[outcome[r]]
               ELSE request[q].late \/ Crashed(r)

\* When shutdown returns without a timeout, every run created before it began
\* is over and has closed its stream (runs.py:441-443), unless a contract
\* killed it.
ShutdownLeavesNone ==
    shutdown = "returned" =>
        \A r \in known : task[r] = "over" /\ (closed[r] \/ Crashed(r))

\* Whatever clients, other runs and shutdown do, each run goes through the life
\* that RunOutcome promises.
EachRunKeepsPromise ==
    [][\A r \in Runs : [Run(r)!OutcomeNext]_(Run(r)!outcomeVars)]_vars

RunsOf(s) == IF HasSession(s) THEN sessions[s] ELSE <<>>

\* q comes before r in runs.
Before(runs, q, r) ==
    \E i, j \in 1 .. Len(runs) : i < j /\ runs[i] = q /\ runs[j] = r

\* A session lists the runs that named it, all of them, in order of creation,
\* whether it was created first or by its first run.
SessionHasItsRuns ==
    \A s \in Sessions :
        /\ {RunsOf(s)[i] : i \in 1 .. Len(RunsOf(s))} = {r \in Runs : named[r] = s}
        /\ \A i, j \in 1 .. Len(RunsOf(s)) :
               i < j => Before(created, RunsOf(s)[i], RunsOf(s)[j])
=============================================================================
