------------------------ MODULE CodagentApp_proofs ------------------------
(***************************************************************************)
(* Proofs about CodagentApp and the service it starts, for any hooks,       *)
(* routes, runs, requests and sessions.                                     *)
(***************************************************************************)
EXTENDS CodagentApp, TLAPS

Outcomes == {"run.done", "run.contract_failed", "run.budget_exceeded",
             "run.cancelled", "run.failed"}
Tasks == {"none", "before", "running", "terminal", "after", "over"}
Statuses == {"queued", "running"} \cup Final
Request == [phase : {"idle", "polling", "answered"}, run : Runs \cup {None},
            answer : Statuses \cup {"none"}, late : BOOLEAN]

\* A run's status is final exactly from its terminal event on, which it agrees
\* with, and its task is over only when the stream is closed or a contract
\* killed it.
RunsInv ==
    /\ task \in [Runs -> Tasks] /\ status \in [Runs -> Statuses]
    /\ outcome \in [Runs -> Outcomes \cup {"none"}] /\ closed \in [Runs -> BOOLEAN]
    /\ \A r \in Runs :
           /\ task[r] \in {"none", "before"} => status[r] = "queued"
           /\ task[r] = "running" => status[r] = "running"
           /\ outcome[r] = "none" => status[r] \notin Final
           /\ outcome[r] # "none" =>
                  /\ task[r] \in {"terminal", "after", "over"}
                  /\ status[r] = Run(r)!StatusOf[outcome[r]]
           /\ task[r] \in {"terminal", "after"} => outcome[r] # "none"
           /\ task[r] \in {"after", "over"} => closed[r] \/ outcome[r] = "none"

\* A request is about a run; what it was answered stays true because neither an
\* outcome nor the end of a task is ever taken back.
RequestsInv ==
    /\ request \in [Requests -> Request]
    /\ \A q \in Requests : request[q].phase # "idle" => request[q].run \in Runs
    /\ AnswerIsOutcome

\* A run that shutdown found and does not wait for is over.
ShutdownInv ==
    /\ known \subseteq Runs /\ waitedFor \subseteq Runs
    /\ shutdown \in {"serving", "waiting", "returned", "timedOut"}
    /\ \A r \in known : task[r] # "none"
    /\ shutdown = "waiting" => \A r \in known : r \in waitedFor \/ task[r] = "over"
    /\ shutdown = "returned" => \A r \in known : task[r] = "over"

\* The registry has the runs that have a task, and no other run is in a session.
SessionsInv ==
    /\ created \in Seq(Runs)
    /\ named \in [Runs -> Sessions \cup {None}]
    /\ \A r \in Runs :
           IF task[r] = "none" THEN named[r] = None
           ELSE \E i \in 1 .. Len(created) : created[i] = r
    /\ \A s \in Sessions : RunsOf(s) \in Seq(Runs)
    /\ SessionHasItsRuns

ServiceInv == RunsInv /\ RequestsInv /\ ShutdownInv /\ SessionsInv

\* The status that goes with a terminal event is final.
LEMMA StatusIsFinal ==
    \A r \in Runs, o \in Outcomes : Run(r)!StatusOf[o] \in Final
  BY DEF Outcomes, Final, Run!StatusOf

\* The steps of a run's task and the handlers keep what is known of runs.
LEMMA RunsKeep == RunsInv /\ [Next]_vars => RunsInv'
  <1> SUFFICES ASSUME RunsInv, [Next]_vars PROVE RunsInv'
    OBVIOUS
  <1> USE DEF RunsInv
  <1>1. ASSUME NEW r \in Runs, Begin(r) PROVE RunsInv'
    BY <1>1 DEF Begin, Tasks, Statuses, Final
  <1>2. ASSUME NEW r \in Runs, NEW o \in Outcomes, Conclude(r, o) PROVE RunsInv'
    BY <1>2, StatusIsFinal DEF Conclude, MayEnd, Tasks, Statuses, Outcomes, Final
  <1>3. ASSUME NEW r \in Runs, Crash(r) PROVE RunsInv'
    BY <1>3 DEF Crash, Tasks
  <1>4. ASSUME NEW r \in Runs, CloseStream(r) PROVE RunsInv'
    BY <1>4 DEF CloseStream, Tasks
  <1>5. ASSUME NEW r \in Runs, Exit(r) PROVE RunsInv'
    BY <1>5 DEF Exit, Tasks
  <1>6. ASSUME NEW r \in Runs, NEW s, CreateRun(r, s) PROVE RunsInv'
    BY <1>6 DEF CreateRun, Tasks
  <1>7. ASSUME UNCHANGED <<task, status, outcome, closed>> PROVE RunsInv'
    BY <1>7
  <1>8. QED
    BY <1>1, <1>2, <1>3, <1>4, <1>5, <1>6, <1>7
    DEF Next, RunStep, CreateSession, RequestCancel, Deadline, Answer, BeginShutdown,
        ShutdownReturns, ShutdownTimesOut, vars, runVars, Outcomes, Run!StatusOf

\* An outcome is never taken back, nor is the end of a task.
LEMMA RunsGoForward ==
    ASSUME RunsInv, [Next]_vars, NEW r \in Runs
    PROVE  /\ outcome[r] # "none" \/ task[r] = "over" => outcome'[r] = outcome[r]
           /\ task[r] = "over" => task'[r] = "over"
           /\ task[r] # "none" => task'[r] # "none"
  <1> USE DEF RunsInv
  <1>1. ASSUME NEW q \in Runs, RunStep(q)
        PROVE  /\ outcome[r] # "none" \/ task[r] = "over" => outcome'[r] = outcome[r]
               /\ task[r] = "over" => task'[r] = "over"
               /\ task[r] # "none" => task'[r] # "none"
    BY <1>1 DEF RunStep, Begin, Conclude, MayEnd, Crash, CloseStream, Exit
  <1>2. ASSUME NEW q \in Runs, NEW s, CreateRun(q, s)
        PROVE  /\ outcome[r] # "none" \/ task[r] = "over" => outcome'[r] = outcome[r]
               /\ task[r] = "over" => task'[r] = "over"
               /\ task[r] # "none" => task'[r] # "none"
    BY <1>2 DEF CreateRun
  <1>3. CASE UNCHANGED <<task, outcome>>
    BY <1>3
  <1>4. QED
    BY <1>1, <1>2, <1>3 DEF Next, CreateSession, RequestCancel, Deadline, Answer,
        BeginShutdown, ShutdownReturns, ShutdownTimesOut, vars, runVars

\* What one request was answered is true.
AnswerHolds(q) ==
    LET r == request[q].run
        said == request[q].answer
    IN request[q].phase = "answered" =>
           IF said \in Final
           THEN outcome[r] # "none" /\ said = Run(r)!StatusOf[outcome[r]]
           ELSE request[q].late \/ Crashed(r)

\* An answer that is true stays true.
LEMMA AnswersStayTrue ==
    ASSUME RunsInv, RequestsInv, [Next]_vars, NEW q \in Requests, request'[q] = request[q]
    PROVE  AnswerHolds(q)'
  <1>1. AnswerHolds(q)
    BY DEF RequestsInv, AnswerIsOutcome, AnswerHolds
  <1>2. request[q].phase = "answered" => request[q].run \in Runs
    BY DEF RequestsInv
  <1>3. ASSUME NEW r \in Runs
        PROVE  /\ outcome[r] # "none" =>
                      outcome'[r] # "none" /\ outcome'[r] = outcome[r]
               /\ Crashed(r) => Crashed(r)'
    BY RunsGoForward DEF Crashed
  <1>4. \A r : Run(r)!StatusOf' = Run(r)!StatusOf
    BY DEF Run!StatusOf
  <1>5. QED
    BY <1>1, <1>2, <1>3, <1>4 DEF AnswerHolds

\* Every step keeps what is known of the cancel requests.
LEMMA RequestsKeep == RunsInv /\ RequestsInv /\ [Next]_vars => RequestsInv'
  <1> SUFFICES ASSUME RunsInv, RequestsInv, [Next]_vars PROVE RequestsInv'
    OBVIOUS
  <1>1. ASSUME request' \in [Requests -> Request],
               \A q \in Requests : request'[q].phase # "idle" => request'[q].run \in Runs,
               \A q \in Requests : AnswerHolds(q)'
        PROVE  RequestsInv'
    BY <1>1 DEF RequestsInv, AnswerIsOutcome, AnswerHolds
  <1>2. CASE request' = request
    BY <1>1, <1>2, AnswersStayTrue DEF RequestsInv
  <1>3. ASSUME NEW q \in Requests, NEW r \in Runs, RequestCancel(q, r) PROVE RequestsInv'
    <2>1. request' = [request EXCEPT ![q].phase = "polling", ![q].run = r]
      BY <1>3 DEF RequestCancel
    <2>2. request[q] \in Request
      BY DEF RequestsInv
    <2>3. request' = [request EXCEPT ![q] = [request[q] EXCEPT !.phase = "polling", !.run = r]]
      BY <2>1
    <2>4. [request[q] EXCEPT !.phase = "polling", !.run = r] \in Request
      BY <2>2 DEF Request
    <2>5. /\ request' \in [Requests -> Request]
          /\ request'[q].phase = "polling" /\ request'[q].run = r
          /\ \A p \in Requests : p # q => request'[p] = request[p]
      BY <2>2, <2>3, <2>4 DEF RequestsInv, Request
    <2>6. \A p \in Requests : AnswerHolds(p)'
      BY <2>5, AnswersStayTrue DEF AnswerHolds
    <2>7. QED
      BY <1>1, <2>5, <2>6 DEF RequestsInv
  <1>4. ASSUME NEW q \in Requests, Deadline(q) PROVE RequestsInv'
    <2>1. request' = [request EXCEPT ![q].late = TRUE] /\ request[q].phase = "polling"
      BY <1>4 DEF Deadline
    <2>2. request[q] \in Request /\ request[q].run \in Runs
      BY <2>1 DEF RequestsInv
    <2>3. request' = [request EXCEPT ![q] = [request[q] EXCEPT !.late = TRUE]]
      BY <2>1
    <2>4. [request[q] EXCEPT !.late = TRUE] \in Request
      BY <2>2 DEF Request
    <2>5. /\ request' \in [Requests -> Request]
          /\ request'[q].phase = "polling" /\ request'[q].run = request[q].run
          /\ \A p \in Requests : p # q => request'[p] = request[p]
      BY <2>1, <2>2, <2>3, <2>4 DEF RequestsInv, Request
    <2>6. \A p \in Requests : AnswerHolds(p)'
      BY <2>5, AnswersStayTrue DEF AnswerHolds
    <2>7. QED
      BY <1>1, <2>2, <2>5, <2>6 DEF RequestsInv
  <1>5. ASSUME NEW q \in Requests, Answer(q) PROVE RequestsInv'
    <2> DEFINE r == request[q].run
    <2>1. /\ request' = [request EXCEPT ![q].phase = "answered", ![q].answer = status[r]]
          /\ request[q].phase = "polling" /\ (task[r] = "over" \/ request[q].late)
          /\ UNCHANGED <<task, status, outcome>>
      BY <1>5 DEF Answer, runVars
    <2>2. request[q] \in Request /\ r \in Runs
      BY <2>1 DEF RequestsInv
    <2>3. status[r] \in Statuses
      BY <2>2 DEF RunsInv
    <2>4. request' = [request EXCEPT ![q] =
                          [request[q] EXCEPT !.phase = "answered", !.answer = status[r]]]
      BY <2>1
    <2>5. [request[q] EXCEPT !.phase = "answered", !.answer = status[r]] \in Request
      BY <2>2, <2>3 DEF Request
    <2>6. /\ request' \in [Requests -> Request]
          /\ request'[q].phase = "answered" /\ request'[q].run = r
          /\ request'[q].answer = status[r] /\ request'[q].late = request[q].late
          /\ \A p \in Requests : p # q => request'[p] = request[p]
      BY <2>2, <2>4, <2>5 DEF RequestsInv, Request
    <2> HIDE DEF r
    <2>7. AnswerHolds(q)'
      <3>1. IF status[r] \in Final
            THEN outcome[r] # "none" /\ status[r] = Run(r)!StatusOf[outcome[r]]
            ELSE request[q].late \/ Crashed(r)
        <4>1. outcome[r] = "none" => status[r] \notin Final
          BY <2>2 DEF RunsInv
        <4>2. outcome[r] # "none" =>
                  status[r] \in Final /\ status[r] = Run(r)!StatusOf[outcome[r]]
          BY <2>2, StatusIsFinal DEF RunsInv
        <4>3. QED
          BY <2>1, <4>1, <4>2 DEF Crashed, r
      <3>2. QED
        BY <2>1, <2>6, <3>1 DEF AnswerHolds, Crashed, Run!StatusOf
    <2>8. \A p \in Requests : AnswerHolds(p)'
      BY <2>6, <2>7, AnswersStayTrue
    <2>9. QED
      BY <1>1, <2>2, <2>6, <2>8 DEF RequestsInv
  <1>6. QED
    BY <1>2, <1>3, <1>4, <1>5
    DEF Next, RunStep, Begin, Conclude, Crash, CloseStream, Exit, CreateRun, CreateSession,
        BeginShutdown, ShutdownReturns, ShutdownTimesOut, vars

\* Every step keeps what is known of shutdown.
LEMMA ShutdownKeeps == RunsInv /\ ShutdownInv /\ [Next]_vars => ShutdownInv'
  <1> SUFFICES ASSUME RunsInv, ShutdownInv, [Next]_vars PROVE ShutdownInv'
    OBVIOUS
  <1>1. \A r \in Runs :
            /\ task[r] = "over" => task'[r] = "over"
            /\ task[r] # "none" => task'[r] # "none"
    BY RunsGoForward
  <1>2. CASE UNCHANGED shutdownVars
    <2>1. /\ UNCHANGED <<shutdown, waitedFor, known>> /\ known \subseteq Runs
          /\ \A r \in known :
                 /\ task[r] = "over" => task'[r] = "over"
                 /\ task[r] # "none" => task'[r] # "none"
      BY <1>1, <1>2 DEF ShutdownInv, shutdownVars
    <2>2. QED
      BY <2>1 DEF ShutdownInv
  <1>3. CASE BeginShutdown
    BY <1>3 DEF BeginShutdown, ShutdownInv, InFlight, runVars
  <1>4. CASE ShutdownReturns
    BY <1>4 DEF ShutdownReturns, ShutdownInv, InFlight, runVars, RunsInv, Tasks
  <1>5. CASE ShutdownTimesOut
    BY <1>5 DEF ShutdownTimesOut, ShutdownInv, runVars
  <1>6. QED
    BY <1>2, <1>3, <1>4, <1>5
    DEF Next, RunStep, Begin, Conclude, Crash, CloseStream, Exit, CreateRun, CreateSession,
        RequestCancel, Deadline, Answer, vars

\* One more run in a list.
LEMMA AppendedRun ==
    ASSUME NEW s \in Seq(Runs), NEW r \in Runs
    PROVE  /\ Append(s, r) \in Seq(Runs) /\ Len(s) \in Nat
           /\ Len(Append(s, r)) = Len(s) + 1
           /\ \A i \in 1 .. Len(s) : Append(s, r)[i] = s[i]
           /\ Append(s, r)[Len(s) + 1] = r
           /\ \A p, q : Before(s, p, q) => Before(Append(s, r), p, q)
           /\ \A i \in 1 .. Len(s) : Before(Append(s, r), s[i], r)
  <1> DEFINE longer == Append(s, r)
  <1>1. /\ longer \in Seq(Runs) /\ Len(s) \in Nat /\ Len(longer) = Len(s) + 1
        /\ \A i \in 1 .. Len(s) : longer[i] = s[i]
        /\ longer[Len(s) + 1] = r
    OBVIOUS
  <1> HIDE DEF longer
  <1>2. 1 .. Len(s) \subseteq 1 .. Len(longer) /\ Len(s) + 1 \in 1 .. Len(longer)
    BY <1>1
  <1>3. \A p, q : Before(s, p, q) => Before(longer, p, q)
    BY <1>1, <1>2 DEF Before
  <1>4. \A i \in 1 .. Len(s) : Before(longer, s[i], r)
    <2>1. \A i \in 1 .. Len(s) : i < Len(s) + 1
      BY <1>1
    <2>2. QED
      BY <1>1, <1>2, <2>1 DEF Before
  <1>5. QED
    BY <1>1, <1>3, <1>4 DEF longer

\* A run that is created joins the session it names, if any.
LEMMA CreateKeepsSessions ==
    ASSUME RunsInv, SessionsInv, NEW r \in Runs, NEW s \in Sessions \cup {None},
           CreateRun(r, s)
    PROVE  SessionsInv'
  <1>1. /\ task[r] = "none" /\ task' = [task EXCEPT ![r] = "before"]
        /\ created' = Append(created, r) /\ named' = [named EXCEPT ![r] = s]
        /\ IF s = None THEN UNCHANGED sessions ELSE AttachRun(s, r)
    BY DEF CreateRun
  <1>2. task \in [Runs -> Tasks] /\ named \in [Runs -> Sessions \cup {None}]
        /\ created \in Seq(Runs)
    BY DEF RunsInv, SessionsInv
  <1>3. /\ created' \in Seq(Runs) /\ Len(created) \in Nat
        /\ Len(created') = Len(created) + 1
        /\ \A i \in 1 .. Len(created) : created'[i] = created[i]
        /\ created'[Len(created) + 1] = r
        /\ \A p, q : Before(created, p, q) => Before(created', p, q)
        /\ \A i \in 1 .. Len(created) : Before(created', created[i], r)
    BY <1>1, <1>2, AppendedRun
  <1>4. \A q \in Runs : IF task'[q] = "none" THEN named'[q] = None
                        ELSE \E i \in 1 .. Len(created') : created'[i] = q
    <2>1. ASSUME NEW q \in Runs, q # r
          PROVE  IF task'[q] = "none" THEN named'[q] = None
                 ELSE \E i \in 1 .. Len(created') : created'[i] = q
      <3>1. task'[q] = task[q] /\ named'[q] = named[q]
        BY <1>1, <1>2, <2>1
      <3>2. 1 .. Len(created) \subseteq 1 .. Len(created')
        BY <1>3
      <3>3. QED
        BY <1>3, <3>1, <3>2 DEF SessionsInv
    <2>2. task'[r] # "none" /\ Len(created) + 1 \in 1 .. Len(created')
      BY <1>1, <1>2, <1>3
    <2>3. QED
      BY <1>3, <2>1, <2>2
  <1>5. ASSUME NEW t \in Sessions
        PROVE  /\ RunsOf(t) \in Seq(Runs)
               /\ RunsOf(t)' = IF t = s THEN Append(RunsOf(t), r) ELSE RunsOf(t)
    <2>1. RunsOf(t) \in Seq(Runs)
      BY DEF SessionsInv
    <2>2. CASE s = None
      BY <1>1, <2>1, <2>2, NoneIsNoSession DEF RunsOf, HasSession
    <2>3. CASE s # None
      <3>1. /\ DOMAIN sessions' = DOMAIN sessions \cup {s}
            /\ t \in DOMAIN sessions \cup {s} =>
                   sessions'[t] = IF t # s THEN sessions[t] ELSE Append(RunsOf(s), r)
        BY <1>1, <2>3 DEF AttachRun, RunsOf
      <3>2. QED
        BY <2>1, <3>1 DEF RunsOf, HasSession
    <2>4. QED
      BY <2>1, <2>2, <2>3
  <1>6. ASSUME NEW t \in Sessions
        PROVE  /\ RunsOf(t)' \in Seq(Runs)
               /\ {RunsOf(t)'[i] : i \in 1 .. Len(RunsOf(t)')} = {q \in Runs : named'[q] = t}
               /\ \A i, j \in 1 .. Len(RunsOf(t)') :
                      i < j => Before(created', RunsOf(t)'[i], RunsOf(t)'[j])
    <2> DEFINE old == RunsOf(t)
    <2>1. /\ old \in Seq(Runs)
          /\ {old[i] : i \in 1 .. Len(old)} = {q \in Runs : named[q] = t}
          /\ \A i, j \in 1 .. Len(old) : i < j => Before(created, old[i], old[j])
      BY DEF SessionsInv, SessionHasItsRuns
    <2>2. RunsOf(t)' = IF t = s THEN Append(old, r) ELSE old
      BY <1>5
    <2>3. named[r] = None /\ t # None
      BY <1>1, NoneIsNoSession DEF SessionsInv
    <2> HIDE DEF old
    <2>4. CASE t # s
      <3>1. \A q \in Runs : named'[q] = t <=> named[q] = t
        BY <1>1, <1>2, <2>3, <2>4
      <3>2. QED
        BY <1>3, <2>1, <2>2, <2>4, <3>1
    <2>5. CASE t = s
      <3> DEFINE new == Append(old, r)
      <3>1. /\ new \in Seq(Runs) /\ Len(old) \in Nat /\ Len(new) = Len(old) + 1
            /\ \A i \in 1 .. Len(old) : new[i] = old[i]
            /\ new[Len(old) + 1] = r
        BY <2>1, AppendedRun
      <3> HIDE DEF new
      <3>2. RunsOf(t)' = new
        BY <2>2, <2>5 DEF new
      <3>3. \A i \in 1 .. Len(new) : i \in 1 .. Len(old) \/ i = Len(old) + 1
        BY <3>1
      <3>4. \A q \in Runs : named'[q] = t <=> named[q] = t \/ q = r
        BY <1>1, <1>2, <2>5
      <3>5. {new[i] : i \in 1 .. Len(new)} = {q \in Runs : named'[q] = t}
        <4>1. ASSUME NEW q \in {new[i] : i \in 1 .. Len(new)}
              PROVE  q \in {p \in Runs : named'[p] = t}
          BY <2>1, <3>1, <3>3, <3>4
        <4>2. ASSUME NEW q \in Runs, named'[q] = t
              PROVE  \E i \in 1 .. Len(new) : new[i] = q
          <5>1. CASE q = r
            BY <3>1, <5>1
          <5>2. CASE named[q] = t
            <6>1. PICK i \in 1 .. Len(old) : old[i] = q
              BY <2>1, <5>2
            <6>2. QED
              BY <3>1, <6>1
          <5>3. QED
            BY <3>4, <4>2, <5>1, <5>2
        <4>3. QED
          BY <4>1, <4>2
      <3>6. ASSUME NEW i \in 1 .. Len(new), NEW j \in 1 .. Len(new), i < j
            PROVE  Before(created', new[i], new[j])
        <4>1. i \in 1 .. Len(old)
          BY <3>1, <3>6
        <4>2. CASE j \in 1 .. Len(old)
          BY <1>3, <2>1, <3>1, <3>6, <4>1, <4>2
        <4>3. CASE j = Len(old) + 1
          <5>1. old[i] \in Runs /\ named[old[i]] = t
            BY <2>1, <4>1
          <5>2. task[old[i]] # "none"
            BY <2>3, <5>1 DEF SessionsInv
          <5>3. PICK k \in 1 .. Len(created) : created[k] = old[i]
            BY <5>1, <5>2 DEF SessionsInv
          <5>4. QED
            BY <1>3, <3>1, <4>1, <4>3, <5>3
        <4>4. QED
          BY <3>3, <4>2, <4>3
      <3>7. QED
        BY <3>1, <3>2, <3>5, <3>6
    <2>6. QED
      BY <2>4, <2>5
  <1>7. named' \in [Runs -> Sessions \cup {None}]
    BY <1>1, <1>2
  <1>8. SessionHasItsRuns'
    BY <1>6 DEF SessionHasItsRuns
  <1>9. QED
    BY <1>3, <1>4, <1>6, <1>7, <1>8 DEF SessionsInv

\* Every step keeps what is known of the sessions.
LEMMA SessionsKeep == RunsInv /\ SessionsInv /\ [Next]_vars => SessionsInv'
  <1> SUFFICES ASSUME RunsInv, SessionsInv, [Next]_vars PROVE SessionsInv'
    OBVIOUS
  <1>1. ASSUME NEW r \in Runs, NEW s \in Sessions \cup {None}, CreateRun(r, s)
        PROVE  SessionsInv'
    BY <1>1, CreateKeepsSessions
  <1>2. ASSUME UNCHANGED <<created, named>>,
               \A r \in Runs : task'[r] = "none" <=> task[r] = "none",
               \A s \in Sessions : RunsOf(s)' = RunsOf(s)
        PROVE  SessionsInv'
    <2>1. SessionHasItsRuns'
      BY <1>2 DEF SessionsInv, SessionHasItsRuns
    <2>2. QED
      BY <1>2, <2>1 DEF SessionsInv
  <1>3. ASSUME NEW r \in Runs, RunStep(r) PROVE SessionsInv'
    <2>1. \A q \in Runs : task'[q] = "none" <=> task[q] = "none"
      BY <1>3 DEF RunsInv, RunStep, Begin, Conclude, MayEnd, Crash, CloseStream, Exit
    <2>2. UNCHANGED <<created, named, sessions>>
      BY <1>3 DEF RunStep, Begin, Conclude, Crash, CloseStream, Exit, storeVars
    <2>3. QED
      BY <1>2, <2>1, <2>2 DEF RunsOf, HasSession
  <1>4. ASSUME NEW s \in Sessions, CreateSession(s) PROVE SessionsInv'
    <2>1. \A t \in Sessions : RunsOf(t)' = RunsOf(t)
      BY <1>4 DEF CreateSession, RunsOf, HasSession
    <2>2. QED
      BY <1>2, <1>4, <2>1 DEF CreateSession, runVars
  <1>5. CASE UNCHANGED <<task, storeVars>>
    BY <1>2, <1>5 DEF storeVars, RunsOf, HasSession
  <1>6. QED
    BY <1>1, <1>3, <1>4, <1>5
    DEF Next, RequestCancel, Deadline, Answer, BeginShutdown, ShutdownReturns,
        ShutdownTimesOut, vars, runVars

\* The invariant of the service, whatever the runs, the clients and shutdown do.
THEOREM ServiceInvHolds == Spec => []ServiceInv
  <1>1. Init => ServiceInv
    <2> SUFFICES ASSUME Init PROVE ServiceInv
      OBVIOUS
    <2> USE DEF Init
    <2>1. RunsInv
      BY DEF RunsInv, Tasks, Statuses, Final
    <2>2. RequestsInv
      BY DEF RequestsInv, Request, AnswerIsOutcome
    <2>3. ShutdownInv
      BY DEF ShutdownInv
    <2>4. SessionsInv
      <3>1. \A s \in Sessions : RunsOf(s) = <<>>
        BY DEF RunsOf, HasSession
      <3>2. QED
        <4>1. \A s \in Sessions : {r \in Runs : named[r] = s} = {}
          BY NoneIsNoSession
        <4>2. SessionHasItsRuns
          BY <3>1, <4>1 DEF SessionHasItsRuns
        <4>3. /\ created \in Seq(Runs) /\ named \in [Runs -> Sessions \cup {None}]
              /\ \A r \in Runs : task[r] = "none" /\ named[r] = None
          OBVIOUS
        <4>4. \A s \in Sessions : RunsOf(s) \in Seq(Runs)
          BY <3>1, <4>3
        <4>5. QED
          BY <4>2, <4>3, <4>4 DEF SessionsInv
    <2>5. QED
      BY <2>1, <2>2, <2>3, <2>4 DEF ServiceInv
  <1>2. ServiceInv /\ [Next]_vars => ServiceInv'
    BY RunsKeep, RequestsKeep, ShutdownKeeps, SessionsKeep DEF ServiceInv
  <1>3. QED
    BY <1>1, <1>2, PTL DEF Spec

\* The application is the service with its registrations beside it.
THEOREM AppServes == AppSpec => Spec
  <1>1. AppInit => Init
    BY DEF AppInit
  <1>2. [AppNext]_<<vars, appVars>> => [Next]_vars
    BY DEF AppNext, Serve, Next
  <1>3. QED
    BY <1>1, <1>2, PTL DEF AppSpec, Spec

\* What happens to one run is a step RunOutcome allows, or none of its concern.
LEMMA StepRefinesOutcome ==
    ASSUME NEW r \in Runs, RunsInv, [Next]_vars
    PROVE  [Run(r)!OutcomeNext]_(Run(r)!outcomeVars)
  <1> USE DEF RunsInv, Run!OutcomeNext, Run!outcomeVars
  <1>1. ASSUME NEW q \in Runs, Begin(q) PROVE [Run(r)!OutcomeNext]_(Run(r)!outcomeVars)
    <2>1. q = r => Run(r)!Begin
      BY <1>1 DEF Begin, Run!Begin
    <2>2. QED
      BY <1>1, <2>1 DEF Begin
  <1>2. ASSUME NEW q \in Runs, NEW o \in Outcomes, Conclude(q, o)
        PROVE  [Run(r)!OutcomeNext]_(Run(r)!outcomeVars)
    <2>1. q = r => Run(r)!Conclude(o)
      BY <1>2 DEF Conclude, MayEnd, Run!Conclude
    <2>2. o \in DOMAIN Run(r)!StatusOf
      BY DEF Run!StatusOf, Outcomes
    <2>3. QED
      BY <1>2, <2>1, <2>2 DEF Conclude
  <1>3. ASSUME NEW q \in Runs, CloseStream(q) PROVE [Run(r)!OutcomeNext]_(Run(r)!outcomeVars)
    <2>1. q = r => Run(r)!CloseStream
      BY <1>3 DEF CloseStream, Run!CloseStream
    <2>2. QED
      BY <1>3, <2>1 DEF CloseStream
  <1>4. CASE UNCHANGED <<status, outcome, closed>>
    BY <1>4
  <1>5. QED
    BY <1>1, <1>2, <1>3, <1>4
    DEF Next, RunStep, Crash, Exit, CreateRun, CreateSession, RequestCancel, Deadline,
        Answer, BeginShutdown, ShutdownReturns, ShutdownTimesOut, vars, runVars,
        Outcomes, Run!StatusOf

\* Each run goes through the life that RunOutcome promises.
THEOREM RunsKeepPromise == AppSpec => EachRunKeepsPromise
  <1>1. ServiceInv /\ [Next]_vars =>
            \A r \in Runs : [Run(r)!OutcomeNext]_(Run(r)!outcomeVars)
    BY StepRefinesOutcome DEF ServiceInv
  <1>2. QED
    BY <1>1, ServiceInvHolds, AppServes, PTL DEF Spec, EachRunKeepsPromise

\* What a cancel is answered is true and stays true.
THEOREM CancelsAreAnswered == AppSpec => []AnswerIsOutcome
  <1>1. ServiceInv => AnswerIsOutcome
    BY DEF ServiceInv, RequestsInv
  <1>2. QED
    BY <1>1, AppServes, ServiceInvHolds, PTL

\* A shutdown that returns leaves no run of before it unfinished.
THEOREM ShutdownIsComplete == AppSpec => []ShutdownLeavesNone
  <1>1. ServiceInv => ShutdownLeavesNone
    BY DEF ServiceInv, RunsInv, ShutdownInv, ShutdownLeavesNone, Crashed
  <1>2. QED
    BY <1>1, AppServes, ServiceInvHolds, PTL

\* A session lists the runs that named it, in order of creation.
THEOREM SessionsAreComplete == AppSpec => []SessionHasItsRuns
  <1>1. ServiceInv => SessionHasItsRuns
    BY DEF ServiceInv, SessionsInv
  <1>2. QED
    BY <1>1, AppServes, ServiceInvHolds, PTL

----------------------------------------------------------------------------
(* The application around the service.                                      *)

\* A decorator is called once, and what the built application serves is what was
\* registered before it was built.
AppInv ==
    /\ extraRoutes \in Seq(Paths)
    /\ decorators \subseteq Paths
    /\ decorators \cap ToSet(extraRoutes) = {}
    /\ ~Built => late = {}
    /\ Built => ToSet(asgi.routes) \subseteq ToSet(extraRoutes)
    /\ RegisteredIsServed

\* One more route in the list.
LEMMA AppendedRoutes ==
    ASSUME NEW s \in Seq(Paths), NEW p \in Paths
    PROVE  Append(s, p) \in Seq(Paths) /\ ToSet(Append(s, p)) = ToSet(s) \cup {p}
  <1>1. /\ Len(s) \in Nat /\ DOMAIN s = 1 .. Len(s)
        /\ DOMAIN Append(s, p) = 1 .. Len(s) + 1
        /\ \A i \in 1 .. Len(s) : Append(s, p)[i] = s[i]
        /\ Append(s, p)[Len(s) + 1] = p
    OBVIOUS
  <1>2. Append(s, p) \in Seq(Paths)
    OBVIOUS
  <1>3. ASSUME NEW x PROVE x \in ToSet(Append(s, p)) <=> x \in ToSet(s) \cup {p}
    <2>1. CASE x \in ToSet(s)
      BY <1>1, <2>1 DEF ToSet
    <2>2. CASE x = p
      BY <1>1, <2>2 DEF ToSet
    <2>3. CASE x \in ToSet(Append(s, p))
      BY <1>1, <2>3 DEF ToSet
    <2>4. QED
      BY <2>1, <2>2, <2>3
  <1>4. QED
    BY <1>2, <1>3

\* Every registration, the build and every step of the service keep it.
LEMMA StepKeepsAppInv == AppInv /\ [AppNext]_<<vars, appVars>> => AppInv'
  <1> SUFFICES ASSUME AppInv, [AppNext]_<<vars, appVars>> PROVE AppInv'
    OBVIOUS
  <1>1. ASSUME NEW h \in Hooks, AddMiddleware(h) PROVE AppInv'
    BY <1>1 DEF AppInv, AddMiddleware, Built, RegisteredIsServed
  <1>2. ASSUME NEW p \in Paths, CallRoute(p) PROVE AppInv'
    BY <1>2 DEF AppInv, CallRoute, Built, RegisteredIsServed
  <1>3. ASSUME NEW p \in Paths, CallDecorator(p) PROVE AppInv'
    <2>1. /\ extraRoutes' \in Seq(Paths)
          /\ ToSet(extraRoutes') = ToSet(extraRoutes) \cup {p}
      BY <1>3, AppendedRoutes DEF AppInv, CallDecorator
    <2>2. p \notin ToSet(extraRoutes)
      BY <1>3 DEF AppInv, CallDecorator
    <2>3. ToSet(extraRoutes)' = ToSet(extraRoutes) \cup {p}
      BY <2>1 DEF ToSet
    <2>4. ToSet(asgi.routes)' = ToSet(asgi.routes)
      BY <1>3 DEF CallDecorator, ToSet
    <2>5. QED
      BY <1>3, <2>1, <2>2, <2>3, <2>4
      DEF AppInv, CallDecorator, Built, RegisteredIsServed
  <1>4. CASE Build
    BY <1>4 DEF AppInv, Build, Built, RegistryMiddleware, RegisteredIsServed
  <1>5. CASE UNCHANGED appVars
    BY <1>5 DEF AppInv, appVars, Built, RegisteredIsServed
  <1>6. QED
    BY <1>1, <1>2, <1>3, <1>4, <1>5 DEF AppNext, Register

\* What was registered without an error takes effect, for any registrations and
\* whatever the service does meanwhile, with the two exceptions named.
THEOREM RegistrationsTakeEffect == AppSpec => []RegisteredIsServed
  <1>1. AppInit => AppInv
    BY DEF AppInit, AppInv, Built, RegisteredIsServed, ToSet
  <1>2. AppInv => RegisteredIsServed
    BY DEF AppInv
  <1>3. QED
    BY <1>1, <1>2, StepKeepsAppInv, PTL DEF AppSpec
=============================================================================
