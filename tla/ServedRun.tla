----------------------------- MODULE ServedRun ------------------------------
(***************************************************************************)
(* One run as its clients see it (src/codagent/server/runs.py): run_task    *)
(* with its hooks, cancels and faults (RunTask) publishes into the history  *)
(* and the queues of the clients (RunStream), which attach, read, break off *)
(* and come back while it runs and after it is over.                        *)
(*                                                                         *)
(* run_task and the streams of the clients are tasks of one event loop.     *)
(* Whatever the task publishes or closes in a step is in every queue before *)
(* it awaits again: the locked parts of publish and mark_done await nothing. *)
(***************************************************************************)
EXTENDS RunTask

CONSTANTS Clients,    \* the clients that watch the run
          MaxQueue,   \* max_queue_size, 0 = unbounded
          MaxHistory  \* max_events, 0 = unbounded

ASSUME ClientsAreFinite == IsFiniteSet(Clients)
ASSUME LimitsAreNat == MaxQueue \in Nat /\ MaxHistory \in Nat

VARIABLES retained,   \* _events, by their ids; RunTask's events has them all
          doneAt, registered, dropped, queue, conn, seen  \* as in RunStream

streamVars == <<retained, doneAt, registered, dropped, queue, conn, seen>>
servedVars == <<vars, streamVars>>

\* The id of the terminal event, 0 before it.
TerminalId == IF TerminalIds = {} THEN 0
              ELSE CHOOSE i \in TerminalIds : \A j \in TerminalIds : i <= j

\* The stream, as RunStream has it: what it bounds by MaxId and Late is what
\* run_task can publish before its terminal event, and hooks after it.
Stream == INSTANCE RunStream WITH
    MaxId <- 1 + MaxTokens + MaxNotes,
    Late <- MaxNotes,
    nextId <- Len(events),
    events <- retained,
    terminal <- TerminalId

ServedInit == Init /\ Stream!Init

\* What a step of the task does to the stream.
Broadcast ==
    IF events' # events THEN Stream!Record
    ELSE IF done' # done THEN Stream!MarkDone
    ELSE UNCHANGED streamVars

TaskMoves == Next /\ Broadcast

ClientMoves(c) ==
    /\ UNCHANGED vars
    /\ \/ Stream!Attach(c)
       \/ Stream!Deliver(c)
       \/ Stream!Finish(c)
       \/ Stream!Disconnect(c)

ServedNext == TaskMoves \/ \E c \in Clients : ClientMoves(c)

ServedSpec == ServedInit /\ [][ServedNext]_servedVars
----------------------------------------------------------------------------
(* Properties.                                                              *)

\* The names of the events that a client received.
Received(c) == [i \in 1 .. Len(seen[c]) |-> events[seen[c][i]]]

\* "Terminal events (exactly one is emitted)" (runs.py:236), as a client sees
\* it: however often it reconnects, and whatever hooks publish and cancels
\* interrupt, no client receives two outcomes, and one that is told that the
\* stream is over has received the outcome that the run's status says, provided
\* the limits leave room for it.
ClientsSeeOutcome ==
    \A c \in Clients :
        /\ \A i, j \in DOMAIN Received(c) :
               Received(c)[i] \in TerminalNames /\ Received(c)[j] \in TerminalNames
                   => i = j
        /\ Stream!RoomForTerminal /\ conn[c] = "ended" =>
               \E i \in DOMAIN Received(c) :
                   /\ Received(c)[i] \in DOMAIN Promise!StatusOf
                   /\ Promise!StatusOf[Received(c)[i]] = status

\* Without limits a client that is told the stream of a natural end is over has
\* received every token that the contracts judged, each at its own place.
AnswerIsWhole ==
    \A c \in Clients :
        /\ MaxQueue = 0 /\ MaxHistory = 0 /\ conn[c] = "ended"
        /\ Outcome \in {"run.done", "run.contract_failed"}
        => /\ Tokens = accumulated
           /\ \A id \in 1 .. TerminalId : id \in DOMAIN seen[c] /\ seen[c][id] = id

\* run_task publishes and closes as RunStream assumes it does.
DrivesRunStream == Stream!Spec
=============================================================================
