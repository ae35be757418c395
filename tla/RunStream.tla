----------------------------- MODULE RunStream ------------------------------
(***************************************************************************)
(* The event stream of one AgentRun (src/codagent/server/runs.py): publish  *)
(* appends to the history and broadcasts to one queue per subscriber,       *)
(* subscribe replays the backlog and then follows the queue, mark_done      *)
(* closes every queue with a sentinel.  Queues and history may be bounded;  *)
(* both drop their oldest entry when full.                                  *)
(*                                                                         *)
(* publish, the registration part of subscribe, and mark_done run under one *)
(* asyncio lock and await nothing while they hold it, so each is one step.  *)
(* A client reads at its own pace, its connection may break at any moment,  *)
(* and it reconnects with the id of the last event it received              *)
(* (Last-Event-Id, app.py:166-169).                                         *)
(***************************************************************************)
EXTENDS Naturals, Sequences, FiniteSets

CONSTANTS Clients,     \* the clients that watch this run
          MaxQueue,    \* max_queue_size, 0 = unbounded
          MaxHistory,  \* max_events, 0 = unbounded
          MaxId,       \* bound on the ids published before the terminal event
          Late         \* bound on the events that middleware publishes after
                       \* the terminal one

ASSUME BoundsAreNat ==
    /\ MaxQueue \in Nat
    /\ MaxHistory \in Nat
    /\ MaxId \in Nat
    /\ Late \in Nat

ASSUME ClientsAreFinite == IsFiniteSet(Clients)

VARIABLES nextId,      \* _next_id
          events,      \* _events, by their ids, oldest first
          terminal,    \* the id of the terminal event, 0 before it
          done,        \* _done.is_set()
          doneAt,      \* _next_id when mark_done ran (history variable)
          registered,  \* the clients whose queue is in _subscribers
          dropped,     \* _dropped_events
          queue,       \* each open subscriber's queue
          conn,        \* "off", "open", or "ended" once subscribe returned
          seen         \* the ids each client received, over all connections

producerVars == <<nextId, events, terminal, done, doneAt, dropped>>
clientVars == <<conn, seen>>
vars == <<producerVars, registered, queue, clientVars>>

Sentinel == 0   \* _SENTINEL: never an event id, ids start at 1

----------------------------------------------------------------------------
(* Queues and history.                                                      *)

Full(q) == MaxQueue # 0 /\ Len(q) >= MaxQueue

\* Mutant of Offer: a full queue loses the new entry instead of the oldest.
OfferDropsNewest(q, x) == IF Full(q) THEN q ELSE Append(q, x)

\* put_nowait, and on QueueFull get_nowait followed by put_nowait.
Offer(q, x) == IF Full(q) THEN Append(Tail(q), x) ELSE Append(q, x)

\* Mutant of Retain: the history is cleared instead of losing its oldest.
RetainNone(h, id) == IF MaxHistory # 0 /\ Len(h) >= MaxHistory
                     THEN <<>> ELSE Append(h, id)

\* The history after one more event.
Retain(h, id) == IF MaxHistory # 0 /\ Len(h) + 1 > MaxHistory
                 THEN Tail(Append(h, id)) ELSE Append(h, id)

\* Ids grow along the history, so those newer than lastId are a suffix.
FirstAfter(h, lastId) ==
    CHOOSE k \in 1 .. Len(h) + 1 :
        /\ \A i \in 1 .. k - 1 : h[i] <= lastId
        /\ \A i \in k .. Len(h) : h[i] > lastId

\* Offering the entries of s one by one to an empty queue keeps the newest.
Newest(s) == IF MaxQueue # 0 /\ Len(s) > MaxQueue
             THEN SubSeq(s, Len(s) - MaxQueue + 1, Len(s)) ELSE s

\* Mutant of Backlog: Last-Event-Id is ignored.
BacklogFromStart(h, lastId) == Newest(h)

\* Mutant of Backlog: nothing is replayed.
NoBacklog(h, lastId) == Newest(SubSeq(h, Len(h) + 1, Len(h)))

\* The retained events a client has not received, in a queue of MaxQueue.
Backlog(h, lastId) == Newest(SubSeq(h, FirstAfter(h, lastId), Len(h)))

\* The same as the loop that subscribe runs: each retained event newer than
\* lastId is offered to the new queue, oldest first; queued[i] is that queue
\* after the first i retained events.
BacklogLoop(h, lastId) ==
    LET queued[i \in 0 .. Len(h)] ==
            IF i = 0 THEN <<>>
            ELSE IF h[i] > lastId THEN Offer(queued[i - 1], h[i])
            ELSE queued[i - 1]
    IN  queued[Len(h)]

LastSeen(c) == IF seen[c] = <<>> THEN 0 ELSE seen[c][Len(seen[c])]

----------------------------------------------------------------------------

Init ==
    /\ nextId = 0
    /\ events = <<>>
    /\ terminal = 0
    /\ done = FALSE
    /\ doneAt = 0
    /\ registered = {}
    /\ dropped = 0
    /\ queue = [c \in Clients |-> <<>>]
    /\ conn = [c \in Clients |-> "off"]
    /\ seen = [c \in Clients |-> <<>>]

\* The locked part of publish: one id, into history and every queue.
Record ==
    /\ nextId' = nextId + 1
    /\ events' = Retain(events, nextId + 1)
    /\ queue' = [c \in Clients |-> IF c \in registered
                                   THEN Offer(queue[c], nextId + 1)
                                   ELSE queue[c]]
    /\ dropped' = dropped + Cardinality({c \in registered : Full(queue[c])})
    /\ UNCHANGED <<done, doneAt, registered, clientVars>>

Publish ==
    /\ terminal = 0
    /\ nextId < MaxId
    /\ Record
    /\ UNCHANGED terminal

PublishTerminal ==
    /\ terminal = 0
    /\ Record
    /\ terminal' = nextId'

\* A middleware hook re-enters publish on the terminal event, or publishes
\* from after_run.
PublishLate ==
    /\ terminal # 0
    /\ nextId < terminal + Late
    /\ Record
    /\ UNCHANGED terminal

\* Mutant of MarkDone: a full queue gets no sentinel.
MarkDoneIfRoom ==
    /\ terminal # 0
    /\ ~done
    /\ done' = TRUE
    /\ doneAt' = nextId
    /\ queue' = [c \in Clients |-> IF c \in registered /\ ~Full(queue[c])
                                   THEN Append(queue[c], Sentinel)
                                   ELSE queue[c]]
    /\ registered' = {}
    /\ UNCHANGED <<nextId, events, terminal, dropped, clientVars>>

MarkDone ==
    /\ terminal # 0
    /\ ~done
    /\ done' = TRUE
    /\ doneAt' = nextId
    /\ queue' = [c \in Clients |-> IF c \in registered
                                   THEN Offer(queue[c], Sentinel)
                                   ELSE queue[c]]
    /\ registered' = {}
    /\ UNCHANGED <<nextId, events, terminal, dropped, clientVars>>

\* The locked part of subscribe(last_event_id = LastSeen(c)).
Attach(c) ==
    /\ conn[c] = "off"
    /\ conn' = [conn EXCEPT ![c] = "open"]
    /\ LET backlog == Backlog(events, LastSeen(c))
       IN queue' = [queue EXCEPT ![c] = IF done THEN Offer(backlog, Sentinel)
                                                ELSE backlog]
    /\ registered' = IF done THEN registered ELSE registered \cup {c}
    /\ UNCHANGED <<producerVars, seen>>

\* The generator yields the next event and the client receives it.
Deliver(c) ==
    /\ conn[c] = "open"
    /\ queue[c] # <<>>
    /\ Head(queue[c]) # Sentinel
    /\ seen' = [seen EXCEPT ![c] = Append(@, Head(queue[c]))]
    /\ queue' = [queue EXCEPT ![c] = Tail(@)]
    /\ UNCHANGED <<producerVars, registered, conn>>

\* The generator meets the sentinel and returns.
Finish(c) ==
    /\ conn[c] = "open"
    /\ queue[c] # <<>>
    /\ Head(queue[c]) = Sentinel
    /\ conn' = [conn EXCEPT ![c] = "ended"]
    /\ queue' = [queue EXCEPT ![c] = <<>>]
    /\ registered' = registered \ {c}
    /\ UNCHANGED <<producerVars, seen>>

\* The connection breaks and the generator is closed: whatever was queued, or
\* yielded and not yet received, is gone with it.
Disconnect(c) ==
    /\ conn[c] = "open"
    /\ conn' = [conn EXCEPT ![c] = "off"]
    /\ queue' = [queue EXCEPT ![c] = <<>>]
    /\ registered' = registered \ {c}
    /\ UNCHANGED <<producerVars, seen>>

Produce == Publish \/ PublishTerminal \/ PublishLate \/ MarkDone

Next ==
    \/ Produce
    \/ \E c \in Clients :
          Attach(c) \/ Deliver(c) \/ Finish(c) \/ Disconnect(c)

Spec == Init /\ [][Next]_vars

\* The event loop keeps running the run's task, which ends (RunTask), and a
\* connected client keeps reading.  Nobody has to attach, and no connection
\* has to break.
FairSpec ==
    /\ Spec
    /\ WF_vars(PublishTerminal)
    /\ WF_vars(MarkDone)
    /\ \A c \in Clients : WF_vars(Deliver(c) \/ Finish(c))
----------------------------------------------------------------------------
(* Properties.                                                              *)

\* The variables hold what the code's fields can hold; a bounded queue and a
\* bounded history never outgrow their limit.
TypeOK ==
    /\ nextId \in Nat
    /\ events \in Seq(Nat)
    /\ MaxHistory # 0 => Len(events) <= MaxHistory
    /\ terminal \in 0 .. nextId
    /\ done \in BOOLEAN
    /\ doneAt \in 0 .. nextId
    /\ registered \subseteq Clients
    /\ dropped \in Nat
    /\ queue \in [Clients -> Seq(Nat)]
    /\ MaxQueue # 0 => \A c \in Clients : Len(queue[c]) <= MaxQueue
    /\ conn \in [Clients -> {"off", "open", "ended"}]
    /\ seen \in [Clients -> Seq(Nat)]

\* The ids in a queue, without the sentinel, follow one another.
Consecutive(q) ==
    \A i \in 1 .. Len(q) - 1 : q[i + 1] # Sentinel => q[i + 1] = q[i] + 1

\* A client never receives an event twice nor after a newer one, over all its
\* connections: replay after Last-Event-Id and the live queue leave no overlap.
SeenInOrder ==
    \A c \in Clients :
        \A i, j \in 1 .. Len(seen[c]) : i < j => seen[c][i] < seen[c][j]

\* "Slow subscribers may miss intermediate events" (runs.py:118-121) but only
\* behind what is queued: the queue of a registered subscriber is a run of
\* consecutive ids that ends with the last event published, and a subscriber
\* with an empty queue has received that event.
LagsOnlyBehind ==
    \A c \in registered :
        /\ Consecutive(queue[c])
        /\ IF queue[c] = <<>> THEN LastSeen(c) = nextId
                              ELSE queue[c][Len(queue[c])] = nextId

\* Room for the terminal event, what middleware publishes after it and, in a
\* queue, the sentinel.
RoomForTerminal ==
    /\ MaxQueue = 0 \/ MaxQueue >= Late + 2
    /\ MaxHistory = 0 \/ MaxHistory >= Late + 1

\* A client that is told the stream is over has received the terminal event,
\* whenever it attached, however slowly it read and however often it
\* reconnected, provided the limits leave room for it.
EndSeesTerminal ==
    RoomForTerminal =>
        \A c \in Clients :
            conn[c] = "ended" =>
                \E i \in 1 .. Len(seen[c]) : seen[c][i] = terminal

\* What subscribe queues is what the closed form Backlog says, for every
\* Last-Event-Id a client can send, one the run has not reached included.
BacklogIsTheLoop ==
    \A lastId \in 0 .. nextId + 1 :
        Backlog(events, lastId) = BacklogLoop(events, lastId)

\* Once the run is over, every open stream ends: the sentinel is never evicted
\* and never missing, whether the client attached before or after mark_done.
EveryStreamEnds ==
    \A c \in Clients : conn[c] = "open" ~> conn[c] # "open"

----------------------------------------------------------------------------
(* The inductive invariant: what is in a queue, in the history and in a       *)
(* client's hands.                                                          *)

Unbounded == MaxQueue = 0 /\ MaxHistory = 0

\* q holds the ids low + 1 .. top, in order.
IsRun(q, low, top) ==
    /\ q \in Seq(Nat)
    /\ Len(q) = top - low
    /\ \A i \in 1 .. Len(q) : q[i] = low + i

\* q holds the ids low + 1 .. top, then the sentinel.
IsClosedRun(q, low, top) ==
    /\ q \in Seq(Nat)
    /\ Len(q) = top - low + 1
    /\ \A i \in 1 .. Len(q) - 1 : q[i] = low + i
    /\ q[Len(q)] = Sentinel

SawTerminal(c) == \E i \in 1 .. Len(seen[c]) : seen[c][i] = terminal

\* The terminal event is newer than low, or the client has it.
TerminalAhead(c, low) ==
    (RoomForTerminal /\ terminal # 0) => low < terminal \/ SawTerminal(c)

PhaseInv ==
    /\ terminal # 0 => nextId <= terminal + Late
    /\ done => registered = {} /\ terminal # 0 /\ terminal <= doneAt
    /\ \A c \in Clients :
          /\ conn[c] = "open" => (c \in registered <=> ~done)
          /\ c \in registered => conn[c] = "open"
          /\ conn[c] = "ended" => done

\* The history ends with the last id; it is empty only before the first, and
\* shorter than the whole run only when it is full.
HistoryInv ==
    \E low \in 0 .. nextId :
        /\ IsRun(events, low, nextId)
        /\ low = nextId => nextId = 0
        /\ low # 0 => MaxHistory # 0 /\ Len(events) = MaxHistory

\* A registered subscriber's queue continues what the client has.
LiveInv(c) ==
    \E low \in LastSeen(c) .. nextId :
        /\ IsRun(queue[c], low, nextId)
        /\ Unbounded => low = LastSeen(c)
        /\ low = nextId => LastSeen(c) = nextId
        /\ TerminalAhead(c, low)

\* So does the queue of a subscriber still reading a closed stream.
ClosedInv(c) ==
    \E top \in doneAt .. nextId : \E low \in LastSeen(c) .. top :
        /\ IsClosedRun(queue[c], low, top)
        /\ Unbounded => low = LastSeen(c)
        /\ TerminalAhead(c, low)

SeenInv(c) ==
    /\ \A i \in 1 .. Len(seen[c]) : seen[c][i] \in 1 .. nextId
    /\ \A i, j \in 1 .. Len(seen[c]) : i < j => seen[c][i] < seen[c][j]
    /\ TerminalAhead(c, LastSeen(c))

EndInv(c) ==
    conn[c] = "ended" =>
        /\ RoomForTerminal => SawTerminal(c)
        /\ Unbounded => LastSeen(c) >= doneAt

ClientInv(c) ==
    /\ c \in registered => LiveInv(c)
    /\ conn[c] = "open" /\ done => ClosedInv(c)
    /\ SeenInv(c)
    /\ EndInv(c)

\* Everything above: what makes SeenInOrder, LagsOnlyBehind, EndSeesTerminal
\* and the refinement of EventLog hold step by step.
StreamInv ==
    /\ TypeOK
    /\ PhaseInv
    /\ HistoryInv
    /\ \A c \in Clients : ClientInv(c)

----------------------------------------------------------------------------
(* The promise made to a client.                                            *)

Log == INSTANCE EventLog WITH
    Lossless <- MaxQueue = 0 /\ MaxHistory = 0,
    published <- nextId,
    closed <- done,
    closedAt <- doneAt,
    cursor <- [c \in Clients |-> LastSeen(c)],
    ended <- {c \in Clients : conn[c] = "ended"}

\* The queues, history and sentinel implement the promise made to a client.
ImplementsEventLog == Log!LogSpec
=============================================================================
