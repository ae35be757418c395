------------------------------ MODULE EventLog ------------------------------
(***************************************************************************)
(* What AgentRun.subscribe promises a client, with no queue, no history     *)
(* and no lock: a run publishes numbered events and is closed once; a       *)
(* client reads them in order, may lose its connection and resume after the *)
(* last event it has, and is told the end only when the run is closed.      *)
(*                                                                         *)
(* Lossless is the promise of the default configuration (max_queue_size = 0 *)
(* and max_events = 0): every event in turn, and the end only after every   *)
(* event published before the close.  Without it a slow client may skip     *)
(* events but never sees one twice or out of order.                         *)
(***************************************************************************)
EXTENDS Naturals

CONSTANTS Clients,   \* the clients of one run's event stream
          Lossless   \* TRUE when neither queues nor history are bounded

VARIABLES published, \* the id of the last event published
          closed,    \* the run is done
          closedAt,  \* the id of the last event published before the close
          cursor,    \* the id of the last event each client received
          ended      \* the clients that were told the stream is over

logVars == <<published, closed, closedAt, cursor, ended>>

LogInit ==
    /\ published = 0
    /\ closed = FALSE
    /\ closedAt = 0
    /\ cursor = [c \in Clients |-> 0]
    /\ ended = {}

Emit ==
    /\ published' = published + 1
    /\ UNCHANGED <<closed, closedAt, cursor, ended>>

Close ==
    /\ ~closed
    /\ closed' = TRUE
    /\ closedAt' = published
    /\ UNCHANGED <<published, cursor, ended>>

\* The client receives an event newer than all it has: the very next one
\* when nothing may be lost.
Receive(c) ==
    /\ c \notin ended
    /\ \E id \in cursor[c] + 1 .. published :
          /\ Lossless => id = cursor[c] + 1
          /\ cursor' = [cursor EXCEPT ![c] = id]
    /\ UNCHANGED <<published, closed, closedAt, ended>>

End(c) ==
    /\ c \notin ended
    /\ closed
    /\ Lossless => cursor[c] >= closedAt
    /\ ended' = ended \cup {c}
    /\ UNCHANGED <<published, closed, closedAt, cursor>>

LogNext ==
    \/ Emit
    \/ Close
    \/ \E c \in Clients : Receive(c) \/ End(c)

LogSpec == LogInit /\ [][LogNext]_logVars
=============================================================================
