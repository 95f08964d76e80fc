------------------------------ MODULE HttpClient ------------------------------
(***************************************************************************)
(* A connection of the HTTP client transport (client/connection.rs): the   *)
(* handler that connects, hands the connection to the PacketWriter, waits  *)
(* until it ends or its TTL expires, and connects again, and the tasks     *)
(* that read from the connections.  A connection whose TTL has expired is  *)
(* replaced before it is closed.  Every step is a step of PacketWriter or  *)
(* leaves its variables alone.                                             *)
(***************************************************************************)
EXTENDS PacketWriter

CONSTANT HasTtl  \* is connection_max_ttl configured?

ASSUME HasTtlAssumption == HasTtl \in BOOLEAN

VARIABLES
    handler,   \* where handle() is
    current,   \* the connection of connection_task, or None
    previous,  \* the connection of previous_connection, or None
    draining,  \* the connection of previous_connection_shutdown, or None
    expired,   \* has the TTL of the current connection expired?
    closing,   \* the connection's task awaits the shutdown in close_matching()
    busy       \* there is data to read from the connection

handlerVars == <<handler, current, previous, draining, expired>>
taskVars == <<closing, busy>>
clientVars == <<writerVars, handlerVars, taskVars>>

\* The task of process_connection() and close_matching() has not ended.
Live(c) == handle[c] \/ closing[c]

ClientTypeOK ==
    /\ TypeOK
    /\ handler \in {"connecting", "draining", "waiting", "closing_previous", "sleeping"}
    /\ current \in Conns \cup {None}
    /\ previous \in Conns \cup {None}
    /\ draining \in Conns \cup {None}
    /\ expired \in BOOLEAN
    /\ closing \in [Conns -> BOOLEAN]
    /\ busy \in [Conns -> BOOLEAN]
    /\ handler \in {"connecting", "sleeping"} <=> current = None

ClientInit ==
    /\ Init
    /\ handler = "connecting"
    /\ current = None
    /\ previous = None
    /\ draining = None
    /\ expired = FALSE
    /\ closing = [c \in Conns |-> FALSE]
    /\ busy = [c \in Conns |-> FALSE]

-----------------------------------------------------------------------------
(* handle() *)

\* Mistaken: there is no new connection before the previous one has gone.
Connected_Alone(c) ==
    /\ handler = "connecting"
    /\ previous = None
    /\ ~closing[c]
    /\ Replace(c)
    /\ current' = c
    /\ draining' = writer
    /\ handler' = IF writer = None THEN "waiting" ELSE "draining"
    /\ busy' = [busy EXCEPT ![c] = FALSE]
    /\ UNCHANGED <<previous, expired, closing>>

\* process_connect() succeeds: the connection goes to the slot, its task is
\* spawned, and the shutdown of the connection it replaced is awaited.
Connected(c) ==
    /\ handler = "connecting"
    /\ c # previous
    /\ ~closing[c]
    /\ Replace(c)
    /\ current' = c
    /\ draining' = writer
    /\ handler' = IF writer = None THEN "waiting" ELSE "draining"
    /\ busy' = [busy EXCEPT ![c] = FALSE]
    /\ UNCHANGED <<previous, expired, closing>>

\* Any step of process_connect() fails, or CONNECTION_TIMEOUT passes.
ConnectFails ==
    /\ handler = "connecting"
    /\ handler' = "sleeping"
    /\ UNCHANGED <<writerVars, current, previous, draining, expired, taskVars>>

PreviousShutDown ==
    /\ handler = "draining"
    /\ shutting[draining] = "none"
    /\ handler' = "waiting"
    /\ draining' = None
    /\ UNCHANGED <<writerVars, current, previous, expired, taskVars>>

\* timeout() polls the task before its timer.
TtlExpires ==
    /\ HasTtl
    /\ handler = "waiting"
    /\ Live(current)
    /\ expired' = TRUE
    /\ handler' = "closing_previous"
    /\ UNCHANGED <<writerVars, current, previous, draining, taskVars>>

ConnectionEnded ==
    /\ handler = "waiting"
    /\ ~Live(current)
    /\ expired' = FALSE
    /\ handler' = "closing_previous"
    /\ UNCHANGED <<writerVars, current, previous, draining, taskVars>>

\* The task that reads from c, or awaits c's shutdown, is aborted if it still
\* runs: see close_previous_connection().
Abort(c) ==
    \/ handle[c] /\ DropHandle(c) /\ UNCHANGED closing
    \/ /\ closing[c]
       /\ AbortShutdown(c)
       /\ closing' = [closing EXCEPT ![c] = FALSE]
    \* The shutdown is over, but the task has not ended yet.
    \/ /\ closing[c]
       /\ shutting[c] = "none"
       /\ closing' = [closing EXCEPT ![c] = FALSE]
       /\ UNCHANGED writerVars
    \/ ~Live(c) /\ UNCHANGED <<writerVars, closing>>

\* The previous connection is closed, and the current one takes its place if
\* it is still alive.
ClosePrevious ==
    /\ handler = "closing_previous"
    /\ IF previous = None THEN UNCHANGED <<writerVars, closing>> ELSE Abort(previous)
    /\ previous' = IF expired THEN current ELSE None
    /\ current' = None
    /\ handler' = "sleeping"
    /\ UNCHANGED <<draining, expired, busy>>

Wake ==
    /\ handler = "sleeping"
    /\ handler' = "connecting"
    /\ UNCHANGED <<writerVars, current, previous, draining, expired, taskVars>>

-----------------------------------------------------------------------------
(* process_connection() and close_matching(), in a connection's task *)

\* Packets of the server arrive.
DataArrives(c) ==
    /\ handle[c]
    /\ ~busy[c]
    /\ busy' = [busy EXCEPT ![c] = TRUE]
    /\ UNCHANGED <<writerVars, handlerVars, closing>>

ReadPacket(c) ==
    /\ handle[c]
    /\ busy[c]
    /\ busy' = [busy EXCEPT ![c] = FALSE]
    /\ UNCHANGED <<writerVars, handlerVars, closing>>

\* The stream ends where a packet could begin: the connection is shut down.
ReadEof(c) ==
    /\ handle[c]
    /\ CloseMatching(c, TRUE)
    /\ closing' = [closing EXCEPT ![c] = writer = c]
    /\ UNCHANGED <<handlerVars, busy>>

\* The connection breaks, or what arrives is not a packet.
ReadFails(c) ==
    /\ handle[c]
    /\ CloseMatching(c, FALSE)
    /\ UNCHANGED <<handlerVars, taskVars>>

\* A write has failed.  The select! is biased: what can be read comes first.
ReceiveError(c) ==
    /\ handle[c]
    /\ error[c]
    /\ ~busy[c]
    /\ CloseMatching(c, FALSE)
    /\ UNCHANGED <<handlerVars, taskVars>>

TaskEnds(c) ==
    /\ closing[c]
    /\ shutting[c] = "none"
    /\ closing' = [closing EXCEPT ![c] = FALSE]
    /\ UNCHANGED <<writerVars, handlerVars, busy>>

\* The controller's send(), and the tasks that shut connections down.
SendStep ==
    /\ SendFetches \/ SendLocks \/ SendEnds
    /\ UNCHANGED <<handlerVars, taskVars>>

ShutdownStep(c) ==
    /\ ShutdownLocks(c, FALSE) \/ ShutdownEnds(c)
    /\ UNCHANGED <<handlerVars, taskVars>>

-----------------------------------------------------------------------------

HandlerStep ==
    \/ \E c \in Conns : Connected(c)
    \/ ConnectFails \/ PreviousShutDown
    \/ TtlExpires \/ ConnectionEnded \/ ClosePrevious \/ Wake

TaskStep(c) ==
    \/ DataArrives(c) \/ ReadPacket(c) \/ ReadEof(c) \/ ReadFails(c) \/ ReceiveError(c)
    \/ TaskEnds(c)

ClientNext ==
    \/ HandlerStep
    \/ \E c \in Conns : TaskStep(c) \/ ShutdownStep(c)
    \/ SendStep

ClientSpec == ClientInit /\ [][ClientNext]_clientVars

-----------------------------------------------------------------------------
(* Properties *)

\* The slot and the tasks agree: a connection in the slot has a task that
\* reads from it and will clear the slot when it ends, and as long as the
\* newest connection has its task, it is the one in the slot.  The late end
\* of an old connection does not take the new one out.
SlotAgreesWithTasks ==
    /\ writer # None => handle[writer]
    /\ current # None /\ handle[current] => writer = current
    /\ current = None /\ previous # None /\ handle[previous] => writer = previous

\* The handler does not leak connections: only the newest one and the one it
\* has replaced have a task, whatever order they end in.
OnlyTwoLive == \A c \in Conns : Live(c) => c \in {current, previous}

\* The handler has something to do, apart from waiting for the TTL to expire.
HandlerGoesOn == HandlerStep /\ (handler = "waiting" => ~Live(current))

\* The scheduler runs every task that can go on.  A write ends because of
\* TCP_USER_TIMEOUT, an attempt to connect because of CONNECTION_TIMEOUT, and
\* one of infinitely many attempts succeeds.  The reader of a connection now
\* and then finds nothing to read.  A TTL may be so long that it never expires.
Fairness ==
    /\ SF_clientVars(\E c \in Conns : Connected(c))
    /\ WF_clientVars(HandlerGoesOn)
    /\ WF_clientVars(SendStep /\ sending # "idle")
    /\ \A c \in Conns :
           /\ WF_clientVars(ShutdownStep(c))
           /\ WF_clientVars(ReadPacket(c))
           /\ SF_clientVars(ReceiveError(c))
           /\ WF_clientVars(TaskEnds(c))

FairClientSpec == ClientSpec /\ Fairness

\* The client connects again and again: whatever happens to connections, and
\* to the sends and the shutdowns that hold them, the handler does not wait
\* for ever for a task, a shutdown or a lock that waits for something else.
Reconnects == ~connected ~> connected

\* A connection that cannot be written to leaves the slot, through the reader
\* that is told or by being replaced, so that it is not reported as connected
\* and selected for ever.
BrokenConnectionLeaves ==
    \A c \in Conns : (writer = c /\ ~error_sender[c]) ~> ~(writer = c /\ ~error_sender[c])

-----------------------------------------------------------------------------
(* The inductive invariant *)

\* When a connection is current the previous one has left the slot, so that
\* its task can be aborted without leaving the slot to nobody.
ClientInv ==
    /\ SlotAgreesWithTasks
    /\ OnlyTwoLive
    /\ current # None => current # previous /\ writer \in {current, None}
    /\ \A c \in Conns : ~(handle[c] /\ closing[c])
    /\ handler = "closing_previous" /\ ~expired => ~Live(current)
=============================================================================
