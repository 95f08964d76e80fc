----------------------------- MODULE PacketWriter -----------------------------
(***************************************************************************)
(* PacketWriter of the HTTP transports: the slot that holds the connection *)
(* packets are sent to, and the connections that have been in the slot.    *)
(* A connection is used by up to three tasks at once: the controller,      *)
(* which has fetched it for a send(), the task that shuts it down after it *)
(* left the slot, and the task that reads from it and learns of errors     *)
(* through the oneshot channel whose sender the connection holds.          *)
(*                                                                         *)
(* An element of Conns stands for a connection for as long as a task holds *)
(* a reference to it, and for another one after that.                      *)
(***************************************************************************)
EXTENDS Naturals

CONSTANTS
    Conns,  \* the connections
    None    \* no connection

ASSUME NoneAssumption == None \notin Conns

VARIABLES
    writer,        \* PacketWriter.writer: a connection or None
    error_sender,  \* PacketWriterConnectionHandle.error_sender is Some
    error,         \* an error has been sent and not received
    stream,        \* what has been written to the socket, see Streams
    handle,        \* the task that reads from the connection has not ended
    sending,       \* where the controller's send() is
    target,        \* the connection that send() has fetched from the slot
    shutting       \* where the connection's shutdown() is

writerVars == <<writer, error_sender, error, stream, handle, sending, target, shutting>>

\* "open": whole packets; "partial": and a part of one that is being written;
\* "torn": and a part of one that nobody writes the rest of; "fin": whole
\* packets, then the end of the stream; "garbled": anything else.
Streams == {"unused", "open", "partial", "torn", "fin", "garbled"}

Written(s) == IF s = "open" THEN "partial" ELSE "garbled"
Ended(s) == IF s = "open" THEN "fin" ELSE "garbled"

TypeOK ==
    /\ writer \in Conns \cup {None}
    /\ error_sender \in [Conns -> BOOLEAN]
    /\ error \in [Conns -> BOOLEAN]
    /\ stream \in [Conns -> Streams]
    /\ handle \in [Conns -> BOOLEAN]
    /\ sending \in {"idle", "locking", "writing"}
    /\ target \in Conns \cup {None}
    /\ sending = "idle" <=> target = None
    /\ shutting \in [Conns -> {"none", "locking", "payload", "fin"}]

Init ==
    /\ writer = None
    /\ error_sender = [c \in Conns |-> FALSE]
    /\ error = [c \in Conns |-> FALSE]
    /\ stream = [c \in Conns |-> "unused"]
    /\ handle = [c \in Conns |-> FALSE]
    /\ sending = "idle"
    /\ target = None
    /\ shutting = [c \in Conns |-> "none"]

connected == writer # None

\* The connection's AsyncMutex is held across every write to its socket.
Locked(c) ==
    \/ sending = "writing" /\ target = c
    \/ shutting[c] \in {"payload", "fin"}

Unreferenced(c) ==
    /\ writer # c
    /\ target # c
    /\ ~handle[c]
    /\ shutting[c] = "none"

-----------------------------------------------------------------------------
(* The slot *)

\* replace(): the connection that was in the slot is shut down by a new task.
Replace(c) ==
    /\ Unreferenced(c)
    /\ writer' = c
    /\ error_sender' = [error_sender EXCEPT ![c] = TRUE]
    /\ error' = [error EXCEPT ![c] = FALSE]
    /\ stream' = [stream EXCEPT ![c] = "open"]
    /\ handle' = [handle EXCEPT ![c] = TRUE]
    /\ shutting' = [d \in Conns |-> IF d = writer THEN "locking" ELSE shutting[d]]
    /\ UNCHANGED <<sending, target>>

\* The connection, if any, leaves the slot and is shut down or just dropped.
Take(shutdown) ==
    /\ writer' = None
    /\ shutting' = [d \in Conns |->
           IF d = writer /\ shutdown THEN "locking" ELSE shutting[d]]

\* Mistaken: whatever connection is in the slot is closed.
CloseMatching_Any(c, shutdown) ==
    /\ handle[c]
    /\ handle' = [handle EXCEPT ![c] = FALSE]
    /\ Take(shutdown)
    /\ UNCHANGED <<error_sender, error, stream, sending, target>>

\* close_matching(): a connection that has been replaced is left alone, and so
\* is the one that has replaced it.
CloseMatching(c, shutdown) ==
    /\ handle[c]
    /\ handle' = [handle EXCEPT ![c] = FALSE]
    /\ IF writer = c THEN Take(shutdown) ELSE UNCHANGED <<writer, shutting>>
    /\ UNCHANGED <<error_sender, error, stream, sending, target>>

\* close(): shuts the connection down if there is a payload to send before.
Close(shutdown_with_payload) ==
    /\ Take(shutdown_with_payload)
    /\ UNCHANGED <<error_sender, error, stream, handle, sending, target>>

\* The task that holds the handle is aborted.
DropHandle(c) ==
    /\ handle[c]
    /\ handle' = [handle EXCEPT ![c] = FALSE]
    /\ UNCHANGED <<writer, error_sender, error, stream, sending, target, shutting>>

-----------------------------------------------------------------------------
(* send() *)

SendFetches ==
    /\ sending = "idle"
    /\ writer # None
    /\ target' = writer
    /\ sending' = "locking"
    /\ UNCHANGED <<writer, error_sender, error, stream, handle, shutting>>

\* Mistaken: whether the connection has been closed meanwhile is not checked.
SendLocks_Unchecked ==
    /\ sending = "locking"
    /\ ~Locked(target)
    /\ sending' = "writing"
    /\ stream' = [stream EXCEPT ![target] = Written(@)]
    /\ UNCHANGED <<writer, error_sender, error, handle, target, shutting>>

SendLocks ==
    /\ sending = "locking"
    /\ ~Locked(target)
    /\ error_sender[target]
    /\ sending' = "writing"
    /\ stream' = [stream EXCEPT ![target] = Written(@)]
    /\ UNCHANGED <<writer, error_sender, error, handle, target, shutting>>

\* The connection has been closed while send() was waiting for the lock.
SendRefused ==
    /\ sending = "locking"
    /\ ~Locked(target)
    /\ ~error_sender[target]
    /\ sending' = "idle"
    /\ target' = None
    /\ UNCHANGED <<writer, error_sender, error, stream, handle, shutting>>

SendSucceeds ==
    /\ sending = "writing"
    /\ stream' = [stream EXCEPT ![target] = "open"]
    /\ sending' = "idle"
    /\ target' = None
    /\ UNCHANGED <<writer, error_sender, error, handle, shutting>>

\* Mistaken: the reader is not told.
SendFails_Silently ==
    /\ sending = "writing"
    /\ stream' = [stream EXCEPT ![target] = "torn"]
    /\ error_sender' = [error_sender EXCEPT ![target] = FALSE]
    /\ sending' = "idle"
    /\ target' = None
    /\ UNCHANGED <<writer, error, handle, shutting>>

\* write_all() fails: the reader is told, if it still listens, and nothing is
\* written after the torn packet.
SendFails ==
    /\ sending = "writing"
    /\ stream' = [stream EXCEPT ![target] = "torn"]
    /\ error_sender' = [error_sender EXCEPT ![target] = FALSE]
    /\ error' = [error EXCEPT ![target] = handle[target]]
    /\ sending' = "idle"
    /\ target' = None
    /\ UNCHANGED <<writer, handle, shutting>>

SendEnds == SendRefused \/ SendSucceeds \/ SendFails

-----------------------------------------------------------------------------
(* shutdown() *)

\* Nothing to do: the sender has been taken by an earlier failure.
ShutdownSkipped(c) ==
    /\ shutting[c] = "locking"
    /\ ~Locked(c)
    /\ ~error_sender[c]
    /\ shutting' = [shutting EXCEPT ![c] = "none"]
    /\ UNCHANGED <<writer, error_sender, error, stream, handle, sending, target>>

ShutdownLocks(c, payload) ==
    /\ shutting[c] = "locking"
    /\ ~Locked(c)
    /\ error_sender[c]
    /\ error_sender' = [error_sender EXCEPT ![c] = FALSE]
    /\ shutting' = [shutting EXCEPT ![c] = IF payload THEN "payload" ELSE "fin"]
    /\ stream' = [stream EXCEPT ![c] = IF payload THEN Written(@) ELSE @]
    /\ UNCHANGED <<writer, error, handle, sending, target>>

PayloadWritten(c) ==
    /\ shutting[c] = "payload"
    /\ stream' = [stream EXCEPT ![c] = "open"]
    /\ shutting' = [shutting EXCEPT ![c] = "fin"]
    /\ UNCHANGED <<writer, error_sender, error, handle, sending, target>>

ShutdownSucceeds(c) ==
    /\ shutting[c] = "fin"
    /\ stream' = [stream EXCEPT ![c] = Ended(@)]
    /\ shutting' = [shutting EXCEPT ![c] = "none"]
    /\ UNCHANGED <<writer, error_sender, error, handle, sending, target>>

\* Writing the payload or shutting the socket down fails.
ShutdownFails(c) ==
    /\ shutting[c] \in {"payload", "fin"}
    /\ stream' = [stream EXCEPT ![c] = "torn"]
    /\ error' = [error EXCEPT ![c] = handle[c]]
    /\ shutting' = [shutting EXCEPT ![c] = "none"]
    /\ UNCHANGED <<writer, error_sender, handle, sending, target>>

\* The task that awaits the shutdown it has asked for by close_matching() is
\* aborted, and the lock it may hold is released.
AbortShutdown(c) ==
    /\ shutting[c] # "none"
    /\ ~handle[c]
    /\ stream' = [stream EXCEPT ![c] = IF shutting[c] = "locking" THEN @ ELSE "torn"]
    /\ shutting' = [shutting EXCEPT ![c] = "none"]
    /\ UNCHANGED <<writer, error_sender, error, handle, sending, target>>

ShutdownEnds(c) == ShutdownSkipped(c) \/ ShutdownSucceeds(c) \/ ShutdownFails(c)

-----------------------------------------------------------------------------

Next ==
    \/ \E c \in Conns :
           \/ Replace(c) \/ DropHandle(c)
           \/ \E shutdown \in BOOLEAN : CloseMatching(c, shutdown)
           \/ \E payload \in BOOLEAN : ShutdownLocks(c, payload)
           \/ PayloadWritten(c) \/ ShutdownEnds(c) \/ AbortShutdown(c)
    \/ \E payload \in BOOLEAN : Close(payload)
    \/ SendFetches \/ SendLocks \/ SendEnds

Spec == Init /\ [][Next]_writerVars

-----------------------------------------------------------------------------
(* Properties *)

\* The peer can parse what it gets: after a part of a packet comes its rest,
\* or nothing; after the end of the stream comes nothing.  Sends, shutdowns
\* that wait for a send, replacements and aborts race for one socket.
StreamsIntact == \A c \in Conns : stream[c] # "garbled"

\* A connection that cannot be written to any more is not kept by a reader
\* that does not know: the error waits for the task that is still reading.
TornIsReported == \A c \in Conns : stream[c] = "torn" /\ handle[c] => error[c]

\* A connection in the slot is not being shut down and has not been: what
\* send() fetches from the slot could be written to at that moment, unless a
\* write has failed.
SlotNotShutDown ==
    writer # None => shutting[writer] = "none" /\ stream[writer] \in {"open", "partial", "torn"}

-----------------------------------------------------------------------------
(* The inductive invariant *)

\* Whoever may write finds whole packets in the stream: the error sender is
\* there exactly as long as nothing has gone wrong and no shutdown has begun,
\* and only the holder of the lock has a packet under way.
WriterInv ==
    \A c \in Conns :
        /\ error_sender[c] => stream[c] = IF sending = "writing" /\ target = c
                                          THEN "partial" ELSE "open"
        /\ sending = "writing" /\ target = c => error_sender[c]
        /\ shutting[c] = "payload" => ~error_sender[c] /\ stream[c] = "partial"
        /\ shutting[c] = "fin" => ~error_sender[c] /\ stream[c] = "open"
        /\ writer = c => shutting[c] = "none" /\ (error_sender[c] \/ stream[c] = "torn")
        /\ stream[c] # "garbled"
        /\ stream[c] = "torn" /\ handle[c] => error[c]
=============================================================================
