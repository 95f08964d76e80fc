--------------------------- MODULE HttpClientProofs ---------------------------
(* Theorems about PacketWriter, for any user of it, and about HttpClient. *)
EXTENDS HttpClient, TLAPS

USE NoneAssumption

-----------------------------------------------------------------------------
(* PacketWriter: type correctness *)

LEMMA WriterTypeNext == TypeOK /\ [Next]_writerVars => TypeOK'
<1> SUFFICES ASSUME TypeOK, [Next]_writerVars PROVE TypeOK'
  OBVIOUS
<1> USE DEF TypeOK
<1>a. \A s \in Streams : Written(s) \in Streams /\ Ended(s) \in Streams
  BY DEF Streams, Written, Ended
<1>1. ASSUME NEW c \in Conns, Replace(c) PROVE TypeOK'
  <2>1. stream' \in [Conns -> Streams]
    BY <1>1 DEF Replace, Streams
  <2>2. QED
    BY <1>1, <2>1 DEF Replace
<1>2. ASSUME NEW c \in Conns, NEW shutdown \in BOOLEAN, CloseMatching(c, shutdown)
      PROVE  TypeOK'
  BY <1>2 DEF CloseMatching, Take
<1>3. ASSUME NEW payload \in BOOLEAN, Close(payload) PROVE TypeOK'
  BY <1>3 DEF Close, Take
<1>4. ASSUME NEW c \in Conns, DropHandle(c) PROVE TypeOK'
  BY <1>4 DEF DropHandle
<1>5. CASE SendFetches
  BY <1>5 DEF SendFetches
<1>6. CASE SendLocks
  BY <1>6, <1>a DEF SendLocks
<1>7. CASE SendEnds
  <2>1. stream' \in [Conns -> Streams] /\ target' = None /\ sending' = "idle"
    BY <1>7 DEF SendEnds, SendRefused, SendSucceeds, SendFails, Streams
  <2>2. error' \in [Conns -> BOOLEAN] /\ error_sender' \in [Conns -> BOOLEAN]
    BY <1>7 DEF SendEnds, SendRefused, SendSucceeds, SendFails
  <2>3. QED
    BY <1>7, <2>1, <2>2 DEF SendEnds, SendRefused, SendSucceeds, SendFails
<1>8. ASSUME NEW c \in Conns, NEW payload \in BOOLEAN, ShutdownLocks(c, payload)
      PROVE  TypeOK'
  BY <1>8, <1>a DEF ShutdownLocks
<1>9. ASSUME NEW c \in Conns, PayloadWritten(c) \/ ShutdownEnds(c) \/ AbortShutdown(c)
      PROVE  TypeOK'
  <2>1. stream' \in [Conns -> Streams]
    BY <1>9, <1>a DEF PayloadWritten, ShutdownEnds, ShutdownSkipped, ShutdownSucceeds,
                      ShutdownFails, AbortShutdown, Streams
  <2>2. error' \in [Conns -> BOOLEAN]
    BY <1>9 DEF PayloadWritten, ShutdownEnds, ShutdownSkipped, ShutdownSucceeds,
                ShutdownFails, AbortShutdown
  <2>3. shutting' \in [Conns -> {"none", "locking", "payload", "fin"}]
    BY <1>9 DEF PayloadWritten, ShutdownEnds, ShutdownSkipped, ShutdownSucceeds,
                ShutdownFails, AbortShutdown
  <2>4. UNCHANGED <<writer, error_sender, handle, sending, target>>
    BY <1>9 DEF PayloadWritten, ShutdownEnds, ShutdownSkipped, ShutdownSucceeds,
                ShutdownFails, AbortShutdown
  <2>5. QED
    BY <2>1, <2>2, <2>3, <2>4
<1>10. CASE UNCHANGED writerVars
  BY <1>10 DEF writerVars
<1>11. QED
  BY <1>1, <1>2, <1>3, <1>4, <1>5, <1>6, <1>7, <1>8, <1>9, <1>10 DEF Next

\* The variables of PacketWriter keep their types, and send() has fetched a
\* connection exactly when it is under way.
THEOREM WriterTypeCorrect == Spec => []TypeOK
<1>1. Init => TypeOK
  BY DEF Init, TypeOK, Streams
<1>2. QED
  BY <1>1, WriterTypeNext, PTL DEF Spec

-----------------------------------------------------------------------------
(* PacketWriter: who may write to a stream *)

LEMMA WriterInvNext == TypeOK /\ WriterInv /\ [Next]_writerVars => WriterInv'
<1> SUFFICES ASSUME TypeOK, WriterInv, [Next]_writerVars PROVE WriterInv'
  OBVIOUS
<1>t. /\ writer \in Conns \cup {None} /\ target \in Conns \cup {None}
      /\ error_sender \in [Conns -> BOOLEAN] /\ error \in [Conns -> BOOLEAN]
      /\ stream \in [Conns -> Streams] /\ handle \in [Conns -> BOOLEAN]
      /\ shutting \in [Conns -> {"none", "locking", "payload", "fin"}]
      /\ sending \in {"idle", "locking", "writing"}
      /\ sending = "idle" <=> target = None
  BY DEF TypeOK
<1> USE DEF WriterInv
<1>1. ASSUME NEW c \in Conns, Replace(c) PROVE WriterInv'
  BY <1>1, <1>t DEF Replace, Unreferenced
<1>2. ASSUME NEW c \in Conns, NEW shutdown \in BOOLEAN, CloseMatching(c, shutdown)
      PROVE  WriterInv'
  BY <1>2, <1>t DEF CloseMatching, Take
<1>3. ASSUME NEW payload \in BOOLEAN, Close(payload) PROVE WriterInv'
  BY <1>3, <1>t DEF Close, Take
<1>4. ASSUME NEW c \in Conns, DropHandle(c) PROVE WriterInv'
  BY <1>4, <1>t DEF DropHandle
<1>5. CASE SendFetches
  BY <1>5, <1>t DEF SendFetches
<1>6. CASE SendLocks
  BY <1>6, <1>t DEF SendLocks, Locked, Written
<1>7. CASE SendEnds
  <2>1. CASE SendRefused
    BY <2>1, <1>t DEF SendRefused
  <2>2. CASE SendSucceeds
    BY <2>2, <1>t DEF SendSucceeds
  <2>3. CASE SendFails
    BY <2>3, <1>t DEF SendFails
  <2>4. QED
    BY <1>7, <2>1, <2>2, <2>3 DEF SendEnds
<1>8. ASSUME NEW c \in Conns, NEW payload \in BOOLEAN, ShutdownLocks(c, payload)
      PROVE  WriterInv'
  BY <1>8, <1>t DEF ShutdownLocks, Locked, Written
<1>9. ASSUME NEW c \in Conns, PayloadWritten(c) PROVE WriterInv'
  BY <1>9, <1>t DEF PayloadWritten
<1>10. ASSUME NEW c \in Conns, ShutdownEnds(c) PROVE WriterInv'
  <2>1. CASE ShutdownSkipped(c)
    BY <2>1, <1>t DEF ShutdownSkipped
  <2>2. CASE ShutdownSucceeds(c)
    BY <2>2, <1>t DEF ShutdownSucceeds, Ended
  <2>3. CASE ShutdownFails(c)
    BY <2>3, <1>t DEF ShutdownFails
  <2>4. QED
    BY <1>10, <2>1, <2>2, <2>3 DEF ShutdownEnds
<1>11. ASSUME NEW c \in Conns, AbortShutdown(c) PROVE WriterInv'
  BY <1>11, <1>t DEF AbortShutdown
<1>12. CASE UNCHANGED writerVars
  BY <1>12 DEF writerVars
<1>13. QED
  BY <1>1, <1>2, <1>3, <1>4, <1>5, <1>6, <1>7, <1>8, <1>9, <1>10, <1>11, <1>12 DEF Next

LEMMA WriterInvariant == Spec => [](TypeOK /\ WriterInv)
<1>1. Init => WriterInv
  BY NoneAssumption DEF Init, WriterInv
<1>2. QED
  BY <1>1, WriterInvNext, WriterTypeCorrect, PTL DEF Spec

\* The peer can parse what is written to it: see StreamsIntact.  This holds
\* for any use of the slot, by the client as well as by the server.
THEOREM StreamsStayIntact == Spec => []StreamsIntact
<1>1. WriterInv => StreamsIntact
  BY DEF WriterInv, StreamsIntact
<1>2. QED
  BY <1>1, WriterInvariant, PTL

\* The reader of a connection learns that it cannot be written to any more.
THEOREM ErrorsAreReported == Spec => []TornIsReported
<1>1. WriterInv => TornIsReported
  BY DEF WriterInv, TornIsReported
<1>2. QED
  BY <1>1, WriterInvariant, PTL

\* Nothing in the slot is being shut down, or has been: see SlotNotShutDown.
THEOREM SlotIsNotShutDown == Spec => []SlotNotShutDown
<1>1. TypeOK /\ WriterInv => SlotNotShutDown
  BY DEF TypeOK, WriterInv, SlotNotShutDown
<1>2. QED
  BY <1>1, WriterInvariant, PTL

-----------------------------------------------------------------------------
(* HttpClient uses PacketWriter as any user of it may *)

LEMMA ClientStep == ClientTypeOK /\ [ClientNext]_clientVars => [Next]_writerVars
<1> SUFFICES ASSUME ClientTypeOK, [ClientNext]_clientVars PROVE [Next]_writerVars
  OBVIOUS
<1>1. ASSUME NEW c \in Conns, Connected(c) PROVE Next
  BY <1>1 DEF Connected, Next
<1>2. CASE ConnectFails \/ PreviousShutDown \/ TtlExpires \/ ConnectionEnded \/ Wake
  BY <1>2 DEF ConnectFails, PreviousShutDown, TtlExpires, ConnectionEnded, Wake
<1>3. ASSUME ClosePrevious PROVE [Next]_writerVars
  <2>1. previous \in Conns \/ previous = None
    BY DEF ClientTypeOK
  <2>2. QED
    BY <1>3, <2>1 DEF ClosePrevious, Abort, Next
<1>4. ASSUME NEW c \in Conns, TaskStep(c) PROVE [Next]_writerVars
  <2>1. CASE DataArrives(c) \/ ReadPacket(c) \/ TaskEnds(c)
    BY <2>1 DEF DataArrives, ReadPacket, TaskEnds
  <2>2. CASE ReadEof(c) \/ ReadFails(c) \/ ReceiveError(c)
    <3>1. \E shutdown \in BOOLEAN : CloseMatching(c, shutdown)
      BY <2>2 DEF ReadEof, ReadFails, ReceiveError
    <3>2. QED
      BY <3>1 DEF Next
  <2>3. QED
    BY <1>4, <2>1, <2>2 DEF TaskStep
<1>5. ASSUME NEW c \in Conns, ShutdownStep(c) PROVE Next
  BY <1>5 DEF ShutdownStep, Next
<1>6. CASE SendStep
  BY <1>6 DEF SendStep, Next
<1>7. CASE UNCHANGED clientVars
  BY <1>7 DEF clientVars
<1>8. QED
  BY <1>1, <1>2, <1>3, <1>4, <1>5, <1>6, <1>7 DEF ClientNext, HandlerStep

LEMMA ClientTypeNext ==
    ClientTypeOK /\ [ClientNext]_clientVars => ClientTypeOK'
<1> SUFFICES ASSUME ClientTypeOK, [ClientNext]_clientVars PROVE ClientTypeOK'
  OBVIOUS
<1>t. TypeOK'
  BY ClientStep, WriterTypeNext DEF ClientTypeOK
<1>w. writer \in Conns \cup {None}
  BY DEF ClientTypeOK, TypeOK
<1>1. ASSUME NEW c \in Conns, Connected(c) PROVE ClientTypeOK'
  <2>1. UNCHANGED <<previous, expired, closing>> /\ current' = c /\ draining' = writer
    BY <1>1 DEF Connected
  <2>2. handler' \in {"waiting", "draining"} /\ busy' \in [Conns -> BOOLEAN]
    BY <1>1 DEF Connected, ClientTypeOK
  <2>3. QED
    BY <1>t, <1>w, <2>1, <2>2 DEF ClientTypeOK
<1>2. CASE ConnectFails \/ PreviousShutDown \/ TtlExpires \/ ConnectionEnded \/ Wake
  BY <1>2, <1>t DEF ClientTypeOK, ConnectFails, PreviousShutDown, TtlExpires,
                    ConnectionEnded, Wake, taskVars
<1>3. CASE ClosePrevious
  <2>1. closing' \in [Conns -> BOOLEAN]
    BY <1>3 DEF ClientTypeOK, ClosePrevious, Abort
  <2>2. QED
    BY <1>3, <1>t, <2>1 DEF ClientTypeOK, ClosePrevious
<1>4. ASSUME NEW c \in Conns, TaskStep(c) PROVE ClientTypeOK'
  <2>1. UNCHANGED handlerVars
    BY <1>4 DEF TaskStep, DataArrives, ReadPacket, TaskEnds, ReadEof, ReadFails, ReceiveError
  <2>2. closing' \in [Conns -> BOOLEAN]
    BY <1>4 DEF ClientTypeOK, TaskStep, DataArrives, ReadPacket, TaskEnds, ReadEof, ReadFails,
                ReceiveError, taskVars
  <2>3. busy' \in [Conns -> BOOLEAN]
    BY <1>4 DEF ClientTypeOK, TaskStep, DataArrives, ReadPacket, TaskEnds, ReadEof, ReadFails,
                ReceiveError, taskVars
  <2>4. QED
    BY <1>t, <2>1, <2>2, <2>3 DEF ClientTypeOK, handlerVars
<1>5. ASSUME UNCHANGED <<handlerVars, taskVars>> PROVE ClientTypeOK'
  BY <1>t, <1>5 DEF ClientTypeOK, handlerVars, taskVars
<1>6. QED
  BY <1>1, <1>2, <1>3, <1>4, <1>5
  DEF ClientNext, HandlerStep, ShutdownStep, SendStep, clientVars

\* The variables of the client keep their types; the handler has a current
\* connection unless it connects or sleeps.
THEOREM ClientTypeCorrect == ClientSpec => []ClientTypeOK
<1>1. ClientInit => ClientTypeOK
  BY DEF ClientInit, Init, ClientTypeOK, TypeOK, Streams
<1>2. QED
  BY <1>1, ClientTypeNext, PTL DEF ClientSpec

\* The client implements PacketWriter's specification, so that whatever is
\* proved of that one holds of the client too.
THEOREM ClientImplementsWriter == ClientSpec => Spec
<1>1. ClientInit => Init
  BY DEF ClientInit
<1>2. QED
  BY <1>1, ClientStep, ClientTypeCorrect, PTL DEF ClientSpec, Spec

-----------------------------------------------------------------------------
(* The slot, the handler and the tasks *)

LEMMA ClientInvNext ==
    ClientTypeOK /\ ClientInv /\ [ClientNext]_clientVars => ClientInv'
<1> SUFFICES ASSUME ClientTypeOK, ClientInv, [ClientNext]_clientVars PROVE ClientInv'
  OBVIOUS
<1>t. /\ writer \in Conns \cup {None}
      /\ current \in Conns \cup {None} /\ previous \in Conns \cup {None}
      /\ handle \in [Conns -> BOOLEAN] /\ closing \in [Conns -> BOOLEAN]
      /\ handler \in {"connecting", "sleeping"} <=> current = None
  BY DEF ClientTypeOK, TypeOK
<1>i. /\ writer # None => handle[writer]
      /\ current # None /\ handle[current] => writer = current
      /\ current = None /\ previous # None /\ handle[previous] => writer = previous
      /\ \A c \in Conns : handle[c] \/ closing[c] => c = current \/ c = previous
      /\ current # None => current # previous /\ writer \in {current, None}
      /\ \A c \in Conns : ~(handle[c] /\ closing[c])
      /\ handler = "closing_previous" /\ ~expired => ~Live(current)
  BY DEF ClientInv, SlotAgreesWithTasks, OnlyTwoLive, Live
<1> USE DEF ClientInv, SlotAgreesWithTasks, OnlyTwoLive, Live
<1>1. ASSUME NEW c \in Conns, Connected(c) PROVE ClientInv'
  <2>1. /\ current = None /\ c # previous /\ ~closing[c] /\ ~handle[c]
        /\ writer' = c /\ current' = c /\ UNCHANGED <<previous, closing>>
        /\ handle' = [handle EXCEPT ![c] = TRUE]
        /\ handler' # "closing_previous"
    BY <1>1, <1>t DEF Connected, Replace, Unreferenced
  <2>2. QED
    BY <1>t, <1>i, <2>1
<1>2. CASE ConnectFails \/ PreviousShutDown \/ TtlExpires \/ Wake
  <2>1. UNCHANGED <<writer, handle, closing, current, previous>>
    BY <1>2 DEF ConnectFails, PreviousShutDown, TtlExpires, Wake, writerVars, taskVars
  <2>2. ~(handler' = "closing_previous" /\ ~expired')
    BY <1>2 DEF ConnectFails, PreviousShutDown, TtlExpires, Wake
  <2>3. QED
    BY <1>t, <1>i, <2>1, <2>2
<1>3. CASE ConnectionEnded
  <2>1. UNCHANGED <<writer, handle, closing, current, previous>> /\ ~Live(current)
    BY <1>3 DEF ConnectionEnded, writerVars, taskVars
  <2>2. QED
    BY <1>t, <1>i, <2>1
<1>4. CASE ClosePrevious
  <2>1. /\ current # None /\ UNCHANGED <<writer, expired>> /\ current' = None
        /\ previous' = (IF expired THEN current ELSE None)
        /\ handler' = "sleeping" /\ handler = "closing_previous"
    BY <1>4, <1>t
    DEF ClosePrevious, Abort, DropHandle, AbortShutdown, writerVars
  <2>2. \A c \in Conns : c # previous =>
            handle'[c] = handle[c] /\ closing'[c] = closing[c]
    BY <1>4, <1>t DEF ClosePrevious, Abort, DropHandle, AbortShutdown, writerVars
  <2>3. previous # None => ~handle'[previous] /\ ~closing'[previous]
    BY <1>4, <1>t, <1>i DEF ClosePrevious, Abort, DropHandle, AbortShutdown, writerVars
  <2>4. \A c \in Conns : handle'[c] \/ closing'[c] => c = current /\ expired
    BY <1>t, <1>i, <2>1, <2>2, <2>3
  <2>5. writer # None => writer = current /\ handle'[writer]
    BY <1>t, <1>i, <2>1, <2>2
  <2>6. SlotAgreesWithTasks'
    BY <1>t, <1>i, <2>1, <2>2, <2>4, <2>5
  <2>7. OnlyTwoLive'
    BY <2>1, <2>4
  <2>8. \A c \in Conns : ~(handle'[c] /\ closing'[c])
    BY <1>t, <1>i, <2>2, <2>3
  <2>9. QED
    BY <2>1, <2>6, <2>7, <2>8
<1>5. ASSUME NEW c \in Conns, ReadEof(c) \/ ReadFails(c) \/ ReceiveError(c)
      PROVE  ClientInv'
  <2>1. /\ handle[c] /\ handle' = [handle EXCEPT ![c] = FALSE]
        /\ writer' = (IF writer = c THEN None ELSE writer)
        /\ UNCHANGED <<current, previous, handler, expired>>
    BY <1>5 DEF ReadEof, ReadFails, ReceiveError, CloseMatching, Take, handlerVars
  <2>2. closing' = [closing EXCEPT ![c] = writer = c] \/ closing' = closing
    BY <1>5 DEF ReadEof, ReadFails, ReceiveError, taskVars
  <2>3. QED
    BY <1>t, <1>i, <2>1, <2>2
<1>6. ASSUME NEW c \in Conns, DataArrives(c) \/ ReadPacket(c) \/ TaskEnds(c)
      PROVE  ClientInv'
  <2>1. UNCHANGED <<writer, handle, current, previous, handler, expired>>
    BY <1>6 DEF DataArrives, ReadPacket, TaskEnds, writerVars, handlerVars
  <2>2. closing' = [closing EXCEPT ![c] = FALSE] \/ closing' = closing
    BY <1>6 DEF DataArrives, ReadPacket, TaskEnds
  <2>3. QED
    BY <1>t, <1>i, <2>1, <2>2
<1>7. ASSUME UNCHANGED <<writer, handle, closing, current, previous, handler, expired>>
      PROVE  ClientInv'
  BY <1>t, <1>i, <1>7
<1>8. ASSUME NEW c \in Conns, ShutdownStep(c) PROVE ClientInv'
  BY <1>7, <1>8 DEF ShutdownStep, ShutdownLocks, ShutdownEnds, ShutdownSkipped,
                    ShutdownSucceeds, ShutdownFails, handlerVars, taskVars
<1>9. CASE SendStep
  BY <1>7, <1>9 DEF SendStep, SendFetches, SendLocks, SendEnds, SendRefused,
                    SendSucceeds, SendFails, handlerVars, taskVars
<1>10. CASE UNCHANGED clientVars
  BY <1>7, <1>10 DEF clientVars, writerVars, handlerVars, taskVars
<1>11. QED
  BY <1>1, <1>2, <1>3, <1>4, <1>5, <1>6, <1>8, <1>9, <1>10
  DEF ClientNext, HandlerStep, TaskStep

LEMMA ClientInvariant == ClientSpec => []ClientInv
<1>1. ClientInit => ClientInv
  BY DEF ClientInit, Init, ClientInv, SlotAgreesWithTasks, OnlyTwoLive, Live
<1>2. QED
  BY <1>1, ClientInvNext, ClientTypeCorrect, PTL DEF ClientSpec

\* The connection in the slot has a reader, and the newest connection that has
\* a reader is in the slot: see SlotAgreesWithTasks.
THEOREM SlotAndTasksAgree == ClientSpec => []SlotAgreesWithTasks
BY ClientInvariant, PTL DEF ClientInv

\* No more than two connections are open at a time: see OnlyTwoLive.
THEOREM AtMostTwoLive == ClientSpec => []OnlyTwoLive
BY ClientInvariant, PTL DEF ClientInv
=============================================================================
