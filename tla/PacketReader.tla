----------------------------- MODULE PacketReader -----------------------------
(***************************************************************************)
(* PacketReader of the HTTP transports (common.rs): takes packets out of   *)
(* the stream of bytes that comes through a connection, however the stream *)
(* is cut into pieces and wherever it ends, and listens to the PacketWriter*)
(* of the same connection meanwhile.                                       *)
(*                                                                         *)
(* A byte is known by the message it belongs to and by its place in it;    *)
(* what the header of a message says is read off the message.              *)
(***************************************************************************)
EXTENDS Naturals, Sequences, FiniteSetsExt

CONSTANTS
    HeaderSize,  \* bytes the reader needs to know the size of a message
    MinSize,     \* the size of an IP header
    Mtu,         \* the size of the buffer
    Messages,    \* what the peer may write: see Message
    Streams      \* the messages that it may write one after another: see IsStream

\* An IP packet, a fake HTTP response or anything else.  A fake response is
\* longer than a header: its payload has at least 200 bytes.
Message == [kind : {"packet", "fake", "other"}, size : {n \in Nat : n >= HeaderSize}]

ASSUME SizesAssumption ==
    /\ HeaderSize \in Nat /\ MinSize \in Nat /\ Mtu \in Nat
    /\ 0 < HeaderSize /\ HeaderSize < MinSize /\ MinSize <= Mtu

ASSUME MessagesAssumption ==
    \A m \in Messages :
        m \in Message /\ (m.kind = "fake" => m.size > HeaderSize)

\* Some messages, and where each of them ends.
IsStream(s) ==
    /\ s.messages \in Seq(Messages)
    /\ s.ends \in [0..Len(s.messages) -> Nat]
    /\ s.ends[0] = 0
    /\ \A i \in 1..Len(s.messages) : s.ends[i] = s.ends[i - 1] + s.messages[i].size

ASSUME StreamsAssumption == \A s \in Streams : IsStream(s)

VARIABLES
    messages,      \* what the peer writes
    ends,          \* where in the stream each message ends
    length,        \* how much of that the connection will carry, in bytes
    coming,        \* bytes that have not arrived
    socket,        \* bytes that have arrived at the connection
    ending,        \* how the stream ends: "eof", "broken", or it is "open"
    error,         \* the error of the connection's writer that waits
    preread_data,  \* bytes that were read together with the handshake
    buf,           \* the buffer
    data_size,     \* how much of it is filled
    packet_size,   \* the size of the packet that is being read, or 0
    phase,         \* what read() is reading
    delivered,     \* the number of packets that read() has returned
    packet,        \* the last of them
    result         \* "ready", "reading" or what the last read() has returned

channel == <<messages, ends, length, coming, socket, ending, error>>
readerVars == <<preread_data, buf, data_size, packet_size, phase>>
vars == <<channel, readerVars, delivered, packet, result>>

Byte == [of : Nat \ {0}, at : Nat]
Junk == [of |-> 0, at |-> 0]
Bytes(i) == [j \in 1..messages[i].size |-> [of |-> i, at |-> j]]

\* The k-th byte of the stream belongs to the message that ends at it or behind.
ByteAt(k) ==
    LET i == CHOOSE i \in DOMAIN messages : k \in ends[i - 1] + 1 .. ends[i]
    IN  [of |-> i, at |-> k - ends[i - 1]]

Stream == [k \in 1..ends[Len(messages)] |-> ByteAt(k)]

Failures == {"torn", "broken", "invalid", "write_failed"}

TypeOK ==
    /\ IsStream([messages |-> messages, ends |-> ends])
    /\ length \in 0..ends[Len(messages)]
    /\ coming \in Seq(Byte) /\ socket \in Seq(Byte) /\ preread_data \in Seq(Byte)
    /\ ending \in {"eof", "broken", "open"}
    /\ error \in BOOLEAN
    /\ buf \in Seq(Byte \cup {Junk}) /\ Len(buf) = Mtu
    /\ data_size \in 0..Mtu
    /\ packet_size \in 0..Mtu
    /\ phase \in {"message", "fake", "tail"}
    /\ delivered \in Nat
    /\ packet \in Seq(Byte)
    /\ result \in {"ready", "reading", "closed"} \cup Failures

\* The stream may be cut at any byte, and its beginning may have been read.
Init ==
    /\ \E s \in Streams : messages = s.messages /\ ends = s.ends
    /\ length \in 0..ends[Len(messages)]
    /\ \E known \in 0..length :
           /\ preread_data = SubSeq(Stream, 1, known)
           /\ coming = SubSeq(Stream, known + 1, length)
    /\ socket = <<>>
    /\ ending \in {"eof", "broken", "open"}
    /\ error = FALSE
    /\ buf = [i \in 1..Mtu |-> Junk]
    /\ data_size = 0
    /\ packet_size = 0
    /\ phase = "message"
    /\ delivered = 0
    /\ packet = <<>>
    /\ result = "ready"

-----------------------------------------------------------------------------
(* The connection *)

Arrive ==
    /\ coming # <<>>
    /\ result \in {"ready", "reading"}
    /\ socket' = Append(socket, Head(coming))
    /\ coming' = Tail(coming)
    /\ UNCHANGED <<messages, ends, length, ending, error, readerVars, delivered, packet, result>>

\* The PacketWriter fails to write to the connection and sends the error.
WriteFails ==
    /\ ~error
    /\ result \in {"ready", "reading"}
    /\ error' = TRUE
    /\ UNCHANGED <<messages, ends, length, coming, socket, ending, readerVars, delivered, packet,
                   result>>

-----------------------------------------------------------------------------
(* read_data() *)

\* What the first bytes of the buffer say.
Header ==
    IF buf[1].at = 1 THEN messages[buf[1].of] ELSE [kind |-> "other", size |-> HeaderSize]

\* The argument of read_data(): how much is to be in the buffer.
Size ==
    CASE phase = "message" -> IF packet_size = 0 THEN HeaderSize ELSE packet_size
      [] phase = "fake" -> Header.size
      [] phase = "tail" -> 1

Missing == Size - data_size
Reading == result = "reading" /\ data_size < Size

Fill(data) ==
    /\ buf' = SubSeq(buf, 1, data_size) \o data \o SubSeq(buf, data_size + Len(data) + 1, Mtu)
    /\ data_size' = data_size + Len(data)

ReadPreread ==
    /\ Reading
    /\ preread_data # <<>>
    /\ LET read_size == Min({Missing, Len(preread_data)})
       IN  /\ Fill(SubSeq(preread_data, 1, read_size))
           /\ preread_data' = SubSeq(preread_data, read_size + 1, Len(preread_data))
    /\ UNCHANGED <<channel, packet_size, phase, delivered, packet, result>>

\* A read from the connection gives some of what has arrived.
ReadSocket ==
    /\ Reading
    /\ preread_data = <<>>
    /\ \E read_size \in 1..Min({Missing, Len(socket)}) :
           /\ Fill(SubSeq(socket, 1, read_size))
           /\ socket' = SubSeq(socket, read_size + 1, Len(socket))
    /\ UNCHANGED <<messages, ends, length, coming, ending, error, preread_data, packet_size, phase,
                   delivered, packet, result>>

NothingToRead == Reading /\ preread_data = <<>> /\ socket = <<>>

\* Mistaken: the end of the stream is the end of the stream.
ReadEnd_Anywhere ==
    /\ NothingToRead
    /\ coming = <<>>
    /\ ending # "open"
    /\ result' = IF ending = "broken" THEN "broken" ELSE "closed"
    /\ UNCHANGED <<channel, readerVars, delivered, packet>>

\* The connection is closed by the peer, where a message could begin or in
\* the middle of one, or it is broken.
ReadEnd ==
    /\ NothingToRead
    /\ coming = <<>>
    /\ ending # "open"
    /\ result' = CASE ending = "broken" -> "broken"
                   [] ending = "eof" -> IF data_size = 0 THEN "closed" ELSE "torn"
    /\ UNCHANGED <<channel, readerVars, delivered, packet>>

\* Mistaken: the select! is not biased.
ReceiveError_Fair ==
    /\ Reading
    /\ preread_data = <<>>
    /\ error
    /\ error' = FALSE
    /\ result' = "write_failed"
    /\ UNCHANGED <<messages, ends, length, coming, socket, ending, readerVars, delivered, packet>>

\* The select! is biased: the error counts when there is nothing to read.
ReceiveError ==
    /\ NothingToRead
    /\ error
    /\ error' = FALSE
    /\ result' = "write_failed"
    /\ UNCHANGED <<messages, ends, length, coming, socket, ending, readerVars, delivered, packet>>

-----------------------------------------------------------------------------
(* read() *)

\* The connection's task calls read() until there is nothing more to read.
Call ==
    /\ result = "ready"
    /\ result' = "reading"
    /\ UNCHANGED <<channel, readerVars, delivered, packet>>

HasRead(what) == result = "reading" /\ phase = what /\ data_size >= Size

ReturnPacket ==
    /\ HasRead("message")
    /\ packet_size # 0
    /\ packet' = SubSeq(buf, 1, packet_size)
    /\ delivered' = delivered + 1
    /\ packet_size' = 0
    /\ data_size' = 0
    /\ result' = "ready"
    /\ UNCHANGED <<channel, preread_data, buf, phase>>

\* Mistaken: the least size of a packet is not checked.
ParseHeader_Short ==
    /\ HasRead("message")
    /\ packet_size = 0
    /\ Header.kind = "packet"
    /\ Header.size <= Mtu
    /\ packet_size' = Header.size
    /\ UNCHANGED <<channel, preread_data, buf, data_size, phase, delivered, packet, result>>

ParseHeader ==
    /\ HasRead("message")
    /\ packet_size = 0
    /\ Header.kind = "packet"
    /\ Header.size \in MinSize..Mtu
    /\ packet_size' = Header.size
    /\ UNCHANGED <<channel, preread_data, buf, data_size, phase, delivered, packet, result>>

ParseFakeResponse ==
    /\ HasRead("message")
    /\ packet_size = 0
    /\ Header.kind = "fake"
    /\ Header.size <= Mtu
    /\ phase' = "fake"
    /\ UNCHANGED <<channel, preread_data, buf, data_size, packet_size, delivered, packet, result>>

\* Neither a packet nor a fake response, or of an impossible size.
RefuseHeader ==
    /\ HasRead("message")
    /\ packet_size = 0
    /\ \/ Header.kind = "other"
       \/ Header.kind = "packet" /\ Header.size \notin MinSize..Mtu
       \/ Header.kind = "fake" /\ Header.size > Mtu
    /\ result' = "invalid"
    /\ UNCHANGED <<channel, readerVars, delivered, packet>>

ReadFakeResponse ==
    /\ HasRead("fake")
    /\ data_size' = 0
    /\ phase' = "tail"
    /\ UNCHANGED <<channel, preread_data, buf, packet_size, delivered, packet, result>>

RefuseTail ==
    /\ HasRead("tail")
    /\ result' = "invalid"
    /\ UNCHANGED <<channel, readerVars, delivered, packet>>

-----------------------------------------------------------------------------

Read ==
    \/ Call
    \/ ReadPreread \/ ReadSocket \/ ReadEnd \/ ReceiveError
    \/ ParseHeader \/ ParseFakeResponse \/ RefuseHeader
    \/ ReturnPacket \/ ReadFakeResponse \/ RefuseTail

Next == Arrive \/ WriteFails \/ Read

Spec == Init /\ [][Next]_vars

-----------------------------------------------------------------------------
(* What the stream means, whatever way it comes in *)

IsPacket(m) == m.kind = "packet" /\ m.size \in MinSize..Mtu
IsFake(m) == m.kind = "fake" /\ m.size <= Mtu

\* The number of packets at the beginning of the first n bytes.
PacketsIn(n) ==
    Max({i \in 0..Len(messages) :
            ends[i] <= n /\ \A j \in 1..i : IsPacket(messages[j])})

\* How reading the first n bytes and the end of the stream ends.
Verdict(n) ==
    LET next == PacketsIn(n) + 1
        rest == n - ends[next - 1]
    IN  CASE rest = 0 -> "closed"
          [] rest \in 1..(HeaderSize - 1) -> "torn"
          [] rest >= HeaderSize /\ IsPacket(messages[next]) -> "torn"
          [] rest >= HeaderSize /\ IsFake(messages[next]) ->
                 IF rest < messages[next].size THEN "torn"
                 ELSE IF rest = messages[next].size THEN "closed" ELSE "invalid"
          [] OTHER -> "invalid"

\* The number of bytes that have arrived, in the handshake or after it.
Arrived == length - Len(coming)

-----------------------------------------------------------------------------
(* Properties *)

\* A packet that read() returns is a packet that the peer has written, whole
\* and in its place, whatever is left in the buffer from the last one and
\* whatever part of it came together with the handshake.
ReturnsWhatWasSent ==
    delivered > 0 => IsPacket(messages[delivered]) /\ packet = Bytes(delivered)

\* How reading ends depends on the stream alone, never on the pieces in which
\* it has come: an orderly end is told from a torn one, and all packets before
\* the end have been returned.
EndsAsSent ==
    result \in {"closed", "torn", "broken", "invalid"} =>
        /\ delivered = PacketsIn(length)
        /\ result = IF ending = "broken" /\ Verdict(length) # "invalid" THEN "broken"
                    ELSE Verdict(length)

\* No packet that has arrived waits for bytes behind it, and none is lost
\* because the other direction has failed.
NothingHeldBack == NothingToRead \/ result = "write_failed" => delivered = PacketsIn(Arrived)
=============================================================================
