------------------------------ MODULE UdpSecurer ------------------------------
(***************************************************************************)
(* The UdpConnectionSecurer of one peer as it encrypts, for the pinger and *)
(* the controller at once, and that of the other as it decrypts.  A packet *)
(* is encrypted with the cipher of its session and a nonce: the timestamp  *)
(* and the packet id of its header.  The timestamp is read before the id   *)
(* is taken; the id is a counter that starts at random and wraps.  The     *)
(* process may be restarted and packets arrive in any order, late, more    *)
(* than once or never.  What the ciphers compute is left out: a packet is  *)
(* decrypted by the cipher of the session that has encrypted it alone.     *)
(***************************************************************************)
EXTENDS Integers, Sequences

CONSTANTS
    Tasks,      \* those that send: the pinger and the controller
    Ids,        \* 2^32: packet_id is one of 0 .. Ids - 1
    Rate,       \* assumed: packets in a second, at most
    MaxStall,   \* assumed: seconds from reading the timestamp to taking the id
    MaxStep,    \* assumed: seconds the system clock is ever ahead of the time
    MaxBehind,  \* decrypt() accepts timestamps from -MaxBehind ...
    MaxAhead,   \* ... to MaxAhead seconds from now
    MaxTime,    \* bound: seconds
    MaxSession, \* bound: sessions
    None

ASSUME NatAssumption ==
    /\ Ids \in Nat \ {0} /\ Rate \in Nat
    /\ MaxStall \in Nat /\ MaxStep \in Nat
    /\ MaxBehind \in Nat /\ MaxAhead \in Nat
    /\ MaxTime \in Nat /\ MaxSession \in Nat
    /\ None \notin Nat

\* The ids are not used up within the seconds in which a timestamp can be read
\* and used, of which the clock may show each again.
ASSUME IdsAssumption == Rate * (MaxStep + MaxStall + 1) <= Ids

VARIABLES
    now,           \* the time
    offset,        \* how much the sender's system clock is ahead of it
    thisSecond,    \* packets that have been encrypted in this second
    session,       \* session.session_id: the number of the session
    packet_id,     \* session.packet_id
    timestamp,     \* of the packet a task is encrypting, or None
    since,         \* the time it was read at
    encrypted,     \* history: the nonces of the session and when they were taken
    net,           \* what has been sent and may still arrive
    peer_session,  \* of the other peer: the session whose cipher is kept, or None
    verdict        \* what decrypt() has returned, if it was the last step, and for which packet

senderVars == <<session, packet_id, timestamp, since, encrypted, thisSecond>>
peerVars == <<peer_session, verdict>>
vars == <<now, offset, senderVars, net, peerVars>>

\* What decrypt() may get besides: it is too short, or of somebody who does not
\* have the secret.
Strange == [kind : {"short"}, session : {0}, timestamp : {0}]
           \cup [kind : {"foreign"}, session : 0 .. MaxSession, timestamp : {0}]

\* now_timestamp()
Clock == now + offset

TypeOK ==
    /\ now \in Nat
    /\ offset \in 0 .. MaxStep
    /\ thisSecond \in 0 .. Rate
    /\ session \in Nat
    /\ packet_id \in 0 .. Ids - 1
    /\ timestamp \in [Tasks -> Nat \cup {None}]
    /\ since \in [Tasks -> Nat]
    /\ encrypted \in Seq([timestamp : Nat, id : 0 .. Ids - 1, at : Nat])

\* Session::new()
Init ==
    /\ now = 0
    /\ offset \in 0 .. MaxStep
    /\ thisSecond = 0
    /\ session = 1
    /\ packet_id \in 0 .. Ids - 1
    /\ timestamp = [t \in Tasks |-> None]
    /\ since = [t \in Tasks |-> 0]
    /\ encrypted = <<>>
    /\ net = {}
    /\ peer_session = None
    /\ verdict = None

-----------------------------------------------------------------------------
(* Time *)

\* A task does not stall for longer than MaxStall.
Tick ==
    /\ now < MaxTime
    /\ \A t \in Tasks : timestamp[t] # None => now < since[t] + MaxStall
    /\ now' = now + 1
    /\ thisSecond' = 0
    /\ UNCHANGED <<offset, session, packet_id, timestamp, since, encrypted, net, peer_session>>
    /\ verdict' = None

\* The clock is set: forward, or back over seconds it has shown already.
SetClock ==
    /\ offset' \in (0 .. MaxStep) \ {offset}
    /\ verdict' = None
    /\ UNCHANGED <<now, senderVars, net, peer_session>>

-----------------------------------------------------------------------------
(* encrypt() *)

ReadTimestamp(t) ==
    /\ timestamp[t] = None
    /\ timestamp' = [timestamp EXCEPT ![t] = Clock]
    /\ since' = [since EXCEPT ![t] = now]
    /\ UNCHANGED <<now, offset, session, packet_id, encrypted, thisSecond, net, peer_session>>
    /\ verdict' = None

\* Mistaken: the counter stops at its limit.
Next_id_Saturating == IF packet_id = Ids - 1 THEN packet_id ELSE packet_id + 1

\* fetch_add() wraps.
Next_id == IF packet_id = Ids - 1 THEN 0 ELSE packet_id + 1

TakePacketId(t) ==
    /\ timestamp[t] # None
    /\ thisSecond < Rate
    /\ packet_id' = Next_id
    /\ encrypted' = Append(encrypted, [timestamp |-> timestamp[t], id |-> packet_id, at |-> now])
    /\ net' = net \cup {[kind |-> "sent", session |-> session, timestamp |-> timestamp[t]]}
    /\ thisSecond' = thisSecond + 1
    /\ timestamp' = [timestamp EXCEPT ![t] = None]
    /\ since' = [since EXCEPT ![t] = 0]
    /\ verdict' = None
    /\ UNCHANGED <<now, offset, session, peer_session>>

\* The sender's process is restarted: Session::new() again.  A session id is one
\* of 2^64, and is taken to be a new one.
Restart ==
    /\ session < MaxSession
    /\ session' = session + 1
    /\ packet_id' \in 0 .. Ids - 1
    /\ timestamp' = [t \in Tasks |-> None]
    /\ since' = [t \in Tasks |-> 0]
    /\ encrypted' = <<>>
    /\ verdict' = None
    /\ UNCHANGED <<now, offset, thisSecond, net, peer_session>>

-----------------------------------------------------------------------------
(* decrypt().  The other peer's clock shows the time. *)

\* decrypt_packet() by the cipher of session s.
DecryptsWith(s, m) == m.kind = "sent" /\ m.session = s

\* Mistaken: the cipher that is kept is used for packets of any session.
CipherFor_Kept(m) == IF peer_session # None THEN peer_session ELSE m.session

\* PeerSession::new() is for the session of the packet's header.
CipherFor(m) ==
    IF peer_session # None /\ peer_session = m.session THEN peer_session ELSE m.session

InTime(m) == m.timestamp - now \in -MaxBehind .. MaxAhead

Decrypt(m) ==
    IF m.kind = "short"
    THEN /\ verdict' = [packet |-> m, result |-> "TooSmallPacket"]
         /\ UNCHANGED peer_session
    ELSE IF ~DecryptsWith(CipherFor(m), m)
    THEN /\ verdict' = [packet |-> m, result |-> "InvalidPayload"]
         /\ UNCHANGED peer_session
    ELSE /\ peer_session' = CipherFor(m)
         /\ verdict' = [packet |-> m, result |-> IF InTime(m) THEN "Ok" ELSE "InvalidTimestamp"]

\* A packet may arrive again.
Arrives ==
    /\ \E m \in net \cup Strange : Decrypt(m)
    /\ UNCHANGED <<now, offset, senderVars, net>>

\* The other peer's process is restarted.
PeerRestarts ==
    /\ peer_session # None
    /\ peer_session' = None
    /\ verdict' = None
    /\ UNCHANGED <<now, offset, senderVars, net>>

-----------------------------------------------------------------------------

Next ==
    \/ Tick \/ SetClock
    \/ \E t \in Tasks : ReadTimestamp(t) \/ TakePacketId(t)
    \/ Restart
    \/ Arrives \/ PeerRestarts

Spec == Init /\ [][Next]_vars

-----------------------------------------------------------------------------
(* Properties *)

\* No two packets of a session are encrypted with the same nonce, although the
\* tasks read the clock in one order and take their ids in another, the counter
\* wraps and the clock is set back (encrypt()).
NonceUnique ==
    \A m, n \in DOMAIN encrypted :
        m # n => encrypted[m].id # encrypted[n].id
                 \/ encrypted[m].timestamp # encrypted[n].timestamp

\* What decrypt() makes of a packet depends on the packet and the time alone, and
\* not on the session of the packets that have come before: after a restart
\* packets of the old session and of the new one are accepted in any order.
VerdictIgnoresOrder ==
    verdict # None =>
        LET m == verdict.packet
        IN  verdict.result = "Ok"
                <=> m.kind = "sent" /\ InTime(m)

=============================================================================
