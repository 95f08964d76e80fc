---------------------------- MODULE UdpTransport ----------------------------
(***************************************************************************)
(* The UDP transport: two peers that exchange packets over a datagram      *)
(* network and find out, from one bit that every packet carries, whether   *)
(* the packets they SEND arrive.  Each process runs three tasks over the   *)
(* shared State: the receiver, the pinger and the controller's sender.     *)
(*                                                                         *)
(* Time is discrete.  An Instant of the code is modelled by the number of  *)
(* ticks that have passed since (a "since" counter) or that remain until   *)
(* it (next_ping_time).  A counter saturates at the value from which the   *)
(* code can no longer tell two Instants apart, and `None' is that value:   *)
(* a last_ingress_packet of None and one that has timed out, and a         *)
(* last_egress_packet_time of None and one that is KEEP_ALIVE_INTERVAL     *)
(* old, are treated alike by every function of State.                      *)
(***************************************************************************)
EXTENDS Integers, FiniteSets

CONSTANTS
    A, B,               \* the two peers
    KeepAliveInterval,  \* KEEP_ALIVE_INTERVAL
    KeepAliveTimeout,   \* KEEP_ALIVE_TIMEOUT
    Secure,             \* is a UdpConnectionSecurer configured?
    MaxBehind,          \* decrypt() accepts timestamps from -MaxBehind ...
    MaxAhead,           \* ... to MaxAhead ticks from now
    BAhead,             \* by how much B's system clock is ahead of A's
    MaxInFlight,        \* bound: distinct datagrams in flight to one peer
    MaxSendDelay,       \* bound: ticks for which send_to() may block
    NoMessage

ASSUME PeersAssumption == A # B
ASSUME TimesAssumption ==
    /\ KeepAliveInterval \in Nat \ {0}
    /\ KeepAliveTimeout \in Nat \ {0}
ASSUME SecurerAssumption ==
    /\ Secure \in BOOLEAN
    /\ MaxBehind \in Nat
    /\ MaxAhead \in Nat
    /\ BAhead \in Nat
ASSUME BoundsAssumption ==
    /\ MaxInFlight \in Nat
    /\ MaxSendDelay \in Nat

VARIABLES
    receiving,                     \* FALSE once the receiver task has ended
    last_ingress_packet,           \* State.last_ingress_packet, with its age
    last_egress_packet_time,       \* State.last_egress_packet_time, as an age
    needs_connection_acknowledge,  \* State.needs_connection_acknowledge
    ping_needed,                   \* the permit stored in the Notify
    notifying,                     \* the receiver has unlocked State, not yet called notify_one()
    next_ping_time,                \* the pinger's deadline, in ticks from now
    keep_alive,                    \* the keep alive message the pinger is sending, or NoMessage
    net                            \* the datagrams in flight

state == <<last_ingress_packet, last_egress_packet_time, needs_connection_acknowledge>>
tasks == <<ping_needed, notifying, next_ping_time, keep_alive>>
vars == <<receiving, state, tasks, net>>

Peers == {A, B}
Other(p) == IF p = A THEN B ELSE A

-----------------------------------------------------------------------------
(* Clocks and packets *)

\* now_timestamp(), relative to A's clock.
ClockAhead(p) == IF p = B THEN BAhead ELSE 0

\* timestamp - now_timestamp() in decrypt() of `to', for a packet that was
\* encrypted `age' ticks ago.
TimeDiff(to, age) == ClockAhead(Other(to)) - ClockAhead(to) - age

\* The age of the oldest packet that decrypt() of p accepts.
AgeLimit(p) == MaxBehind + ClockAhead(Other(p)) - ClockAhead(p)

\* From this age on a packet is refused by both peers.
AgeCap == MaxBehind + BAhead + 1

Saturated(n, cap) == IF n >= cap THEN cap ELSE n

Message == [to : Peers, egress_works : BOOLEAN, age : 0 .. AgeCap]

ASSUME NoMessageAssumption == NoMessage \notin Message

IngressPacket == [age : 0 .. KeepAliveTimeout, egress_works : BOOLEAN]

NoIngress == [age |-> KeepAliveTimeout, egress_works |-> FALSE]

\* Mistaken: one tick too early.
is_timed_out_Early(packet) == packet.age >= KeepAliveTimeout - 1

is_timed_out(packet) == packet.age >= KeepAliveTimeout

\* Mistaken: each peer waits for the other one to confirm first.
ingress_works_Confirmed(p) ==
    ~is_timed_out(last_ingress_packet[p]) /\ last_ingress_packet[p].egress_works

ingress_works(p) == ~is_timed_out(last_ingress_packet[p])

connected(p) ==
    /\ last_ingress_packet[p].egress_works
    /\ ~is_timed_out(last_ingress_packet[p])

\* Mistaken: the window of accepted timestamps is off by one.
decrypt_Wide(m) == Secure => TimeDiff(m.to, m.age) \in -MaxBehind - 1 .. MaxAhead

decrypt(m) == Secure => TimeDiff(m.to, m.age) \in -MaxBehind .. MaxAhead

\* The packet a peer makes now: its marker says whether it hears the other.
NewMessage(p) == [to |-> Other(p), egress_works |-> ingress_works(p), age |-> 0]

\* send_to(): the datagram is in flight, or it is lost, or the call fails.
SendTo(m) ==
    \/ /\ Cardinality({n \in net : n.to = m.to}) < MaxInFlight
       /\ net' = net \cup {m}
    \/ net' = net

-----------------------------------------------------------------------------
(* A process *)

TypeOK ==
    /\ receiving \in [Peers -> BOOLEAN]
    /\ last_ingress_packet \in [Peers -> IngressPacket]
    /\ last_egress_packet_time \in [Peers -> 0 .. KeepAliveInterval]
    /\ needs_connection_acknowledge \in [Peers -> BOOLEAN]
    /\ ping_needed \in [Peers -> BOOLEAN]
    /\ notifying \in [Peers -> BOOLEAN]
    /\ next_ping_time \in [Peers -> 0 .. KeepAliveInterval]
    /\ keep_alive \in [Peers -> Message \cup {NoMessage}]
    /\ net \subseteq Message

Init ==
    /\ receiving = [p \in Peers |-> TRUE]
    /\ last_ingress_packet = [p \in Peers |-> NoIngress]
    /\ last_egress_packet_time = [p \in Peers |-> KeepAliveInterval]
    /\ needs_connection_acknowledge = [p \in Peers |-> FALSE]
    /\ ping_needed = [p \in Peers |-> FALSE]
    /\ notifying = [p \in Peers |-> FALSE]
    /\ next_ping_time = [p \in Peers |-> 0]
    /\ keep_alive = [p \in Peers |-> NoMessage]
    /\ net = {}

\* UdpTransport::new() in a process that replaces one that died, with all it
\* kept in memory: a fresh State, a fresh receiver and a fresh pinger.  The
\* time for which the process is down is time in which they do nothing.
Restart(p) ==
    /\ receiving' = [receiving EXCEPT ![p] = TRUE]
    /\ last_ingress_packet' = [last_ingress_packet EXCEPT ![p] = NoIngress]
    /\ last_egress_packet_time' = [last_egress_packet_time EXCEPT ![p] = KeepAliveInterval]
    /\ needs_connection_acknowledge' = [needs_connection_acknowledge EXCEPT ![p] = FALSE]
    /\ ping_needed' = [ping_needed EXCEPT ![p] = FALSE]
    /\ notifying' = [notifying EXCEPT ![p] = FALSE]
    /\ next_ping_time' = [next_ping_time EXCEPT ![p] = 0]
    /\ keep_alive' = [keep_alive EXCEPT ![p] = NoMessage]
    /\ UNCHANGED net

-----------------------------------------------------------------------------
(* The receiver task *)

\* recv_from() fails: the receiver leaves its loop for good, and the pinger
\* and the controller carry on.
ReceiverFails(p) ==
    /\ receiving[p]
    /\ ~notifying[p]
    /\ receiving' = [receiving EXCEPT ![p] = FALSE]
    /\ UNCHANGED <<state, tasks, net>>

\* Mistaken: every packet is acknowledged, as a first one should be.
on_ingress_packet_Always(p, egress_works) ==
    /\ last_ingress_packet' = [last_ingress_packet EXCEPT ![p] =
           [age |-> 0, egress_works |-> egress_works]]
    /\ needs_connection_acknowledge' = [needs_connection_acknowledge EXCEPT ![p] = TRUE]
    /\ notifying' = [notifying EXCEPT ![p] = TRUE]

on_ingress_packet(p, egress_works) ==
    LET is_first_packet == is_timed_out(last_ingress_packet[p])
    IN  /\ last_ingress_packet' = [last_ingress_packet EXCEPT ![p] =
               [age |-> 0, egress_works |-> egress_works]]
        /\ needs_connection_acknowledge' = [needs_connection_acknowledge EXCEPT
               ![p] = @ \/ is_first_packet]
        /\ notifying' = [notifying EXCEPT ![p] = is_first_packet]

\* A datagram is read from the socket.  The network may deliver it again.
Receive(p, m) ==
    /\ receiving[p]
    /\ ~notifying[p]
    /\ m.to = p
    /\ \/ net' = net \ {m}
       \/ net' = net
    /\ IF decrypt(m)
       THEN on_ingress_packet(p, m.egress_works)
       ELSE UNCHANGED <<last_ingress_packet, needs_connection_acknowledge, notifying>>
    /\ UNCHANGED <<receiving, last_egress_packet_time, ping_needed, next_ping_time,
                   keep_alive>>

\* The end of on_ingress_packet(), after State has been unlocked.
NotifyPinger(p) ==
    /\ notifying[p]
    /\ ping_needed' = [ping_needed EXCEPT ![p] = TRUE]
    /\ notifying' = [notifying EXCEPT ![p] = FALSE]
    /\ UNCHANGED <<receiving, state, next_ping_time, keep_alive, net>>

-----------------------------------------------------------------------------
(* The pinger task *)

\* The select!: either branch may win when both are ready, and the permit is
\* consumed only by the branch that waits for it.
PingerWakes(p) ==
    /\ keep_alive[p] = NoMessage
    /\ \/ /\ next_ping_time[p] = 0
          /\ UNCHANGED ping_needed
       \/ /\ ping_needed[p]
          /\ ping_needed' = [ping_needed EXCEPT ![p] = FALSE]

egress_is_due(p) == last_egress_packet_time[p] >= KeepAliveInterval

\* Mistaken: a recent packet counts as the acknowledgement.
PingerPostpones_Ack(p) ==
    /\ PingerWakes(p)
    /\ ~egress_is_due(p)
    /\ next_ping_time' = [next_ping_time EXCEPT ![p] =
           KeepAliveInterval - last_egress_packet_time[p]]
    /\ UNCHANGED <<receiving, state, notifying, keep_alive, net>>

\* There was a packet recently: sleep until KEEP_ALIVE_INTERVAL after it.
PingerPostpones(p) ==
    /\ PingerWakes(p)
    /\ ~needs_connection_acknowledge[p]
    /\ ~egress_is_due(p)
    /\ next_ping_time' = [next_ping_time EXCEPT ![p] =
           KeepAliveInterval - last_egress_packet_time[p]]
    /\ UNCHANGED <<receiving, state, notifying, keep_alive, net>>

\* The locked section of pinger() and encrypt().
PingerPings(p) ==
    /\ PingerWakes(p)
    /\ needs_connection_acknowledge[p] \/ egress_is_due(p)
    /\ needs_connection_acknowledge' = [needs_connection_acknowledge EXCEPT ![p] = FALSE]
    /\ keep_alive' = [keep_alive EXCEPT ![p] = NewMessage(p)]
    /\ UNCHANGED <<receiving, last_ingress_packet, last_egress_packet_time, notifying,
                   next_ping_time, net>>

on_egress_packet(p) ==
    last_egress_packet_time' = [last_egress_packet_time EXCEPT ![p] = 0]

\* send_to() returns, with success or not.
PingerSends(p) ==
    /\ keep_alive[p] # NoMessage
    /\ SendTo(keep_alive[p])
    /\ on_egress_packet(p)
    /\ keep_alive' = [keep_alive EXCEPT ![p] = NoMessage]
    /\ next_ping_time' = [next_ping_time EXCEPT ![p] = KeepAliveInterval]
    /\ UNCHANGED <<receiving, last_ingress_packet, needs_connection_acknowledge,
                   ping_needed, notifying>>

-----------------------------------------------------------------------------
(* The controller's task *)

\* Mistaken: a transport is selected whether it is connected or not.
Send_Always(p) ==
    /\ SendTo(NewMessage(p))
    /\ on_egress_packet(p)
    /\ UNCHANGED <<receiving, last_ingress_packet, needs_connection_acknowledge, tasks>>

\* select_transport() finds the transport ready_for_sending() and calls its
\* send().  on_egress_packet() is called whether send_to() succeeds or not.
Send(p) ==
    /\ connected(p)
    /\ SendTo(NewMessage(p))
    /\ on_egress_packet(p)
    /\ UNCHANGED <<receiving, last_ingress_packet, needs_connection_acknowledge, tasks>>

-----------------------------------------------------------------------------
(* The network and time *)

Lose(m) ==
    /\ net' = net \ {m}
    /\ UNCHANGED <<receiving, state, tasks>>

Older(m) == [m EXCEPT !.age = Saturated(@ + 1, AgeCap)]

Tick ==
    /\ \A p \in Peers : keep_alive[p] # NoMessage => keep_alive[p].age < MaxSendDelay
    /\ last_ingress_packet' = [p \in Peers |->
           IF last_ingress_packet[p].age + 1 >= KeepAliveTimeout
           THEN NoIngress
           ELSE [last_ingress_packet[p] EXCEPT !.age = @ + 1]]
    /\ last_egress_packet_time' = [p \in Peers |->
           Saturated(last_egress_packet_time[p] + 1, KeepAliveInterval)]
    /\ next_ping_time' = [p \in Peers |->
           IF next_ping_time[p] = 0 THEN 0 ELSE next_ping_time[p] - 1]
    /\ keep_alive' = [p \in Peers |->
           IF keep_alive[p] = NoMessage THEN NoMessage ELSE Older(keep_alive[p])]
    /\ net' = {Older(m) : m \in net}
    /\ UNCHANGED <<receiving, needs_connection_acknowledge, ping_needed, notifying>>

Next ==
    \/ \E p \in Peers :
           \/ Restart(p) \/ ReceiverFails(p)
           \/ \E m \in net : Receive(p, m)
           \/ NotifyPinger(p)
           \/ PingerPostpones(p) \/ PingerPings(p) \/ PingerSends(p)
           \/ Send(p)
    \/ \E m \in net : Lose(m)
    \/ Tick

Spec == Init /\ [][Next]_vars

-----------------------------------------------------------------------------
(* Properties *)

\* A first packet's acknowledgement is not left to the next keep alive: as
\* long as it is owed, the pinger's wake-up is stored in the Notify or about
\* to be (on_ingress_packet() changes State before it calls notify_one()).
AcknowledgeNotForgotten ==
    \A p \in Peers : needs_connection_acknowledge[p] => ping_needed[p] \/ notifying[p]
=============================================================================
