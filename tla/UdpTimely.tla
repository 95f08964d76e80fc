------------------------------ MODULE UdpTimely ------------------------------
(***************************************************************************)
(* UdpTransport with the assumptions under which the peers must get and    *)
(* stay connected.  Anything may happen first; then a calm begins, with    *)
(* both receiver tasks alive: from there on no process dies, the tasks run *)
(* when they have something to do, a datagram takes at most MaxDelay ticks *)
(* and at most MaxLosses datagrams to a peer are lost in a row.            *)
(***************************************************************************)
EXTENDS UdpTransport

CONSTANTS
    MaxDelay,   \* ticks a datagram may take
    MaxLosses,  \* datagrams to a peer that may be lost in a row
    DataErrors  \* may there be a calm in which send() fails any number of times?

\* The longest silence in a calm: MaxLosses keep alive messages are lost and
\* the next one is late.
Silence == (MaxLosses + 1) * KeepAliveInterval + MaxDelay

ASSUME CalmAssumption ==
    /\ MaxDelay \in Nat
    /\ MaxLosses \in Nat
    /\ DataErrors \in BOOLEAN
    /\ Silence < KeepAliveTimeout
    \* What arrives in time is accepted.
    /\ MaxDelay + BAhead <= MaxBehind
    /\ BAhead <= MaxAhead

VARIABLES
    errors,  \* may send() of a tunnelled packet fail during the calm?
    calm,    \* has the calm begun?
    losses,  \* datagrams to the peer lost in a row during the calm
    calmFor  \* ticks since the calm began, up to SettleTime

timing == <<errors, calm, losses, calmFor>>
timelyVars == <<vars, timing>>

\* In the tick after Silence each peer has heard the other; after MaxDelay more
\* no packet from before that is in flight, and after Silence more one of its
\* successors has arrived.
SettleTime == 2 * Silence + MaxDelay + 1

TimelyTypeOK ==
    /\ TypeOK
    /\ errors \in BOOLEAN
    /\ calm \in BOOLEAN
    /\ losses \in [Peers -> 0 .. MaxLosses]
    /\ calmFor \in 0 .. SettleTime

TimelyInit ==
    /\ Init
    /\ errors \in {FALSE, DataErrors}
    /\ calm = FALSE
    /\ losses = [p \in Peers |-> 0]
    /\ calmFor = 0

CalmBegins ==
    /\ ~calm
    /\ \A p \in Peers : receiving[p]
    /\ calm' = TRUE
    /\ UNCHANGED <<vars, errors, losses, calmFor>>

Lost(p) ==
    /\ losses[p] < MaxLosses
    /\ losses' = [losses EXCEPT ![p] = @ + 1]

\* A step that sends m loses it, or puts it in flight (again, if an identical
\* datagram is there).
SentOrLost(m) == (m \in net' /\ UNCHANGED losses) \/ (net' = net /\ Lost(m.to))

TimelyReceive(p, m) ==
    /\ Receive(p, m)
    /\ losses' = [losses EXCEPT ![p] = IF decrypt(m) THEN 0 ELSE @]

TimelyPingerSends(p) ==
    /\ PingerSends(p)
    /\ SentOrLost(keep_alive[p])

TimelySend(p) ==
    /\ Send(p)
    /\ \/ SentOrLost(NewMessage(p))
       \/ errors /\ net' = net /\ UNCHANGED losses

\* A datagram from before the calm may be lost in addition to MaxLosses.
TimelyLose(m) ==
    /\ Lose(m)
    /\ \/ m.age > calmFor /\ UNCHANGED losses
       \/ Lost(m.to)

\* No task that has something to do sleeps, and no datagram is late.
TimelyTick ==
    /\ Tick
    /\ \A p \in Peers :
           /\ keep_alive[p] = NoMessage
           /\ ~notifying[p]
           /\ ~ping_needed[p]
           /\ next_ping_time[p] # 0
    /\ \A m \in net : m.age < MaxDelay
    /\ calmFor' = Saturated(calmFor + 1, SettleTime)
    /\ UNCHANGED losses

Undisturbed(p) ==
    /\ NotifyPinger(p) \/ PingerPostpones(p) \/ PingerPings(p)
    /\ UNCHANGED losses

CalmStep ==
    /\ calm
    /\ UNCHANGED <<errors, calm>>
    /\ \/ /\ UNCHANGED calmFor
          /\ \/ \E p \in Peers :
                    \/ Undisturbed(p) \/ TimelyPingerSends(p) \/ TimelySend(p)
                    \/ \E m \in net : TimelyReceive(p, m)
             \/ \E m \in net : TimelyLose(m)
       \/ TimelyTick

TimelyNext ==
    \/ ~calm /\ Next /\ UNCHANGED timing
    \/ CalmBegins
    \/ CalmStep

TimelySpec == TimelyInit /\ [][TimelyNext]_timelyVars

\* The calm begins with the processes: a smaller state space for larger bounds.
CalmInit ==
    /\ Init
    /\ errors \in {FALSE, DataErrors}
    /\ calm = TRUE
    /\ losses = [p \in Peers |-> 0]
    /\ calmFor = 0

CalmSpec == CalmInit /\ [][CalmStep]_timelyVars

-----------------------------------------------------------------------------
(* Properties *)

\* Once the network has been calm for SettleTime, both peers are connected and
\* stay so: MaxLosses packets lost in a row, packets that overtake each other
\* (one made before the peer was heard may not disconnect it later) and the
\* race of the pinger's timer with its wake-up are all survived.
SettledConnected ==
    ~errors /\ calmFor = SettleTime => \A p \in Peers : connected(p)

\* Time passes.  Every other step of a task or of the network precedes the
\* tick that it is due by, so that nothing else has to be waited for.
TimePasses == []<><<TimelyTick>>_timelyVars

FairCalmSpec == CalmSpec /\ TimePasses

\* A transport whose sends of tunnelled packets fail, which suppresses the
\* keep alive messages, does not stay disconnected: a disconnected transport
\* is not selected any more, so that the pinger's packets get through.
Recovers == \A p \in Peers : []<>connected(p)

-----------------------------------------------------------------------------
(* The inductive invariant *)

\* A pinger wakes up no later than KEEP_ALIVE_INTERVAL after the last packet.
PingsInTime ==
    \A p \in Peers : next_ping_time[p] + last_egress_packet_time[p] <= KeepAliveInterval

\* In the calm nothing that is held or in flight is late.
InTime ==
    /\ ~calm => calmFor = 0
    /\ \A p \in Peers : keep_alive[p] # NoMessage => keep_alive[p].to = Other(p)
    /\ calmFor > 0 =>
           /\ \A p \in Peers : keep_alive[p] # NoMessage => keep_alive[p].age = 0
           /\ \A m \in net : m.age <= MaxDelay

\* The datagrams to p that were made in the calm: losing one of them counts.
Coming(p) == {m \in net : m.to = p /\ m.age <= calmFor}

\* Those of them that are older than m.
ComingBefore(m) == {n \in Coming(m.to) : n.age > m.age}

\* The calm or p's silence began at most so many ticks ago.
Within(p, ticks) == calmFor <= ticks \/ last_ingress_packet[p].age <= ticks

\* For as long as p hears nothing, the other peer makes a packet in every
\* KEEP_ALIVE_INTERVAL; each one has been lost, or is still coming.
Heard(p) ==
    /\ Within(p, (losses[p] + Cardinality(Coming(p))) * KeepAliveInterval
                     + last_egress_packet_time[Other(p)])
    /\ \A m \in Coming(p) :
           Within(p, (losses[p] + Cardinality(ComingBefore(m)) + 1) * KeepAliveInterval + m.age)

\* A packet whose marker is FALSE was made before the Silence was over ...
Marked(m) == m.egress_works \/ calmFor <= Silence + m.age

\* ... and the last one that was taken in, at most MaxDelay after that.
Confirmed(p) ==
    \/ last_ingress_packet[p].egress_works
    \/ calmFor <= Silence + MaxDelay + last_ingress_packet[p].age

\* What the calm has kept true since it began: it bounds each silence, then the
\* age of the last packet with a false marker.
SettledInv ==
    /\ TimelyTypeOK
    /\ IsFiniteSet(net)
    /\ PingsInTime
    /\ InTime
    /\ ~errors =>
           /\ \A p \in Peers : Heard(p) /\ Confirmed(p)
           /\ \A p \in Peers : keep_alive[p] # NoMessage => Marked(keep_alive[p])
           /\ \A m \in net : Marked(m)
=============================================================================
