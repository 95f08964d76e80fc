----------------------------- MODULE UdpHistory -----------------------------
(***************************************************************************)
(* UdpTransport with two history variables that its properties over time   *)
(* are stated with.  Every step is a step of UdpTransport.                 *)
(***************************************************************************)
EXTENDS UdpTransport

VARIABLES
    heard,  \* ticks since the peer last took in a packet from the other one
    pings   \* keep alive messages that the peer has made in this tick

history == <<heard, pings>>
allVars == <<vars, history>>

\* From this many ticks on, having been heard is too long ago for either peer.
HeardCap == 2 * KeepAliveTimeout - 1 + MaxBehind + BAhead

HistoryTypeOK ==
    /\ TypeOK
    /\ heard \in [Peers -> 0 .. HeardCap]
    /\ pings \in [Peers -> Nat]

HistoryInit ==
    /\ Init
    /\ heard = [p \in Peers |-> HeardCap]
    /\ pings = [p \in Peers |-> 0]

\* The new process counts its own keep alive messages; what the dead one took
\* in was heard all the same.
HRestart(p) ==
    /\ Restart(p)
    /\ pings' = [pings EXCEPT ![p] = 0]
    /\ UNCHANGED heard

HReceive(p, m) ==
    /\ Receive(p, m)
    /\ heard' = [heard EXCEPT ![p] = IF decrypt(m) THEN 0 ELSE @]
    /\ UNCHANGED pings

HPingerPings(p) ==
    /\ PingerPings(p)
    /\ pings' = [pings EXCEPT ![p] = @ + 1]
    /\ UNCHANGED heard

HTick ==
    /\ Tick
    /\ heard' = [p \in Peers |-> Saturated(heard[p] + 1, HeardCap)]
    /\ pings' = [p \in Peers |-> 0]

\* The steps that leave the history alone.
HOther(p) ==
    /\ \/ ReceiverFails(p) \/ NotifyPinger(p)
       \/ PingerPostpones(p) \/ PingerSends(p) \/ Send(p)
    /\ UNCHANGED history

HLose(m) == Lose(m) /\ UNCHANGED history

HistoryNext ==
    \/ \E p \in Peers :
           \/ HRestart(p) \/ HPingerPings(p) \/ HOther(p)
           \/ \E m \in net : HReceive(p, m)
    \/ \E m \in net : HLose(m)
    \/ HTick

HistorySpec == HistoryInit /\ [][HistoryNext]_allVars

-----------------------------------------------------------------------------
(* Properties *)

\* How long ago, at most, the other peer took in a packet when p says that it
\* is connected: the packet with the marker was made up to KEEP_ALIVE_TIMEOUT
\* after that, was accepted up to AgeLimit later, and has not timed out since.
FreshnessBound(p) == 2 * (KeepAliveTimeout - 1) + AgeLimit(p)

\* connected() is never based on stale news: when a peer says that it is
\* connected, the other one has taken in one of the packets sent to it within
\* FreshnessBound ticks, whatever was lost, delayed, duplicated or reordered,
\* and whichever process or receiver task died in the meantime.
ConnectedIsFresh ==
    Secure => \A p \in Peers : connected(p) => heard[Other(p)] <= FreshnessBound(p)

\* Acknowledging first packets cannot make the peers answer each other's keep
\* alive messages for ever: a peer makes at most two of them in a tick, the
\* one that is due and the one that acknowledges a connection.
NoPingStorm == \A p \in Peers : pings[p] <= 2

-----------------------------------------------------------------------------
(* The inductive invariants *)

\* A marker that m still carries, and that may still be believed, says that p,
\* the peer that made m, had heard the other one shortly before.
MarkerIsNews(m, p) ==
    m.egress_works /\ m.age < AgeCap => heard[p] <= KeepAliveTimeout - 1 + m.age

FreshIngress ==
    \A p \in Peers : ingress_works(p) => heard[p] <= last_ingress_packet[p].age

FreshInHand ==
    \A p \in Peers : keep_alive[p] # NoMessage =>
        keep_alive[p].to = Other(p) /\ MarkerIsNews(keep_alive[p], p)

FreshInFlight == \A m \in net : MarkerIsNews(m, Other(m.to))

FreshConfirmation ==
    \A p \in Peers : connected(p) =>
        heard[Other(p)] <= KeepAliveTimeout - 1 + AgeLimit(p) + last_ingress_packet[p].age

FreshnessInv == FreshIngress /\ FreshInHand /\ FreshInFlight /\ FreshConfirmation

\* After one keep alive message the next one is not due in this tick, so that
\* a second one acknowledges a first packet of this tick, and no third follows.
StormInv ==
    \A p \in Peers :
        /\ pings[p] <= 2
        /\ pings[p] > 0 /\ keep_alive[p] = NoMessage => ~egress_is_due(p)
        /\ pings[p] = 1 /\ needs_connection_acknowledge[p] => ingress_works(p)
        /\ pings[p] = 2 => ~needs_connection_acknowledge[p] /\ ingress_works(p)
=============================================================================
