------------------------------ MODULE UdpProofs ------------------------------
(* Theorems about UdpTransport, UdpHistory and UdpTimely. *)
EXTENDS UdpHistory, UdpTimely, FiniteSetTheorems, WellFoundedInduction, TLAPS

USE PeersAssumption, TimesAssumption, SecurerAssumption, BoundsAssumption

LEMMA OtherPeer ==
    ASSUME NEW p \in Peers
    PROVE  Other(p) \in Peers /\ Other(p) # p /\ Other(Other(p)) = p
BY DEF Peers, Other

LEMMA ClockTypes ==
    /\ AgeCap \in Nat \ {0}
    /\ \A p \in Peers : AgeLimit(p) \in Int /\ AgeLimit(p) < AgeCap
BY OtherPeer DEF AgeCap, AgeLimit, ClockAhead, Peers, Other

LEMMA NewMessageType ==
    ASSUME NEW p \in Peers, TypeOK
    PROVE  NewMessage(p) \in Message
BY OtherPeer, ClockTypes DEF NewMessage, Message, ingress_works, is_timed_out

LEMMA OlderType ==
    ASSUME NEW m \in Message
    PROVE  /\ Older(m) \in Message
           /\ Older(m).to = m.to
           /\ Older(m).egress_works = m.egress_works
           /\ Older(m).age = IF m.age + 1 >= AgeCap THEN AgeCap ELSE m.age + 1
<1>1. m.age \in 0 .. AgeCap /\ m.to \in Peers /\ m.egress_works \in BOOLEAN
  BY DEF Message
<1>2. Saturated(m.age + 1, AgeCap) \in 0 .. AgeCap
  BY <1>1, ClockTypes DEF Saturated
<1>3. Older(m) = [m EXCEPT !.age = Saturated(m.age + 1, AgeCap)]
  BY DEF Older
<1>4. QED
  BY <1>1, <1>2, <1>3 DEF Message, Saturated

-----------------------------------------------------------------------------
(* Type correctness *)

LEMMA TypeInit == Init => TypeOK
BY ClockTypes DEF Init, TypeOK, NoIngress, IngressPacket

LEMMA TypeNext == TypeOK /\ [Next]_vars => TypeOK'
<1> SUFFICES ASSUME TypeOK, [Next]_vars PROVE TypeOK'
  OBVIOUS
<1> USE DEF TypeOK
<1>0. 0 \in 0 .. KeepAliveInterval /\ KeepAliveInterval \in 0 .. KeepAliveInterval
  OBVIOUS
<1>1. NoIngress \in IngressPacket
  BY DEF NoIngress, IngressPacket
<1>2. ASSUME NEW p \in Peers, Restart(p) PROVE TypeOK'
  BY <1>0, <1>1, <1>2 DEF Restart
<1>3. ASSUME NEW p \in Peers, ReceiverFails(p) PROVE TypeOK'
  BY <1>3 DEF ReceiverFails, state, tasks
<1>4. ASSUME NEW p \in Peers, NEW m \in net, Receive(p, m) PROVE TypeOK'
  <2>1. m.egress_works \in BOOLEAN
    BY DEF Message
  <2>2. [age |-> 0, egress_works |-> m.egress_works] \in IngressPacket
    BY <2>1 DEF IngressPacket
  <2>3. net' \subseteq Message
    BY <1>4 DEF Receive
  <2>4. is_timed_out(last_ingress_packet[p]) \in BOOLEAN
    BY DEF is_timed_out
  <2>5. CASE decrypt(m)
    BY <1>4, <2>2, <2>3, <2>4, <2>5 DEF Receive, on_ingress_packet
  <2>6. CASE ~decrypt(m)
    BY <1>4, <2>3, <2>6 DEF Receive
  <2>7. QED
    BY <2>5, <2>6
<1>5. ASSUME NEW p \in Peers, NotifyPinger(p) PROVE TypeOK'
  BY <1>5 DEF NotifyPinger, state
<1>6. ASSUME NEW p \in Peers, PingerPostpones(p) PROVE TypeOK'
  <2>1. KeepAliveInterval - last_egress_packet_time[p] \in 0 .. KeepAliveInterval
    OBVIOUS
  <2>2. ping_needed' \in [Peers -> BOOLEAN]
    BY <1>6 DEF PingerPostpones, PingerWakes
  <2>3. QED
    BY <1>6, <2>1, <2>2 DEF PingerPostpones, state
<1>7. ASSUME NEW p \in Peers, PingerPings(p) PROVE TypeOK'
  <2>1. ping_needed' \in [Peers -> BOOLEAN]
    BY <1>7 DEF PingerPings, PingerWakes
  <2>2. QED
    BY <1>7, <2>1, NewMessageType DEF PingerPings
<1>8. ASSUME NEW p \in Peers, PingerSends(p) PROVE TypeOK'
  <2>1. net' \subseteq Message
    BY <1>8 DEF PingerSends, SendTo
  <2>2. QED
    BY <1>0, <1>8, <2>1 DEF PingerSends, on_egress_packet
<1>9. ASSUME NEW p \in Peers, Send(p) PROVE TypeOK'
  <2>1. net' \subseteq Message
    BY <1>9, NewMessageType DEF Send, SendTo
  <2>2. QED
    BY <1>0, <1>9, <2>1 DEF Send, on_egress_packet, tasks
<1>10. ASSUME NEW m \in net, Lose(m) PROVE TypeOK'
  BY <1>10 DEF Lose, state, tasks
<1>11. CASE Tick
  <2>1. last_ingress_packet' \in [Peers -> IngressPacket]
    <3>1. ASSUME NEW p \in Peers, ~(last_ingress_packet[p].age + 1 >= KeepAliveTimeout)
          PROVE  [last_ingress_packet[p] EXCEPT !.age = last_ingress_packet[p].age + 1]
                   \in IngressPacket
      BY <3>1 DEF IngressPacket
    <3>2. QED
      BY <1>1, <1>11, <3>1 DEF Tick
  <2>2. last_egress_packet_time' \in [Peers -> 0 .. KeepAliveInterval]
    BY <1>11 DEF Tick, Saturated
  <2>3. next_ping_time' \in [Peers -> 0 .. KeepAliveInterval]
    <3>1. \A n \in 0 .. KeepAliveInterval :
              (IF n = 0 THEN 0 ELSE n - 1) \in 0 .. KeepAliveInterval
      OBVIOUS
    <3>2. \A p \in Peers : next_ping_time[p] \in 0 .. KeepAliveInterval
      OBVIOUS
    <3>3. next_ping_time' =
              [p \in Peers |-> IF next_ping_time[p] = 0 THEN 0 ELSE next_ping_time[p] - 1]
      BY <1>11 DEF Tick
    <3>4. QED
      BY <3>1, <3>2, <3>3, Zenon
  <2>4. keep_alive' \in [Peers -> Message \cup {NoMessage}]
    BY <1>11, OlderType DEF Tick
  <2>5. net' \subseteq Message
    BY <1>11, OlderType DEF Tick
  <2>6. QED
    BY <1>11, <2>1, <2>2, <2>3, <2>4, <2>5 DEF Tick
<1>12. CASE UNCHANGED vars
  BY <1>12 DEF vars, state, tasks
<1>13. QED
  BY <1>2, <1>3, <1>4, <1>5, <1>6, <1>7, <1>8, <1>9, <1>10, <1>11, <1>12 DEF Next

\* Every variable of UdpTransport keeps its type: no counter leaves its range
\* and nothing but a message is in flight or in a task's hands.
THEOREM TypeCorrect == Spec => []TypeOK
BY TypeInit, TypeNext, PTL DEF Spec

-----------------------------------------------------------------------------
(* UdpHistory: its steps, and the types of its history *)

LEMMA HistoryStep == [HistoryNext]_allVars => [Next]_vars
<1> SUFFICES ASSUME [HistoryNext]_allVars PROVE [Next]_vars
  OBVIOUS
<1>1. ASSUME NEW p \in Peers, HRestart(p) \/ HPingerPings(p) \/ HOther(p) PROVE Next
  BY <1>1 DEF HRestart, HPingerPings, HOther, Next
<1>2. ASSUME NEW p \in Peers, NEW m \in net, HReceive(p, m) PROVE Next
  BY <1>2 DEF HReceive, Next
<1>3. ASSUME NEW m \in net, HLose(m) PROVE Next
  BY <1>3 DEF HLose, Next
<1>4. CASE HTick
  BY <1>4 DEF HTick, Next
<1>5. CASE UNCHANGED allVars
  BY <1>5 DEF allVars
<1>6. QED
  BY <1>1, <1>2, <1>3, <1>4, <1>5 DEF HistoryNext

LEMMA HeardCapType == HeardCap \in Nat
BY DEF HeardCap

LEMMA HistoryTypeNext ==
    HistoryTypeOK /\ [HistoryNext]_allVars => HistoryTypeOK'
<1> SUFFICES ASSUME HistoryTypeOK, [HistoryNext]_allVars PROVE HistoryTypeOK'
  OBVIOUS
<1>1. TypeOK'
  BY HistoryStep, TypeNext DEF HistoryTypeOK
<1>2. heard \in [Peers -> 0 .. HeardCap] /\ pings \in [Peers -> Nat]
  BY DEF HistoryTypeOK
<1>3. heard' \in [Peers -> 0 .. HeardCap] /\ pings' \in [Peers -> Nat]
  <2>1. ASSUME NEW p \in Peers, HRestart(p) \/ HPingerPings(p) \/ HOther(p)
        PROVE  heard' \in [Peers -> 0 .. HeardCap] /\ pings' \in [Peers -> Nat]
    BY <1>2, <2>1 DEF HRestart, HPingerPings, HOther, history
  <2>2. ASSUME NEW p \in Peers, NEW m \in net, HReceive(p, m)
        PROVE  heard' \in [Peers -> 0 .. HeardCap] /\ pings' \in [Peers -> Nat]
    BY <1>2, <2>2, HeardCapType DEF HReceive
  <2>3. ASSUME NEW m \in net, HLose(m)
        PROVE  heard' \in [Peers -> 0 .. HeardCap] /\ pings' \in [Peers -> Nat]
    BY <1>2, <2>3 DEF HLose, history
  <2>4. ASSUME HTick
        PROVE  heard' \in [Peers -> 0 .. HeardCap] /\ pings' \in [Peers -> Nat]
    BY <1>2, <2>4, HeardCapType DEF HTick, Saturated
  <2>5. ASSUME UNCHANGED allVars
        PROVE  heard' \in [Peers -> 0 .. HeardCap] /\ pings' \in [Peers -> Nat]
    BY <1>2, <2>5 DEF allVars, history
  <2>6. QED
    BY <2>1, <2>2, <2>3, <2>4, <2>5 DEF HistoryNext
<1>4. QED
  BY <1>1, <1>3 DEF HistoryTypeOK

\* The history counts what it should: its variables keep their types along
\* with those of UdpTransport.
THEOREM HistoryTypeCorrect == HistorySpec => []HistoryTypeOK
<1>1. HistoryInit => HistoryTypeOK
  BY TypeInit, HeardCapType DEF HistoryInit, HistoryTypeOK
<1>2. QED
  BY <1>1, HistoryTypeNext, PTL DEF HistorySpec

-----------------------------------------------------------------------------
(* Freshness *)

\* What decrypt() lets through is not older than AgeLimit.
LEMMA AcceptedInTime ==
    ASSUME Secure, NEW m \in Message, decrypt(m)
    PROVE  m.age <= AgeLimit(m.to) /\ m.age < AgeCap
<1>1. m.to \in Peers /\ m.age \in 0 .. AgeCap
  BY DEF Message
<1>2. TimeDiff(m.to, m.age) >= -MaxBehind
  BY <1>1, OtherPeer DEF decrypt, TimeDiff, ClockAhead
<1>3. QED
  BY <1>1, <1>2, ClockTypes, OtherPeer DEF TimeDiff, AgeLimit, ClockAhead

\* A peer that made a packet with the marker has heard the other one recently.
LEMMA NewMarkerIsNews ==
    ASSUME NEW p \in Peers, HistoryTypeOK, FreshnessInv
    PROVE  /\ NewMessage(p).to = Other(p)
           /\ MarkerIsNews(NewMessage(p), p)
<1>1. NewMessage(p).to = Other(p) /\ NewMessage(p).age = 0
      /\ NewMessage(p).egress_works = ingress_works(p)
  BY DEF NewMessage
<1>2. last_ingress_packet[p].age \in 0 .. KeepAliveTimeout /\ heard[p] \in 0 .. HeardCap
  BY DEF HistoryTypeOK, TypeOK, IngressPacket
<1>3. ingress_works(p) => heard[p] <= KeepAliveTimeout - 1
  BY <1>2 DEF FreshnessInv, FreshIngress, ingress_works, is_timed_out
<1>4. QED
  BY <1>1, <1>2, <1>3 DEF MarkerIsNews

LEMMA FreshnessInit == HistoryInit => FreshnessInv
BY DEF HistoryInit, Init, FreshnessInv, FreshIngress, FreshInHand, FreshInFlight,
       FreshConfirmation, ingress_works, connected, NoIngress, is_timed_out

LEMMA FreshnessNext ==
    Secure /\ HistoryTypeOK /\ FreshnessInv /\ [HistoryNext]_allVars => FreshnessInv'
<1> SUFFICES ASSUME Secure, HistoryTypeOK, FreshnessInv, [HistoryNext]_allVars
             PROVE  FreshnessInv'
  OBVIOUS
<1>a. FreshIngress /\ FreshInHand /\ FreshInFlight /\ FreshConfirmation
  BY DEF FreshnessInv
<1>t. /\ last_ingress_packet \in [Peers -> IngressPacket]
      /\ heard \in [Peers -> 0 .. HeardCap]
      /\ keep_alive \in [Peers -> Message \cup {NoMessage}]
      /\ net \subseteq Message
  BY DEF HistoryTypeOK, TypeOK
\* What only depends on what the peers heard and when.
<1>u. ASSUME UNCHANGED <<last_ingress_packet, heard>>
      PROVE  FreshIngress' /\ FreshConfirmation'
  BY <1>a, <1>u DEF FreshIngress, FreshConfirmation, ingress_works, connected, is_timed_out
<1>v. ASSUME UNCHANGED heard, keep_alive' = keep_alive
      PROVE  FreshInHand'
  BY <1>a, <1>v DEF FreshInHand, MarkerIsNews
<1>w. ASSUME UNCHANGED heard, net' \subseteq net
      PROVE  FreshInFlight'
  BY <1>a, <1>w DEF FreshInFlight, MarkerIsNews
\* A message a peer has just made, or was about to send, is put in flight.
<1>s. ASSUME UNCHANGED heard, NEW p \in Peers, NEW m, m.to = Other(p),
             MarkerIsNews(m, p), SendTo(m)
      PROVE  FreshInFlight'
  <2>1. Other(m.to) = p
    BY <1>s, OtherPeer
  <2>2. \A n \in net' : n \in net \/ n = m
    BY <1>s DEF SendTo
  <2>3. QED
    BY <1>a, <1>s, <2>1, <2>2 DEF FreshInFlight, MarkerIsNews
<1>1. ASSUME NEW p \in Peers, HRestart(p)
      PROVE  FreshnessInv'
  <2>1. /\ UNCHANGED <<heard, net>>
        /\ last_ingress_packet' = [last_ingress_packet EXCEPT ![p] = NoIngress]
        /\ keep_alive' = [keep_alive EXCEPT ![p] = NoMessage]
    BY <1>1 DEF HRestart, Restart
  <2>2. FreshIngress' /\ FreshConfirmation'
    BY <1>a, <1>t, <2>1
    DEF FreshIngress, FreshConfirmation, ingress_works, connected, is_timed_out, NoIngress
  <2>3. FreshInHand'
    BY <1>a, <1>t, <2>1 DEF FreshInHand, MarkerIsNews
  <2>4. QED
    BY <2>1, <2>2, <2>3, <1>w DEF FreshnessInv
<1>2. ASSUME NEW p \in Peers, NEW m \in net, HReceive(p, m)
      PROVE  FreshnessInv'
  <2>1. m \in Message /\ m.to = p /\ net' \subseteq net /\ UNCHANGED keep_alive
    BY <1>2, <1>t DEF HReceive, Receive
  <2>2. CASE ~decrypt(m)
    <3>1. UNCHANGED <<last_ingress_packet, heard>>
      BY <1>2, <1>t, <2>2 DEF HReceive, Receive
    <3>2. QED
      BY <3>1, <2>1, <1>u, <1>v, <1>w DEF FreshnessInv
  <2>3. CASE decrypt(m)
    <3>1. /\ last_ingress_packet' = [last_ingress_packet EXCEPT ![p] =
                 [age |-> 0, egress_works |-> m.egress_works]]
          /\ heard' = [heard EXCEPT ![p] = 0]
      BY <1>2, <2>3 DEF HReceive, Receive, on_ingress_packet
    <3>2. \A q \in Peers : heard'[q] <= heard[q]
      BY <1>t, <3>1, HeardCapType
    <3>3. \A q \in Peers : heard[q] \in Int /\ heard'[q] \in Int
      BY <1>t, <3>1, HeardCapType
    <3>4. ASSUME NEW n \in Message, NEW q \in Peers, MarkerIsNews(n, q)
          PROVE  MarkerIsNews(n, q)'
      <4>1. n.age \in Int
        BY DEF Message
      <4>2. QED
        BY <3>2, <3>3, <3>4, <4>1 DEF MarkerIsNews
    <3>5. FreshInHand'
      BY <1>a, <1>t, <2>1, <3>4 DEF FreshInHand
    <3>6. FreshInFlight'
      <4>1. \A n \in net : n \in Message /\ Other(n.to) \in Peers
        BY <1>t, OtherPeer DEF Message
      <4>2. QED
        BY <1>a, <2>1, <3>4, <4>1 DEF FreshInFlight
    <3>7. FreshIngress'
      BY <1>a, <1>t, <3>1 DEF FreshIngress, ingress_works, is_timed_out
    <3>8. FreshConfirmation'
      <4> SUFFICES ASSUME NEW q \in Peers, connected(q)'
                   PROVE  heard'[Other(q)] <= KeepAliveTimeout - 1 + AgeLimit(q)
                                              + last_ingress_packet'[q].age
        BY DEF FreshConfirmation
      <4>1. CASE q = p
        <5>1. last_ingress_packet'[q].age = 0 /\ m.egress_works
          BY <1>t, <3>1, <4>1 DEF connected
        <5>2. m.age <= AgeLimit(p) /\ m.age < AgeCap /\ m.age \in Int
          BY <2>1, <2>3, AcceptedInTime DEF Message
        <5>3. heard[Other(p)] <= KeepAliveTimeout - 1 + m.age
          BY <1>a, <2>1, <5>1, <5>2 DEF FreshInFlight, MarkerIsNews
        <5>4. heard'[Other(p)] = heard[Other(p)] /\ heard[Other(p)] \in Int
          BY <1>t, <3>1, OtherPeer, HeardCapType
        <5>5. QED
          BY <4>1, <5>1, <5>2, <5>3, <5>4, ClockTypes
      <4>2. CASE q # p
        <5>1. last_ingress_packet'[q] = last_ingress_packet[q] /\ connected(q)
          BY <1>t, <3>1, <4>2 DEF connected, is_timed_out
        <5>2. last_ingress_packet[q].age \in Int
          BY <1>t DEF IngressPacket
        <5>3. QED
          BY <1>a, <3>2, <3>3, <5>1, <5>2, ClockTypes, OtherPeer DEF FreshConfirmation
      <4>3. QED
        BY <4>1, <4>2
    <3>9. QED
      BY <3>5, <3>6, <3>7, <3>8 DEF FreshnessInv
  <2>4. QED
    BY <2>2, <2>3
<1>3. ASSUME NEW p \in Peers, HPingerPings(p)
      PROVE  FreshnessInv'
  <2>1. /\ UNCHANGED <<last_ingress_packet, heard, net>>
        /\ keep_alive' = [keep_alive EXCEPT ![p] = NewMessage(p)]
    BY <1>3 DEF HPingerPings, PingerPings
  <2>2. FreshInHand'
    BY <1>a, <1>t, <2>1, NewMarkerIsNews DEF FreshInHand, MarkerIsNews
  <2>3. QED
    BY <2>1, <2>2, <1>u, <1>w DEF FreshnessInv
<1>4. ASSUME NEW p \in Peers, HOther(p)
      PROVE  FreshnessInv'
  <2>1. UNCHANGED heard
    BY <1>4 DEF HOther, history
  <2>2. CASE ReceiverFails(p) \/ NotifyPinger(p) \/ PingerPostpones(p)
    <3>1. UNCHANGED <<last_ingress_packet, keep_alive, net>>
      BY <2>2 DEF ReceiverFails, NotifyPinger, PingerPostpones, state, tasks
    <3>2. QED
      BY <2>1, <3>1, <1>u, <1>v, <1>w DEF FreshnessInv
  <2>3. CASE PingerSends(p)
    <3>1. /\ UNCHANGED last_ingress_packet
          /\ keep_alive[p] # NoMessage
          /\ SendTo(keep_alive[p])
          /\ keep_alive' = [keep_alive EXCEPT ![p] = NoMessage]
      BY <2>3 DEF PingerSends
    <3>2. FreshInHand'
      BY <1>a, <1>t, <2>1, <3>1 DEF FreshInHand, MarkerIsNews
    <3>3. FreshInFlight'
      BY <1>a, <1>s, <2>1, <3>1 DEF FreshInHand
    <3>4. QED
      BY <2>1, <3>1, <3>2, <3>3, <1>u DEF FreshnessInv
  <2>4. CASE Send(p)
    <3>1. UNCHANGED <<last_ingress_packet, keep_alive>> /\ SendTo(NewMessage(p))
      BY <2>4 DEF Send, tasks
    <3>2. FreshInFlight'
      BY <1>s, <2>1, <3>1, NewMarkerIsNews
    <3>3. QED
      BY <2>1, <3>1, <3>2, <1>u, <1>v DEF FreshnessInv
  <2>5. QED
    BY <1>4, <2>2, <2>3, <2>4 DEF HOther
<1>5. ASSUME NEW m \in net, HLose(m)
      PROVE  FreshnessInv'
  <2>1. UNCHANGED <<last_ingress_packet, heard, keep_alive>> /\ net' \subseteq net
    BY <1>5 DEF HLose, Lose, history, state, tasks
  <2>2. QED
    BY <2>1, <1>u, <1>v, <1>w DEF FreshnessInv
<1>6. CASE HTick
  <2>1. \A q \in Peers : /\ heard'[q] <= heard[q] + 1
                         /\ heard[q] \in Int /\ heard'[q] \in Int
    BY <1>6, <1>t, HeardCapType DEF HTick, Saturated
  <2>2. ASSUME NEW q \in Peers, ingress_works(q)'
        PROVE  /\ ingress_works(q)
               /\ last_ingress_packet'[q].age = last_ingress_packet[q].age + 1
               /\ last_ingress_packet'[q].egress_works = last_ingress_packet[q].egress_works
               /\ last_ingress_packet[q].age \in Int
    <3>1. last_ingress_packet[q] \in IngressPacket
      BY <1>t
    <3>2. last_ingress_packet'[q] = IF last_ingress_packet[q].age + 1 >= KeepAliveTimeout
              THEN NoIngress
              ELSE [last_ingress_packet[q] EXCEPT !.age = last_ingress_packet[q].age + 1]
      BY <1>6 DEF HTick, Tick
    <3>3. ~(last_ingress_packet[q].age + 1 >= KeepAliveTimeout)
      BY <2>2, <3>1, <3>2 DEF ingress_works, is_timed_out, NoIngress
    <3>4. QED
      BY <3>1, <3>2, <3>3 DEF ingress_works, is_timed_out, IngressPacket
  <2>3. ASSUME NEW n \in Message, NEW q \in Peers, MarkerIsNews(n, q)
        PROVE  MarkerIsNews(Older(n), q)'
    <3>1. n.age \in 0 .. AgeCap
      BY DEF Message
    <3>2. Older(n).age < AgeCap => n.age < AgeCap /\ Older(n).age = n.age + 1
      BY <3>1, OlderType, ClockTypes
    <3>3. QED
      BY <2>1, <2>3, <3>1, <3>2, OlderType DEF MarkerIsNews
  <2>4. FreshIngress'
    BY <1>a, <2>1, <2>2 DEF FreshIngress
  <2>5. FreshInHand'
    <3> SUFFICES ASSUME NEW q \in Peers, keep_alive'[q] # NoMessage
                 PROVE  (keep_alive[q].to = Other(q) /\ MarkerIsNews(keep_alive[q], q))'
      BY DEF FreshInHand
    <3>1. keep_alive[q] # NoMessage /\ keep_alive'[q] = Older(keep_alive[q])
      BY <1>6 DEF HTick, Tick
    <3>2. QED
      BY <1>a, <1>t, <2>3, <3>1, OlderType DEF FreshInHand
  <2>6. FreshInFlight'
    <3> SUFFICES ASSUME NEW n \in net' PROVE MarkerIsNews(n, Other(n.to))'
      BY DEF FreshInFlight
    <3>1. PICK m \in net : n = Older(m)
      BY <1>6 DEF HTick, Tick
    <3>2. m \in Message /\ Other(m.to) \in Peers /\ n.to = m.to
      BY <1>t, <3>1, OlderType, OtherPeer DEF Message
    <3>3. QED
      BY <1>a, <2>3, <3>1, <3>2 DEF FreshInFlight
  <2>7. FreshConfirmation'
    <3> SUFFICES ASSUME NEW q \in Peers, connected(q)'
                 PROVE  heard'[Other(q)] <= KeepAliveTimeout - 1 + AgeLimit(q)
                                            + last_ingress_packet'[q].age
      BY DEF FreshConfirmation
    <3>1. ingress_works(q)'
      BY DEF connected, ingress_works
    <3>2. connected(q)
      BY <2>2, <3>1 DEF connected, ingress_works
    <3>3. QED
      BY <1>a, <2>1, <2>2, <3>1, <3>2, ClockTypes, OtherPeer DEF FreshConfirmation
  <2>8. QED
    BY <2>4, <2>5, <2>6, <2>7 DEF FreshnessInv
<1>7. CASE UNCHANGED allVars
  <2>1. UNCHANGED <<last_ingress_packet, heard, keep_alive, net>>
    BY <1>7 DEF allVars, vars, history, state, tasks
  <2>2. QED
    BY <2>1, <1>u, <1>v, <1>w DEF FreshnessInv
<1>8. QED
  BY <1>1, <1>2, <1>3, <1>4, <1>5, <1>6, <1>7 DEF HistoryNext

LEMMA FreshnessImplied ==
    HistoryTypeOK /\ FreshnessInv => ConnectedIsFresh
<1> SUFFICES ASSUME HistoryTypeOK, FreshnessInv, NEW p \in Peers, connected(p)
             PROVE  heard[Other(p)] <= FreshnessBound(p)
  BY DEF ConnectedIsFresh
<1>1. /\ last_ingress_packet[p].age \in 0 .. KeepAliveTimeout
      /\ heard[Other(p)] \in 0 .. HeardCap
  BY OtherPeer DEF HistoryTypeOK, TypeOK, IngressPacket
<1>2. last_ingress_packet[p].age <= KeepAliveTimeout - 1
  BY <1>1 DEF connected, is_timed_out
<1>3. heard[Other(p)] <= KeepAliveTimeout - 1 + AgeLimit(p) + last_ingress_packet[p].age
  BY DEF FreshnessInv, FreshConfirmation
<1>4. QED
  BY <1>1, <1>2, <1>3, ClockTypes, HeardCapType DEF FreshnessBound

\* connected() is never based on stale news: see ConnectedIsFresh.  With an
\* insecure transport packets of any age are believed, and nothing is claimed.
THEOREM Freshness == HistorySpec => []ConnectedIsFresh
<1>1. CASE Secure
  <2>1. HistoryInit => FreshnessInv
    BY FreshnessInit
  <2>2. HistoryTypeOK /\ FreshnessInv /\ [HistoryNext]_allVars => FreshnessInv'
    BY <1>1, FreshnessNext
  <2>3. QED
    BY <2>1, <2>2, HistoryTypeCorrect, FreshnessImplied, PTL DEF HistorySpec
<1>2. CASE ~Secure
  <2>1. ConnectedIsFresh
    BY <1>2 DEF ConnectedIsFresh
  <2>2. QED
    BY <2>1, PTL
<1>3. QED
  BY <1>1, <1>2

-----------------------------------------------------------------------------
(* The pinger's wake-up *)

\* Of the steps that owe an acknowledgement, and of those that consume a
\* wake-up, none leaves the former without the latter.
THEOREM AcknowledgeRemembered == Spec => []AcknowledgeNotForgotten
<1>1. Init => AcknowledgeNotForgotten
  BY DEF Init, AcknowledgeNotForgotten
<1>2. TypeOK /\ AcknowledgeNotForgotten /\ [Next]_vars => AcknowledgeNotForgotten'
  <2> SUFFICES ASSUME TypeOK, AcknowledgeNotForgotten, [Next]_vars
               PROVE  AcknowledgeNotForgotten'
    OBVIOUS
  <2> USE DEF AcknowledgeNotForgotten
  <2>t. /\ needs_connection_acknowledge \in [Peers -> BOOLEAN]
        /\ ping_needed \in [Peers -> BOOLEAN]
        /\ notifying \in [Peers -> BOOLEAN]
    BY DEF TypeOK
  <2>1. ASSUME NEW p \in Peers, Restart(p) PROVE AcknowledgeNotForgotten'
    BY <2>t, <2>1 DEF Restart
  <2>2. ASSUME NEW p \in Peers, NEW m \in net, Receive(p, m)
        PROVE  AcknowledgeNotForgotten'
    <3>1. ~notifying[p] /\ UNCHANGED ping_needed
      BY <2>2 DEF Receive
    <3>2. CASE decrypt(m)
      <4>1. /\ needs_connection_acknowledge' = [needs_connection_acknowledge EXCEPT
                   ![p] = needs_connection_acknowledge[p]
                          \/ is_timed_out(last_ingress_packet[p])]
            /\ notifying' = [notifying EXCEPT ![p] = is_timed_out(last_ingress_packet[p])]
        BY <2>2, <3>2 DEF Receive, on_ingress_packet
      <4>2. QED
        BY <2>t, <3>1, <4>1, Zenon
    <3>3. CASE ~decrypt(m)
      BY <2>2, <3>1, <3>3 DEF Receive
    <3>4. QED
      BY <3>2, <3>3
  <2>3. ASSUME NEW p \in Peers, NotifyPinger(p) PROVE AcknowledgeNotForgotten'
    BY <2>t, <2>3 DEF NotifyPinger, state
  <2>4. ASSUME NEW p \in Peers, PingerPostpones(p) PROVE AcknowledgeNotForgotten'
    BY <2>t, <2>4 DEF PingerPostpones, PingerWakes, state
  <2>5. ASSUME NEW p \in Peers, PingerPings(p) PROVE AcknowledgeNotForgotten'
    BY <2>t, <2>5 DEF PingerPings, PingerWakes
  <2>6. ASSUME UNCHANGED <<needs_connection_acknowledge, ping_needed, notifying>>
        PROVE  AcknowledgeNotForgotten'
    BY <2>6
  <2>7. ASSUME NEW p \in Peers, ReceiverFails(p) \/ PingerSends(p) \/ Send(p)
        PROVE  AcknowledgeNotForgotten'
    BY <2>6, <2>7 DEF ReceiverFails, PingerSends, Send, state, tasks
  <2>8. ASSUME (\E m \in net : Lose(m)) \/ Tick \/ UNCHANGED vars
        PROVE  AcknowledgeNotForgotten'
    BY <2>6, <2>8 DEF Lose, Tick, vars, state, tasks
  <2>9. QED
    BY <2>1, <2>2, <2>3, <2>4, <2>5, <2>7, <2>8 DEF Next
<1>3. QED
  BY <1>1, <1>2, TypeCorrect, PTL DEF Spec

-----------------------------------------------------------------------------
(* Keep alive messages do not answer each other *)

LEMMA StormNext ==
    HistoryTypeOK /\ StormInv /\ [HistoryNext]_allVars => StormInv'
<1> SUFFICES ASSUME HistoryTypeOK, StormInv, [HistoryNext]_allVars
             PROVE  StormInv'
  OBVIOUS
<1>t. /\ last_ingress_packet \in [Peers -> IngressPacket]
      /\ last_egress_packet_time \in [Peers -> 0 .. KeepAliveInterval]
      /\ needs_connection_acknowledge \in [Peers -> BOOLEAN]
      /\ keep_alive \in [Peers -> Message \cup {NoMessage}]
      /\ pings \in [Peers -> Nat]
  BY DEF HistoryTypeOK, TypeOK
<1> DEFINE Storm(p) ==
        /\ pings[p] <= 2
        /\ pings[p] > 0 /\ keep_alive[p] = NoMessage => ~egress_is_due(p)
        /\ pings[p] = 1 /\ needs_connection_acknowledge[p] => ingress_works(p)
        /\ pings[p] = 2 => ~needs_connection_acknowledge[p] /\ ingress_works(p)
<1>a. \A p \in Peers : Storm(p)
  BY DEF StormInv
<1>b. (\A p \in Peers : Storm(p)') => StormInv'
  BY DEF StormInv
\* A step that leaves alone what Storm(p) depends on.
<1>u. ASSUME NEW p \in Peers, pings'[p] = pings[p],
             keep_alive'[p] = keep_alive[p],
             last_egress_packet_time'[p] = last_egress_packet_time[p],
             needs_connection_acknowledge'[p] = needs_connection_acknowledge[p],
             last_ingress_packet'[p] = last_ingress_packet[p]
      PROVE  Storm(p)'
  BY <1>a, <1>u DEF egress_is_due, ingress_works, is_timed_out
<1>z. ASSUME NEW p \in Peers, pings'[p] = 0 PROVE Storm(p)'
  BY <1>z
<1> HIDE DEF Storm
<1>1. ASSUME NEW p \in Peers, HRestart(p), NEW q \in Peers PROVE Storm(q)'
  <2>1. CASE q = p
    BY <1>1, <1>t, <1>z, <2>1 DEF HRestart
  <2>2. CASE q # p
    BY <1>1, <1>t, <1>u, <2>2 DEF HRestart, Restart
  <2>3. QED
    BY <2>1, <2>2
<1>2. ASSUME NEW p \in Peers, NEW m \in net, HReceive(p, m), NEW q \in Peers
      PROVE  Storm(q)'
  <2>1. UNCHANGED <<pings, keep_alive, last_egress_packet_time>>
    BY <1>2 DEF HReceive, Receive
  <2>2. CASE decrypt(m) /\ q = p
    <3>1. /\ last_ingress_packet'[q] = [age |-> 0, egress_works |-> m.egress_works]
          /\ needs_connection_acknowledge'[q] =
                 (needs_connection_acknowledge[q] \/ is_timed_out(last_ingress_packet[q]))
      BY <1>2, <1>t, <2>2 DEF HReceive, Receive, on_ingress_packet
    <3>2. ingress_works(q)'
      BY <3>1 DEF ingress_works, is_timed_out
    <3>3. pings[q] = 2 => ~needs_connection_acknowledge'[q]
      BY <1>a, <3>1 DEF Storm, ingress_works
    <3>4. QED
      BY <1>a, <2>1, <3>2, <3>3 DEF Storm, egress_is_due
  <2>3. CASE ~(decrypt(m) /\ q = p)
    BY <1>2, <1>t, <1>u, <2>1, <2>3 DEF HReceive, Receive, on_ingress_packet
  <2>4. QED
    BY <2>2, <2>3
<1>3. ASSUME NEW p \in Peers, HPingerPings(p), NEW q \in Peers PROVE Storm(q)'
  <2>1. /\ keep_alive[p] = NoMessage
        /\ needs_connection_acknowledge[p] \/ egress_is_due(p)
        /\ needs_connection_acknowledge' = [needs_connection_acknowledge EXCEPT ![p] = FALSE]
        /\ keep_alive' = [keep_alive EXCEPT ![p] = NewMessage(p)]
        /\ pings' = [pings EXCEPT ![p] = pings[p] + 1]
        /\ UNCHANGED <<last_ingress_packet, last_egress_packet_time>>
    BY <1>3 DEF HPingerPings, PingerPings, PingerWakes
  <2>2. CASE q = p
    <3>1. keep_alive'[q] # NoMessage
      BY <1>t, <2>1, <2>2, NewMessageType, NoMessageAssumption DEF HistoryTypeOK
    <3>2. pings'[q] = pings[q] + 1 /\ ~needs_connection_acknowledge'[q] /\ pings[q] \in Nat
      BY <1>t, <2>1, <2>2
    <3>3. pings[q] > 0 => pings[q] = 1 /\ ingress_works(q)
      BY <1>a, <2>1, <2>2, <3>2 DEF Storm
    <3>4. ingress_works(q)' = ingress_works(q)
      BY <2>1 DEF ingress_works, is_timed_out
    <3>5. QED
      BY <3>1, <3>2, <3>3, <3>4 DEF Storm
  <2>3. CASE q # p
    BY <1>t, <1>u, <2>1, <2>3
  <2>4. QED
    BY <2>2, <2>3
<1>4. ASSUME NEW p \in Peers, HOther(p), NEW q \in Peers PROVE Storm(q)'
  <2>1. /\ UNCHANGED <<pings, last_ingress_packet, needs_connection_acknowledge>>
        /\ \/ UNCHANGED <<keep_alive, last_egress_packet_time>>
           \/ /\ last_egress_packet_time' = [last_egress_packet_time EXCEPT ![p] = 0]
              /\ keep_alive' = [keep_alive EXCEPT ![p] = NoMessage] \/ UNCHANGED keep_alive
    BY <1>4 DEF HOther, history, ReceiverFails, NotifyPinger, PingerPostpones, PingerSends,
               Send, on_egress_packet, state, tasks
  <2>2. CASE UNCHANGED <<keep_alive, last_egress_packet_time>> \/ q # p
    BY <1>t, <1>u, <2>1, <2>2
  <2>3. CASE last_egress_packet_time'[q] = 0
    <3>1. ~egress_is_due(q)'
      BY <2>3 DEF egress_is_due
    <3>2. ingress_works(q)' = ingress_works(q)
      BY <2>1 DEF ingress_works, is_timed_out
    <3>3. QED
      BY <1>a, <2>1, <3>1, <3>2 DEF Storm
  <2>4. QED
    BY <1>t, <2>1, <2>2, <2>3
<1>5. ASSUME NEW m \in net, HLose(m), NEW q \in Peers PROVE Storm(q)'
  BY <1>5, <1>u DEF HLose, Lose, history, state, tasks
<1>6. ASSUME HTick, NEW q \in Peers PROVE Storm(q)'
  BY <1>6, <1>z DEF HTick
<1>7. ASSUME UNCHANGED allVars, NEW q \in Peers PROVE Storm(q)'
  BY <1>7, <1>u DEF allVars, vars, history, state, tasks
<1>8. QED
  BY <1>b, <1>1, <1>2, <1>3, <1>4, <1>5, <1>6, <1>7 DEF HistoryNext

\* Two peers that have just heard each other do not answer each other's keep
\* alive messages for ever: see NoPingStorm.
THEOREM NoStorm == HistorySpec => []NoPingStorm
<1>1. HistoryInit => StormInv
  BY DEF HistoryInit, StormInv
<1>2. StormInv => NoPingStorm
  BY DEF StormInv, NoPingStorm
<1>3. QED
  BY <1>1, <1>2, StormNext, HistoryTypeCorrect, PTL DEF HistorySpec

-----------------------------------------------------------------------------
(* UdpTimely: its types and its times *)

LEMMA CalmTypes ==
    /\ MaxDelay \in Nat /\ MaxLosses \in Nat /\ Silence \in Nat /\ SettleTime \in Nat
    /\ SettleTime = 2 * Silence + MaxDelay + 1 /\ Silence < KeepAliveTimeout
    /\ MaxDelay < AgeCap /\ MaxDelay <= Silence
<1>1. (MaxLosses + 1) * KeepAliveInterval \in Nat
  BY CalmAssumption
<1> QED
  BY <1>1, CalmAssumption DEF Silence, SettleTime, AgeCap

LEMMA TimelyStep == [TimelyNext]_timelyVars => [Next]_vars
<1> SUFFICES ASSUME [TimelyNext]_timelyVars PROVE [Next]_vars
  OBVIOUS
<1>1. CASE ~calm /\ Next
  BY <1>1
<1>2. CASE CalmBegins
  BY <1>2 DEF CalmBegins
<1>3. CASE CalmStep
  <2>1. ASSUME NEW p \in Peers, Undisturbed(p) PROVE Next
    BY <2>1 DEF Undisturbed, Next
  <2>2. ASSUME NEW p \in Peers, TimelyPingerSends(p) \/ TimelySend(p) PROVE Next
    BY <2>2 DEF TimelyPingerSends, TimelySend, Next
  <2>3. ASSUME NEW p \in Peers, NEW m \in net, TimelyReceive(p, m) PROVE Next
    BY <2>3 DEF TimelyReceive, Next
  <2>4. ASSUME NEW m \in net, TimelyLose(m) PROVE Next
    BY <2>4 DEF TimelyLose, Next
  <2>5. CASE TimelyTick
    BY <2>5 DEF TimelyTick, Next
  <2> QED
    BY <1>3, <2>1, <2>2, <2>3, <2>4, <2>5 DEF CalmStep
<1>4. CASE UNCHANGED timelyVars
  BY <1>4 DEF timelyVars
<1> QED
  BY <1>1, <1>2, <1>3, <1>4 DEF TimelyNext

\* How many losses follow one another.
LEMMA LostTypes ==
    ASSUME TimelyTypeOK, NEW p \in Peers, Lost(p)
    PROVE  losses' \in [Peers -> 0 .. MaxLosses]
BY CalmTypes DEF Lost, TimelyTypeOK

LEMMA TimelyTypeNext ==
    TimelyTypeOK /\ [TimelyNext]_timelyVars => TimelyTypeOK'
<1> SUFFICES ASSUME TimelyTypeOK, [TimelyNext]_timelyVars PROVE TimelyTypeOK'
  OBVIOUS
<1>1. TypeOK'
  BY TypeNext, TimelyStep DEF TimelyTypeOK
<1>2. TypeOK /\ losses \in [Peers -> 0 .. MaxLosses] /\ calmFor \in 0 .. SettleTime
      /\ errors \in BOOLEAN /\ calm \in BOOLEAN
  BY DEF TimelyTypeOK
<1>3. errors' \in BOOLEAN /\ calm' \in BOOLEAN
  BY <1>2 DEF TimelyNext, CalmBegins, CalmStep, timelyVars, timing
<1>4. calmFor' \in 0 .. SettleTime
  <2>1. CASE CalmStep /\ ~UNCHANGED calmFor
    <3>1. calmFor' = Saturated(calmFor + 1, SettleTime)
      BY <2>1 DEF CalmStep, TimelyTick
    <3> QED
      BY <1>2, <3>1, CalmTypes DEF Saturated
  <2> QED
    BY <1>2, <2>1 DEF TimelyNext, CalmBegins, timelyVars, timing
<1>5. losses' \in [Peers -> 0 .. MaxLosses]
  <2>1. ASSUME NEW m \in Message, SentOrLost(m) PROVE losses' \in [Peers -> 0 .. MaxLosses]
    BY <1>2, <2>1, LostTypes DEF SentOrLost, Message
  <2>2. ASSUME NEW p \in Peers, TimelyPingerSends(p) \/ TimelySend(p)
        PROVE  losses' \in [Peers -> 0 .. MaxLosses]
    <3>1. NewMessage(p) \in Message /\ (keep_alive[p] # NoMessage => keep_alive[p] \in Message)
      BY <1>2, NewMessageType DEF TypeOK
    <3> QED
      BY <1>2, <2>1, <2>2, <3>1 DEF TimelyPingerSends, TimelySend, PingerSends
  <2>3. ASSUME NEW p \in Peers, NEW m \in net, TimelyReceive(p, m)
        PROVE  losses' \in [Peers -> 0 .. MaxLosses]
    BY <1>2, <2>3, CalmTypes DEF TimelyReceive
  <2>4. ASSUME NEW m \in net, TimelyLose(m) PROVE losses' \in [Peers -> 0 .. MaxLosses]
    BY <1>2, <2>4, LostTypes DEF TimelyLose, TypeOK, Message
  <2>5. CASE UNCHANGED losses
    BY <1>2, <2>5
  <2> QED
    BY <2>2, <2>3, <2>4, <2>5
    DEF TimelyNext, CalmBegins, CalmStep, TimelyTick, Undisturbed, timelyVars, timing
<1> QED
  BY <1>1, <1>3, <1>4, <1>5 DEF TimelyTypeOK

\* The pinger is never late, in any state of the transport.
LEMMA PingsInTimeNext == TypeOK /\ PingsInTime /\ [Next]_vars => PingsInTime'
<1> SUFFICES ASSUME TypeOK, PingsInTime, [Next]_vars, NEW q \in Peers
             PROVE  next_ping_time'[q] + last_egress_packet_time'[q] <= KeepAliveInterval
  BY DEF PingsInTime
<1>1. /\ next_ping_time \in [Peers -> 0 .. KeepAliveInterval]
      /\ last_egress_packet_time \in [Peers -> 0 .. KeepAliveInterval]
      /\ next_ping_time[q] + last_egress_packet_time[q] <= KeepAliveInterval
  BY DEF TypeOK, PingsInTime
<1>2. ASSUME NEW p \in Peers, Restart(p) \/ PingerPostpones(p) \/ PingerSends(p)
      PROVE  next_ping_time'[q] + last_egress_packet_time'[q] <= KeepAliveInterval
  BY <1>1, <1>2 DEF Restart, PingerPostpones, PingerSends, on_egress_packet, state
<1>3. ASSUME NEW p \in Peers, Send(p)
      PROVE  next_ping_time'[q] + last_egress_packet_time'[q] <= KeepAliveInterval
  BY <1>1, <1>3 DEF Send, on_egress_packet, tasks
<1>4. CASE Tick
  BY <1>1, <1>4 DEF Tick, Saturated
<1>5. CASE UNCHANGED <<next_ping_time, last_egress_packet_time>>
  BY <1>1, <1>5
<1> QED
  BY <1>2, <1>3, <1>4, <1>5
  DEF Next, ReceiverFails, Receive, NotifyPinger, PingerPings, Lose, vars, state, tasks

LEMMA NetFiniteNext == IsFiniteSet(net) /\ [Next]_vars => IsFiniteSet(net')
<1> SUFFICES ASSUME IsFiniteSet(net), [Next]_vars PROVE IsFiniteSet(net')
  OBVIOUS
<1>1. ASSUME NEW S, net' \subseteq net \cup {S} PROVE IsFiniteSet(net')
  BY <1>1, FS_AddElement, FS_Subset
<1>2. ASSUME NEW p \in Peers, PingerSends(p) \/ Send(p) PROVE IsFiniteSet(net')
  BY <1>1, <1>2 DEF PingerSends, Send, SendTo
<1>3. CASE Tick
  <2>1. net' = {Older(m) : m \in net}
    BY <1>3 DEF Tick
  <2> DEFINE older == [m \in net |-> Older(m)]
  <2>2. older \in Surjection(net, net')
    BY <2>1 DEF Surjection
  <2> QED
    BY <2>2, FS_Surjection
<1>4. CASE net' \subseteq net
  BY <1>4, FS_Subset
<1> QED
  BY <1>2, <1>3, <1>4
  DEF Next, Restart, ReceiverFails, Receive, NotifyPinger, PingerPostpones, PingerPings, Lose,
      vars, state, tasks

LEMMA InTimeNext ==
    TimelyTypeOK /\ InTime /\ [TimelyNext]_timelyVars => InTime'
<1> SUFFICES ASSUME TimelyTypeOK, InTime, [TimelyNext]_timelyVars PROVE InTime'
  OBVIOUS
<1>1. TypeOK /\ [Next]_vars /\ calmFor \in Nat
  BY TimelyStep, CalmTypes DEF TimelyTypeOK
<1>2. ~calm' => calmFor' = 0
  BY DEF InTime, TimelyNext, CalmBegins, CalmStep, timelyVars, timing
<1>3. ASSUME NEW q \in Peers, keep_alive'[q] # NoMessage
      PROVE  keep_alive'[q].to = Other(q)
  <2>1. keep_alive \in [Peers -> Message \cup {NoMessage}]
    BY <1>1 DEF TypeOK
  <2>2. keep_alive[q] # NoMessage => keep_alive[q].to = Other(q)
    BY DEF InTime
  <2>3. ASSUME NEW p \in Peers, PingerPings(p)
        PROVE  keep_alive'[q] = keep_alive[q] \/ keep_alive'[q].to = Other(q)
    BY <2>1, <2>3 DEF PingerPings, NewMessage
  <2>4. ASSUME NEW p \in Peers, PingerSends(p) \/ Restart(p)
        PROVE  keep_alive'[q] = keep_alive[q]
    BY <1>3, <2>1, <2>4 DEF PingerSends, Restart
  <2>5. ASSUME Tick
        PROVE  keep_alive'[q].to = Other(q)
    <3>1. keep_alive[q] # NoMessage /\ keep_alive'[q] = Older(keep_alive[q])
      BY <1>3, <2>5 DEF Tick
    <3> QED
      BY <2>1, <2>2, <3>1, OlderType
  <2>6. CASE keep_alive' = keep_alive
    BY <1>3, <2>2, <2>6
  <2> QED
    BY <1>1, <1>3, <2>2, <2>3, <2>4, <2>5, <2>6
    DEF Next, ReceiverFails, Receive, NotifyPinger, PingerPostpones, Send, Lose,
        vars, state, tasks
<1>4. ASSUME calmFor' > 0
      PROVE  /\ \A p \in Peers : keep_alive'[p] # NoMessage => keep_alive'[p].age = 0
             /\ \A m \in net' : m.age <= MaxDelay
  <2>1. CASE TimelyTick
    <3>1. \A p \in Peers : keep_alive'[p] = NoMessage
      BY <2>1 DEF TimelyTick, Tick
    <3>2. ASSUME NEW m \in net, m.age < MaxDelay
          PROVE  Older(m).age <= MaxDelay
      <4>1. m \in Message /\ m.age \in Nat
        BY <1>1 DEF TypeOK, Message
      <4> QED
        BY <3>2, <4>1, OlderType, CalmTypes, ClockTypes
    <3> QED
      BY <2>1, <3>1, <3>2 DEF TimelyTick, Tick
  <2>2. ASSUME calmFor > 0
        PROVE  /\ keep_alive \in [Peers -> Message \cup {NoMessage}]
               /\ \A p \in Peers : keep_alive[p] # NoMessage => keep_alive[p].age = 0
               /\ \A m \in net : m.age <= MaxDelay
    BY <1>1, <2>2 DEF InTime, TypeOK
  <2>3. \A p \in Peers : NewMessage(p).age = 0 /\ 0 <= MaxDelay
    BY CalmTypes DEF NewMessage
  <2>4. ASSUME NEW p \in Peers, Undisturbed(p), calmFor' = calmFor
        PROVE  /\ \A q \in Peers : keep_alive'[q] # NoMessage => keep_alive'[q].age = 0
               /\ \A m \in net' : m.age <= MaxDelay
    BY <1>4, <2>2, <2>3, <2>4
    DEF Undisturbed, NotifyPinger, PingerPostpones, PingerPings
  <2>5. ASSUME NEW p \in Peers, TimelyPingerSends(p) \/ TimelySend(p), calmFor' = calmFor
        PROVE  /\ \A q \in Peers : keep_alive'[q] # NoMessage => keep_alive'[q].age = 0
               /\ \A m \in net' : m.age <= MaxDelay
    BY <1>4, <2>2, <2>3, <2>5
    DEF TimelyPingerSends, TimelySend, PingerSends, Send, SendTo, tasks
  <2>6. ASSUME keep_alive' = keep_alive, net' \subseteq net, calmFor' = calmFor
        PROVE  /\ \A q \in Peers : keep_alive'[q] # NoMessage => keep_alive'[q].age = 0
               /\ \A m \in net' : m.age <= MaxDelay
    BY <1>4, <2>2, <2>6
  <2>7. CASE CalmStep
    BY <2>1, <2>4, <2>5, <2>6, <2>7
    DEF CalmStep, TimelyReceive, Receive, TimelyLose, Lose, tasks
  <2>8. CASE ~calm /\ UNCHANGED timing
    BY <1>4, <2>8 DEF InTime, timing
  <2>9. CASE CalmBegins \/ UNCHANGED timelyVars
    BY <2>6, <2>9 DEF CalmBegins, timelyVars, timing, vars, tasks
  <2> QED
    BY <2>7, <2>8, <2>9 DEF TimelyNext
<1> QED
  BY <1>2, <1>3, <1>4 DEF InTime

-----------------------------------------------------------------------------
(* UdpTimely: for how long a peer hears nothing *)

LEMMA FinitePart ==
    ASSUME NEW S, IsFiniteSet(S), NEW T, T \subseteq S
    PROVE  IsFiniteSet(T) /\ Cardinality(T) \in Nat /\ Cardinality(T) <= Cardinality(S)
BY FS_Subset, FS_CardinalityType

\* One datagram more is worth one KEEP_ALIVE_INTERVAL.
LEMMA Slots ==
    ASSUME NEW m \in Nat, NEW n \in Nat
    PROVE  /\ m * KeepAliveInterval \in Nat
           /\ (m + 1) * KeepAliveInterval = m * KeepAliveInterval + KeepAliveInterval
           /\ m <= n => m * KeepAliveInterval <= n * KeepAliveInterval
<1>1. ASSUME m <= n
      PROVE  m * KeepAliveInterval <= n * KeepAliveInterval
  <2>1. PICK d \in Nat : n = m + d
    BY <1>1
  <2>2. n * KeepAliveInterval = m * KeepAliveInterval + d * KeepAliveInterval
    BY <2>1
  <2>3. d * KeepAliveInterval \in Nat /\ m * KeepAliveInterval \in Nat
    OBVIOUS
  <2> QED
    BY <2>2, <2>3
<1> QED
  BY <1>1

ComingTypeOK ==
    /\ calmFor \in Nat
    /\ \A m : IsFiniteSet(ComingBefore(m)) /\ Cardinality(ComingBefore(m)) \in Nat
    /\ \A p \in Peers :
           /\ losses[p] \in Nat /\ losses[p] <= MaxLosses
           /\ last_ingress_packet[p].age \in Nat
           /\ last_ingress_packet[p].age <= KeepAliveTimeout
           /\ last_egress_packet_time[p] \in Nat
           /\ last_egress_packet_time[p] <= KeepAliveInterval
           /\ IsFiniteSet(Coming(p)) /\ Cardinality(Coming(p)) \in Nat
           /\ \A m \in Coming(p) : m \in Message /\ m.to = p /\ m.age \in Nat

LEMMA ComingTypes == TimelyTypeOK /\ IsFiniteSet(net) => ComingTypeOK
<1> SUFFICES ASSUME TimelyTypeOK, IsFiniteSet(net) PROVE ComingTypeOK
  OBVIOUS
<1>1. /\ net \subseteq Message
      /\ calmFor \in 0 .. SettleTime /\ losses \in [Peers -> 0 .. MaxLosses]
      /\ last_ingress_packet \in [Peers -> IngressPacket]
      /\ last_egress_packet_time \in [Peers -> 0 .. KeepAliveInterval]
  BY DEF TimelyTypeOK, TypeOK
<1>2. \A p : Coming(p) \subseteq net /\ \A m : ComingBefore(m) \subseteq net
  BY DEF Coming, ComingBefore
<1>3. \A m \in Message : m.age \in Nat
  BY DEF Message
<1> QED
  BY <1>1, <1>2, <1>3, CalmTypes, FinitePart DEF IngressPacket, Coming, ComingTypeOK

\* A silence that is not too long for fewer datagrams is not too long for more.
LEMMA WithinMore ==
    ASSUME NEW silence \in Nat, NEW m \in Nat, NEW n \in Nat, NEW rest \in Nat, m <= n,
           silence <= m * KeepAliveInterval + rest
    PROVE  silence <= n * KeepAliveInterval + rest
BY Slots

\* As long as the losses make up for the datagrams that come no more.
LEMMA HeardKept ==
    ASSUME ComingTypeOK, ComingTypeOK', NEW p \in Peers, Heard(p),
           last_ingress_packet'[p] = last_ingress_packet[p], calmFor' = calmFor,
           last_egress_packet_time'[Other(p)] = last_egress_packet_time[Other(p)],
           losses[p] + Cardinality(Coming(p)) <= losses'[p] + Cardinality(Coming(p)'),
           \A m \in Coming(p)' :
               /\ m \in Coming(p)
               /\ losses[p] + Cardinality(ComingBefore(m))
                      <= losses'[p] + Cardinality(ComingBefore(m)')
    PROVE  Heard(p)'
<1> DEFINE e == last_egress_packet_time[Other(p)]
           all == losses[p] + Cardinality(Coming(p))
           all1 == losses'[p] + Cardinality(Coming(p)')
<1>1. all \in Nat /\ all1 \in Nat /\ e \in Nat /\ calmFor \in Nat
      /\ last_ingress_packet[p].age \in Nat
  BY OtherPeer DEF ComingTypeOK
<1>2. \/ calmFor' <= all1 * KeepAliveInterval + e
      \/ last_ingress_packet'[p].age <= all1 * KeepAliveInterval + e
  <2>1. \/ calmFor <= all * KeepAliveInterval + e
        \/ last_ingress_packet[p].age <= all * KeepAliveInterval + e
    BY DEF Heard, Within
  <2>2. all <= all1
    OBVIOUS
  <2> HIDE DEF all, all1, e
  <2> QED
    BY <1>1, <2>1, <2>2, WithinMore
<1>3. ASSUME NEW m \in Coming(p)'
      PROVE  LET b1 == losses'[p] + Cardinality(ComingBefore(m)') + 1
             IN  \/ calmFor' <= b1 * KeepAliveInterval + m.age
                 \/ last_ingress_packet'[p].age <= b1 * KeepAliveInterval + m.age
  <2> DEFINE b == losses[p] + Cardinality(ComingBefore(m)) + 1
             b1 == losses'[p] + Cardinality(ComingBefore(m)') + 1
  <2>1. m \in Coming(p) /\ b \in Nat /\ b1 \in Nat /\ m.age \in Nat /\ b <= b1
    BY <1>3 DEF ComingTypeOK
  <2>2. \/ calmFor <= b * KeepAliveInterval + m.age
        \/ last_ingress_packet[p].age <= b * KeepAliveInterval + m.age
    BY <2>1 DEF Heard, Within
  <2> HIDE DEF b, b1
  <2>3. \/ calmFor <= b1 * KeepAliveInterval + m.age
        \/ last_ingress_packet[p].age <= b1 * KeepAliveInterval + m.age
    BY <1>1, <2>1, <2>2, WithinMore
  <2> QED
    BY <2>3 DEF b1
<1> QED
  BY <1>2, <1>3 DEF Heard, Within

\* When the calm begins, or p takes in a packet, there has been no silence.
LEMMA HeardNow ==
    ASSUME ComingTypeOK', NEW p \in Peers, calmFor' = 0 \/ last_ingress_packet'[p].age = 0
    PROVE  Heard(p)'
<1>1. last_egress_packet_time'[Other(p)] \in Nat /\ losses'[p] + Cardinality(Coming(p)') \in Nat
  BY OtherPeer DEF ComingTypeOK
<1>2. (losses'[p] + Cardinality(Coming(p)')) * KeepAliveInterval \in Nat
  BY <1>1, Slots
<1>3. ASSUME NEW m \in Coming(p)'
      PROVE  0 <= (losses'[p] + Cardinality(ComingBefore(m)') + 1) * KeepAliveInterval + m.age
  <2> DEFINE n == losses'[p] + Cardinality(ComingBefore(m)') + 1
  <2>1. n \in Nat /\ m.age \in Nat
    BY <1>3 DEF ComingTypeOK
  <2> HIDE DEF n
  <2>2. n * KeepAliveInterval \in Nat
    BY <2>1, Slots
  <2>3. 0 <= n * KeepAliveInterval + m.age
    BY <2>1, <2>2
  <2> QED
    BY <2>3 DEF n
<1> QED
  BY <1>1, <1>2, <1>3 DEF Heard, Within

\* The other peer sends a packet, which is lost or in flight from now on.
LEMMA HeardSent ==
    ASSUME ComingTypeOK, ComingTypeOK', NEW p \in Peers, Heard(p),
           NEW m \in Message, m.to = p, m.age = 0,
           last_ingress_packet'[p] = last_ingress_packet[p], calmFor' = calmFor,
           last_egress_packet_time'[Other(p)] = 0,
           \/ net' = net \cup {m} /\ losses'[p] = losses[p]
           \/ net' = net /\ losses'[p] = losses[p] + 1
    PROVE  Heard(p)'
<1> DEFINE l == losses[p]
           l1 == losses'[p]
           e == last_egress_packet_time[Other(p)]
           all == Cardinality(Coming(p))
           all1 == Cardinality(Coming(p)')
           before(n) == Cardinality(ComingBefore(n))
           before1(n) == Cardinality(ComingBefore(n)')
           within(k, age) == \/ calmFor <= k * KeepAliveInterval + age
                             \/ last_ingress_packet[p].age <= k * KeepAliveInterval + age
<1>1. /\ l \in Nat /\ l1 \in Nat /\ all \in Nat /\ all1 \in Nat /\ calmFor \in Nat
      /\ e \in Nat /\ e <= KeepAliveInterval /\ last_ingress_packet[p].age \in Nat
      /\ \A n : before(n) \in Nat /\ before1(n) \in Nat
  BY OtherPeer DEF ComingTypeOK
<1>2. /\ within(l + all, e)
      /\ \A n \in Coming(p) : n.age \in Nat /\ within(l + before(n) + 1, n.age)
  BY DEF Heard, Within, ComingTypeOK
<1>3. ASSUME NEW j \in Nat, NEW k \in Nat, NEW age \in Nat, j <= k, within(j, age)
      PROVE  within(k, age)
  BY <1>1, <1>3, WithinMore
\* The packet before this one was made a KEEP_ALIVE_INTERVAL ago at most.
<1>4. ASSUME NEW k \in Nat, within(k, e)
      PROVE  within(k + 1, 0)
  BY <1>1, <1>4, Slots
<1>5. SUFFICES /\ within(l1 + all1, 0)
               /\ \A n \in Coming(p)' : within(l1 + before1(n) + 1, n.age)
  BY DEF Heard, Within
<1>6. CASE net' = net /\ l1 = l + 1
  <2>1. Coming(p)' = Coming(p) /\ \A n \in Coming(p) : ComingBefore(n)' = ComingBefore(n)
    BY <1>6 DEF Coming, ComingBefore
  <2>2. all1 = all /\ \A n \in Coming(p) : before1(n) = before(n)
    BY <2>1
  <2> HIDE DEF within, l, l1, e, all, all1, before, before1
  <2>3. within(l1 + all1, 0)
    BY <1>1, <1>2, <1>4, <1>6, <2>2
  <2>4. ASSUME NEW n \in Coming(p)
        PROVE  within(l1 + before1(n) + 1, n.age)
    BY <1>1, <1>2, <1>3, <1>6, <2>2
  <2> QED
    BY <2>1, <2>3, <2>4
<1>7. CASE net' = net \cup {m} /\ l1 = l
  <2>1. /\ Coming(p)' = Coming(p) \cup {m}
        /\ \A n \in Coming(p) : ComingBefore(n)' = ComingBefore(n)
    <3>1. \A n \in Coming(p) : n.to = p /\ n.age \in Nat
      BY DEF ComingTypeOK
    <3>2. Coming(p)' = Coming(p) \cup {m}
      BY <1>1, <1>7 DEF Coming
    <3> QED
      BY <3>1, <3>2 DEF ComingBefore
  <2>2. ComingBefore(m)' = {n \in Coming(p) : n.age > 0}
    BY <2>1 DEF ComingBefore
  <2>3. within(l + before1(m) + 1, 0)
    <3>1. CASE \A n \in Coming(p) : n.age > 0
      <4>1. before1(m) = all
        BY <2>2, <3>1
      <4> HIDE DEF within, l, l1, e, all, all1, before, before1
      <4> QED
        BY <1>1, <1>2, <1>4, <4>1
    <3>2. CASE \E n \in Coming(p) : ~(n.age > 0)
      <4>1. PICK n \in Coming(p) : n.age = 0
        BY <1>2, <3>2
      <4>2. before1(m) = before(n)
        <5>1. n.to = p
          BY DEF ComingTypeOK
        <5>2. ComingBefore(n) = ComingBefore(m)'
          BY <2>2, <4>1, <5>1 DEF ComingBefore
        <5> QED
          BY <5>2
      <4> HIDE DEF within, l, l1, e, all, all1, before, before1
      <4> QED
        BY <1>2, <4>1, <4>2
    <3> QED
      BY <3>1, <3>2
  <2>4. all1 >= before1(m) + 1
    <3>1. ComingBefore(m)' \cup {m} \subseteq Coming(p)' /\ m \notin ComingBefore(m)'
      BY <2>1, <2>2
    <3>2. IsFiniteSet(Coming(p)') /\ IsFiniteSet(ComingBefore(m)')
      BY DEF ComingTypeOK
    <3>3. Cardinality(ComingBefore(m)' \cup {m}) = before1(m) + 1
      BY <3>1, <3>2, FS_AddElement
    <3> QED
      BY <3>1, <3>2, <3>3, FinitePart
  <2>5. \A n \in Coming(p) : before1(n) = before(n)
    BY <2>1
  <2> HIDE DEF within, l, l1, e, all, all1, before, before1
  <2>6. within(l1 + all1, 0)
    BY <1>1, <1>3, <1>7, <2>3, <2>4
  <2> QED
    BY <1>2, <1>7, <2>1, <2>3, <2>5, <2>6
<1> QED
  BY <1>6, <1>7

\* A datagram is lost, which counts if it was coming.
LEMMA HeardLost ==
    ASSUME ComingTypeOK, ComingTypeOK', NEW p \in Peers, Heard(p), NEW m \in net,
           net' = net \ {m}, last_ingress_packet'[p] = last_ingress_packet[p],
           calmFor' = calmFor,
           last_egress_packet_time'[Other(p)] = last_egress_packet_time[Other(p)],
           IF m \in Coming(p) THEN losses'[p] = losses[p] + 1 ELSE losses'[p] >= losses[p]
    PROVE  Heard(p)'
<1>1. Coming(p)' = Coming(p) \ {m}
  BY DEF Coming
<1>2. \A n \in Coming(p)' : ComingBefore(n)' = ComingBefore(n) \ {m}
  BY <1>1 DEF ComingBefore, ComingTypeOK
<1>3. /\ losses[p] \in Nat /\ losses'[p] \in Nat
      /\ IsFiniteSet(Coming(p)) /\ Cardinality(Coming(p)) \in Nat
      /\ \A n : IsFiniteSet(ComingBefore(n)) /\ Cardinality(ComingBefore(n)) \in Nat
  BY DEF ComingTypeOK
<1>4. losses[p] + Cardinality(Coming(p)) <= losses'[p] + Cardinality(Coming(p)')
  <2>1. Cardinality(Coming(p) \ {m}) =
            IF m \in Coming(p) THEN Cardinality(Coming(p)) - 1 ELSE Cardinality(Coming(p))
    BY <1>3, FS_RemoveElement
  <2> DEFINE k == Cardinality(Coming(p))
             k1 == Cardinality(Coming(p)')
  <2>2. k1 = IF m \in Coming(p) THEN k - 1 ELSE k
    BY <1>1, <2>1
  <2>3. k \in Nat
    BY <1>3
  <2> HIDE DEF k, k1
  <2>4. losses[p] + k <= losses'[p] + k1
    BY <1>3, <2>2, <2>3
  <2> QED
    BY <2>4 DEF k, k1
<1>5. ASSUME NEW n \in Coming(p)'
      PROVE  /\ n \in Coming(p)
             /\ losses[p] + Cardinality(ComingBefore(n))
                    <= losses'[p] + Cardinality(ComingBefore(n)')
  <2>1. n \in Coming(p) /\ (m \in ComingBefore(n) => m \in Coming(p))
    BY <1>1 DEF ComingBefore, ComingTypeOK
  <2> QED
    <3>1. Cardinality(ComingBefore(n) \ {m}) =
              IF m \in ComingBefore(n) THEN Cardinality(ComingBefore(n)) - 1
                                       ELSE Cardinality(ComingBefore(n))
      BY <1>3, FS_RemoveElement
    <3> DEFINE k == Cardinality(ComingBefore(n))
               k1 == Cardinality(ComingBefore(n)')
    <3>2. k1 = IF m \in ComingBefore(n) THEN k - 1 ELSE k
      BY <1>2, <3>1
    <3>3. k \in Nat
      BY <1>3
    <3> HIDE DEF k, k1
    <3>4. losses[p] + k <= losses'[p] + k1
      BY <1>3, <2>1, <3>2, <3>3
    <3> QED
      BY <2>1, <3>4 DEF k, k1
<1> QED
  BY <1>4, <1>5, HeardKept

\* No datagram is late in a tick of the calm, and none is taken for another one.
LEMMA OlderInTime ==
    ASSUME TimelyTypeOK, TimelyTick
    PROVE  /\ \A m \in net : /\ m \in Message /\ m.age \in Nat /\ m.age < MaxDelay
                             /\ Older(m) \in Message
                             /\ Older(m).to = m.to /\ Older(m).egress_works = m.egress_works
                             /\ Older(m).age = m.age + 1
           /\ \A m, n \in net : Older(m) = Older(n) => m = n
<1>1. ASSUME NEW m \in net
      PROVE  /\ m \in Message /\ m.age \in Nat /\ m.age < MaxDelay
             /\ Older(m) \in Message
             /\ Older(m).to = m.to /\ Older(m).egress_works = m.egress_works
             /\ Older(m).age = m.age + 1
  <2>1. m \in Message /\ m.age \in Nat /\ m.age < MaxDelay
    BY DEF TimelyTypeOK, TypeOK, TimelyTick, Message
  <2>2. AgeCap \in Nat /\ MaxDelay \in Nat /\ MaxDelay < AgeCap
    BY CalmTypes, ClockTypes
  <2> QED
    BY <2>1, <2>2, OlderType
<1>2. ASSUME NEW m \in net, NEW n \in net, Older(m) = Older(n)
      PROVE  m = n
  <2>1. m.to = n.to /\ m.egress_works = n.egress_works /\ m.age = n.age
    <3>1. m.age + 1 = n.age + 1 /\ m.age \in Nat /\ n.age \in Nat
      BY <1>1, <1>2, Zenon
    <3> QED
      BY <1>1, <1>2, <3>1
  <2> QED
    BY <1>1, <2>1 DEF Message
<1> QED
  BY <1>1, <1>2, Zenon

LEMMA OlderAsMany ==
    ASSUME TimelyTypeOK, TimelyTick, NEW S, S \subseteq net, IsFiniteSet(S)
    PROVE  Cardinality({Older(m) : m \in S}) = Cardinality(S)
<1> DEFINE T == {Older(m) : m \in S}
           older == [m \in S |-> Older(m)]
<1>1. \A m, n \in S : Older(m) = Older(n) => m = n
  BY OlderInTime
<1>2. older \in Bijection(S, T)
  <2>1. older \in [S -> T]
    OBVIOUS
  <2>2. \A m, n \in S : older[m] = older[n] => m = n
    BY <1>1
  <2>3. \A t \in T : \E m \in S : older[m] = t
    OBVIOUS
  <2> QED
    BY <2>1, <2>2, <2>3 DEF Bijection, Injection, Surjection, IsInjective
<1> QED
  BY <1>2, FS_Bijection DEF ExistsBijection

LEMMA HeardTick ==
    ASSUME TimelyTypeOK, ComingTypeOK, ComingTypeOK', PingsInTime, TimelyTick,
           NEW p \in Peers, Heard(p)
    PROVE  Heard(p)'
<1> DEFINE a == last_ingress_packet[p].age
           a1 == last_ingress_packet'[p].age
           e == last_egress_packet_time[Other(p)]
           e1 == last_egress_packet_time'[Other(p)]
<1>1. calmFor \in Nat /\ calmFor' \in Nat /\ calmFor' <= calmFor + 1
      /\ \A age \in Nat : age < MaxDelay => (age <= calmFor <=> age + 1 <= calmFor')
  <2>1. calmFor' = Saturated(calmFor + 1, SettleTime) /\ calmFor \in 0 .. SettleTime
    BY DEF TimelyTick, TimelyTypeOK
  <2> QED
    BY <2>1, CalmTypes DEF Saturated
<1>2. a \in Nat /\ a1 \in Nat /\ a1 <= a + 1
  <2>1. last_ingress_packet'[p] = IF a + 1 >= KeepAliveTimeout THEN NoIngress
                                  ELSE [last_ingress_packet[p] EXCEPT !.age = a + 1]
    BY DEF TimelyTick, Tick
  <2>2. a \in Nat /\ a <= KeepAliveTimeout /\ last_ingress_packet[p] \in IngressPacket
    BY DEF ComingTypeOK, TimelyTypeOK, TypeOK
  <2> QED
    BY <2>1, <2>2 DEF NoIngress, IngressPacket
<1>3. e \in Nat /\ e1 = e + 1
  <2>1. Other(p) \in Peers
    BY OtherPeer
  <2>2. /\ next_ping_time[Other(p)] \in 0 .. KeepAliveInterval
        /\ e \in 0 .. KeepAliveInterval
    BY <2>1 DEF TimelyTypeOK, TypeOK
  <2>3. next_ping_time[Other(p)] # 0 /\ next_ping_time[Other(p)] + e <= KeepAliveInterval
    BY <2>1 DEF TimelyTick, PingsInTime
  <2>4. e1 = Saturated(e + 1, KeepAliveInterval)
    BY <2>1 DEF TimelyTick, Tick
  <2> QED
    BY <2>2, <2>3, <2>4 DEF Saturated
<1>4. losses' = losses /\ net' = {Older(m) : m \in net}
  BY DEF TimelyTick, Tick
<1>5. Coming(p)' = {Older(m) : m \in Coming(p)}
  <2>1. Coming(p)' = {m \in net' : m.to = p /\ m.age <= calmFor'}
    BY DEF Coming
  <2>2. \A m \in net : (m.to = p /\ m.age <= calmFor)
                           <=> (Older(m).to = p /\ Older(m).age <= calmFor')
    BY <1>1, OlderInTime
  <2> QED
    BY <1>4, <2>1, <2>2 DEF Coming
<1>6. ASSUME NEW m \in Coming(p)
      PROVE  ComingBefore(Older(m))' = {Older(n) : n \in ComingBefore(m)}
  <2>1. m \in net /\ m.to = p /\ Coming(p) \subseteq net
    BY DEF Coming
  <2>2. Older(m).to = p /\ Older(m).age = m.age + 1 /\ m.age \in Nat
    BY <2>1, OlderInTime
  <2>3. ComingBefore(Older(m))' = {n \in Coming(p)' : n.age > Older(m).age}
    BY <2>2 DEF ComingBefore
  <2>4. ComingBefore(m) = {n \in Coming(p) : n.age > m.age}
    BY <2>1 DEF ComingBefore
  <2>5. \A n \in Coming(p) : n.age > m.age <=> Older(n).age > Older(m).age
    BY <2>1, <2>2, OlderInTime
  <2> QED
    BY <1>5, <2>3, <2>4, <2>5
<1>7. Cardinality(Coming(p)') = Cardinality(Coming(p))
  BY <1>5, OlderAsMany DEF ComingTypeOK, Coming
<1>8. ASSUME NEW m \in Coming(p)
      PROVE  Cardinality(ComingBefore(Older(m))') = Cardinality(ComingBefore(m))
  <2>1. ComingBefore(m) \subseteq net /\ IsFiniteSet(ComingBefore(m))
    BY DEF ComingTypeOK, ComingBefore, Coming
  <2> QED
    BY <1>6, <2>1, OlderAsMany
<1>9. ASSUME NEW k \in Nat, NEW age \in Nat,
             calmFor <= k * KeepAliveInterval + age \/ a <= k * KeepAliveInterval + age
      PROVE  \/ calmFor' <= k * KeepAliveInterval + (age + 1)
             \/ a1 <= k * KeepAliveInterval + (age + 1)
  <2>1. k * KeepAliveInterval \in Nat
    BY Slots
  <2> HIDE DEF a, a1
  <2> QED
    BY <1>1, <1>2, <1>9, <2>1
<1>10. LET k == losses'[p] + Cardinality(Coming(p)')
       IN  calmFor' <= k * KeepAliveInterval + e1 \/ a1 <= k * KeepAliveInterval + e1
  <2> DEFINE k == losses[p] + Cardinality(Coming(p))
  <2>1. k \in Nat
    BY DEF ComingTypeOK
  <2>2. calmFor <= k * KeepAliveInterval + e \/ a <= k * KeepAliveInterval + e
    BY DEF Heard, Within
  <2>3. k = losses'[p] + Cardinality(Coming(p)')
    BY <1>4, <1>7
  <2> HIDE DEF k, a, a1, e, e1
  <2>4. calmFor' <= k * KeepAliveInterval + e1 \/ a1 <= k * KeepAliveInterval + e1
    BY <1>3, <1>9, <2>1, <2>2
  <2> QED
    BY <2>3, <2>4
<1>11. ASSUME NEW n \in Coming(p)'
       PROVE  LET k == losses'[p] + Cardinality(ComingBefore(n)') + 1
              IN  calmFor' <= k * KeepAliveInterval + n.age \/ a1 <= k * KeepAliveInterval + n.age
  <2>1. PICK m \in Coming(p) : n = Older(m)
    BY <1>5
  <2> DEFINE k == losses[p] + Cardinality(ComingBefore(m)) + 1
  <2>2. k \in Nat /\ m.age \in Nat
    BY DEF ComingTypeOK
  <2>3. calmFor <= k * KeepAliveInterval + m.age \/ a <= k * KeepAliveInterval + m.age
    BY DEF Heard, Within
  <2>4. k = losses'[p] + Cardinality(ComingBefore(n)') + 1
    BY <1>4, <1>8, <2>1
  <2>5. n.age = m.age + 1
    BY <2>1, OlderInTime DEF Coming
  <2> HIDE DEF k, a, a1
  <2>6. calmFor' <= k * KeepAliveInterval + n.age \/ a1 <= k * KeepAliveInterval + n.age
    BY <1>9, <2>2, <2>3, <2>5
  <2> QED
    BY <2>4, <2>6
<1> QED
  BY <1>10, <1>11 DEF Heard, Within

\* Nothing that p hears or that is coming to it changes.
LEMMA HeardAsBefore ==
    ASSUME ComingTypeOK, ComingTypeOK', NEW p \in Peers, Heard(p),
           last_ingress_packet'[p] = last_ingress_packet[p], calmFor' = calmFor,
           last_egress_packet_time'[Other(p)] = last_egress_packet_time[Other(p)],
           losses'[p] = losses[p], Coming(p)' = Coming(p)
    PROVE  Heard(p)'
<1>1. \A m \in Coming(p) : ComingBefore(m)' = ComingBefore(m)
  BY DEF ComingBefore, ComingTypeOK
<1>2. losses[p] + Cardinality(Coming(p)) <= losses'[p] + Cardinality(Coming(p)')
  BY DEF ComingTypeOK
<1>3. ASSUME NEW m \in Coming(p)'
      PROVE  /\ m \in Coming(p)
             /\ losses[p] + Cardinality(ComingBefore(m))
                    <= losses'[p] + Cardinality(ComingBefore(m)')
  BY <1>1 DEF ComingTypeOK
<1> QED
  BY <1>2, <1>3, HeardKept

\* What has been in flight for no longer than the calm is accepted.
LEMMA AcceptedInCalm ==
    ASSUME TimelyTypeOK, InTime, NEW m \in net, m.age <= calmFor
    PROVE  decrypt(m)
<1>1. m.age \in Nat /\ m.to \in Peers /\ m.age <= MaxDelay
  <2>1. m \in Message /\ calmFor \in Nat
    BY CalmTypes DEF TimelyTypeOK, TypeOK
  <2> QED
    BY <2>1, CalmTypes DEF InTime, Message
<1>2. /\ ClockAhead(Other(m.to)) - ClockAhead(m.to) <= BAhead
      /\ ClockAhead(Other(m.to)) - ClockAhead(m.to) >= -BAhead
      /\ ClockAhead(Other(m.to)) - ClockAhead(m.to) \in Int
  BY <1>1 DEF ClockAhead, Other, Peers
<1>3. TimeDiff(m.to, m.age) = ClockAhead(Other(m.to)) - ClockAhead(m.to) - m.age
  BY DEF TimeDiff
<1>4. MaxDelay + BAhead <= MaxBehind /\ BAhead <= MaxAhead /\ MaxDelay \in Nat
  BY CalmAssumption
<1> DEFINE d == ClockAhead(Other(m.to)) - ClockAhead(m.to)
<1>5. d - m.age \in -MaxBehind .. MaxAhead
  <2> HIDE DEF d
  <2>1. d \in Int /\ d <= BAhead /\ d >= -BAhead
    BY <1>2 DEF d
  <2> QED
    BY <1>1, <1>4, <2>1
<1> QED
  BY <1>3, <1>5 DEF decrypt

\* Every step of a transport in the calm, and what p hears.
LEMMA HeardNext ==
    ASSUME SettledInv, ComingTypeOK, ComingTypeOK', ~errors, [TimelyNext]_timelyVars,
           NEW p \in Peers
    PROVE  Heard(p)'
<1>1. /\ TimelyTypeOK /\ TypeOK /\ PingsInTime /\ InTime /\ Heard(p)
      /\ Other(p) \in Peers /\ Other(p) # p /\ \A q \in Peers : q = p \/ q = Other(p)
      /\ Other(Other(p)) = p
  BY OtherPeer DEF SettledInv, TimelyTypeOK, Peers, Other
<1>2. CASE calmFor' = 0
  BY <1>2, HeardNow
<1>3. CASE TimelyTick
  BY <1>1, <1>3, HeardTick
<1>4. ASSUME UNCHANGED <<last_ingress_packet, last_egress_packet_time, net, losses, calmFor>>
      PROVE  Heard(p)'
  BY <1>1, <1>4, HeardAsBefore DEF Coming
<1>5. ASSUME NEW q \in Peers, NEW m \in net, TimelyReceive(q, m), calmFor' = calmFor
      PROVE  Heard(p)'
  <2>1. /\ m.to = q /\ net' \subseteq net /\ net \ net' \subseteq {m}
        /\ last_egress_packet_time' = last_egress_packet_time
        /\ last_ingress_packet \in [Peers -> IngressPacket]
        /\ losses \in [Peers -> 0 .. MaxLosses]
    BY <1>1, <1>5 DEF TimelyReceive, Receive, TypeOK, TimelyTypeOK
  <2>2. CASE q = p /\ decrypt(m)
    <3>1. last_ingress_packet'[p].age = 0
      BY <1>5, <2>1, <2>2 DEF TimelyReceive, Receive, on_ingress_packet
    <3> QED
      BY <3>1, HeardNow
  <2>3. CASE q # p \/ ~decrypt(m)
    <3>1. m \notin Coming(p)
      BY <1>1, <2>1, <2>3, AcceptedInCalm DEF Coming
    <3>2. Coming(p)' = Coming(p)
      BY <1>5, <2>1, <3>1 DEF Coming
    <3>3. last_ingress_packet'[p] = last_ingress_packet[p] /\ losses'[p] = losses[p]
      BY <1>5, <2>1, <2>3 DEF TimelyReceive, Receive, on_ingress_packet
    <3> QED
      BY <1>1, <1>5, <2>1, <3>2, <3>3, HeardAsBefore
  <2> QED
    BY <2>2, <2>3
<1>6. ASSUME NEW q \in Peers, NEW m \in Message, m.to = Other(q), m.age = 0, SentOrLost(m),
             SendTo(m), on_egress_packet(q), last_ingress_packet' = last_ingress_packet,
             calmFor' = calmFor
      PROVE  Heard(p)'
  <2>1. /\ last_egress_packet_time \in [Peers -> 0 .. KeepAliveInterval]
        /\ losses \in [Peers -> 0 .. MaxLosses]
    BY <1>1 DEF TypeOK, TimelyTypeOK
  <2>2. \/ net' = net \cup {m} /\ losses' = losses
        \/ net' = net /\ losses' = [losses EXCEPT ![m.to] = @ + 1]
    BY <1>6 DEF SendTo, SentOrLost, Lost
  <2>3. CASE q = p
    <3>1. last_egress_packet_time'[Other(p)] = last_egress_packet_time[Other(p)]
      BY <1>1, <1>6, <2>1, <2>3 DEF on_egress_packet
    <3>2. losses'[p] = losses[p] /\ Coming(p)' = Coming(p)
      BY <1>1, <1>6, <2>1, <2>2, <2>3 DEF Coming
    <3> QED
      BY <1>1, <1>6, <3>1, <3>2, HeardAsBefore
  <2>4. CASE q = Other(p)
    <3>1. last_egress_packet_time'[Other(p)] = 0
      BY <1>1, <1>6, <2>1, <2>4 DEF on_egress_packet
    <3>2. m.to = p /\ \/ net' = net \cup {m} /\ losses'[p] = losses[p]
                      \/ net' = net /\ losses'[p] = losses[p] + 1
      BY <1>1, <1>6, <2>1, <2>2, <2>4
    <3> QED
      BY <1>1, <1>6, <3>1, <3>2, HeardSent
  <2> QED
    BY <1>1, <2>3, <2>4
<1>7. ASSUME NEW m \in net, TimelyLose(m), calmFor' = calmFor
      PROVE  Heard(p)'
  <2>1. /\ net' = net \ {m} /\ m.to \in Peers
        /\ last_ingress_packet' = last_ingress_packet
        /\ last_egress_packet_time' = last_egress_packet_time
        /\ losses \in [Peers -> 0 .. MaxLosses]
    BY <1>1, <1>7 DEF TimelyLose, Lose, state, TypeOK, TimelyTypeOK, Message
  <2>2. IF m \in Coming(p) THEN losses'[p] = losses[p] + 1 ELSE losses'[p] >= losses[p]
    <3>1. CASE m.age > calmFor /\ UNCHANGED losses
      <4>1. m \notin Coming(p) /\ losses[p] \in Int
        <5>1. m.age \in Nat /\ calmFor \in Nat
          BY <1>1 DEF ComingTypeOK, TypeOK, Message
        <5> QED
          BY <2>1, <3>1, <5>1 DEF Coming
      <4> QED
        BY <3>1, <4>1
    <3>2. CASE Lost(m.to)
      BY <2>1, <3>2 DEF Lost, Coming
    <3> QED
      BY <1>7, <3>1, <3>2 DEF TimelyLose
  <2> QED
    BY <1>1, <1>7, <2>1, <2>2, HeardLost
<1>8. CASE CalmStep
  <2>1. ASSUME NEW q \in Peers, TimelySend(q), calmFor' = calmFor
        PROVE  Heard(p)'
    <3>1. NewMessage(q) \in Message /\ NewMessage(q).to = Other(q) /\ NewMessage(q).age = 0
      BY <1>1, NewMessageType DEF NewMessage
    <3>2. /\ SendTo(NewMessage(q)) /\ on_egress_packet(q) /\ SentOrLost(NewMessage(q))
          /\ last_ingress_packet' = last_ingress_packet
      BY <2>1 DEF TimelySend, Send
    <3> QED
      BY <1>6, <2>1, <3>1, <3>2
  <2>2. ASSUME NEW q \in Peers, TimelyPingerSends(q), calmFor' = calmFor, calmFor > 0
        PROVE  Heard(p)'
    <3>1. /\ keep_alive[q] # NoMessage /\ SendTo(keep_alive[q]) /\ on_egress_packet(q)
          /\ SentOrLost(keep_alive[q]) /\ last_ingress_packet' = last_ingress_packet
      BY <2>2 DEF TimelyPingerSends, PingerSends
    <3>2. keep_alive[q] \in Message /\ keep_alive[q].to = Other(q) /\ keep_alive[q].age = 0
      BY <1>1, <2>2, <3>1 DEF InTime, TypeOK
    <3> QED
      BY <1>6, <2>2, <3>1, <3>2
  <2>3. ASSUME NEW q \in Peers, Undisturbed(q), calmFor' = calmFor
        PROVE  Heard(p)'
    BY <1>4, <2>3 DEF Undisturbed, NotifyPinger, PingerPostpones, PingerPings, state
  <2>4. calmFor \in Nat
    BY DEF ComingTypeOK
  <2> QED
    BY <1>2, <1>3, <1>5, <1>7, <1>8, <2>1, <2>2, <2>3, <2>4 DEF CalmStep
<1>9. CASE ~calm /\ UNCHANGED timing
  BY <1>1, <1>2, <1>9 DEF InTime, timing
<1>10. CASE CalmBegins \/ UNCHANGED timelyVars
  BY <1>4, <1>10 DEF CalmBegins, timelyVars, timing, vars, state
<1> QED
  BY <1>8, <1>9, <1>10 DEF TimelyNext

LEMMA LeastIn ==
    ASSUME NEW S \in SUBSET Nat, S # {}
    PROVE  \E x \in S : \A y \in S : x <= y
<1>1. PICK x \in S : \A y \in S : <<y, x>> \notin OpToRel(<, Nat)
  BY NatLessThanWellFounded, WFMin
<1>2. ASSUME NEW y \in S
      PROVE  x <= y
  <2>1. y < x => <<y, x>> \in OpToRel(<, Nat)
    BY DEF OpToRel
  <2>2. ~(y < x)
    BY <1>1, <2>1, Zenon
  <2> QED
    BY <2>2
<1> QED
  BY <1>2

\* Of the datagrams that are coming, one is the oldest.
LEMMA OldestComing ==
    ASSUME TimelyTypeOK, ComingTypeOK, NEW p \in Peers, Coming(p) # {}
    PROVE  \E m \in Coming(p) : ComingBefore(m) = {}
<1> DEFINE S == {n \in Nat : \A m \in Coming(p) : m.age <= n}
<1>1. calmFor \in S /\ \A m \in Coming(p) : m.age \in Nat /\ m.to = p
  BY DEF ComingTypeOK, Coming
<1>2. PICK x \in S : \A y \in S : x <= y
  BY <1>1, LeastIn
<1>3. PICK m \in Coming(p) : m.age = x
  <2>1. SUFFICES ASSUME \A m \in Coming(p) : m.age < x PROVE FALSE
    BY <1>1, <1>2
  <2>2. PICK m \in Coming(p) : TRUE
    OBVIOUS
  <2>3. x - 1 \in S
    BY <1>1, <1>2, <2>1, <2>2
  <2> QED
    BY <1>2, <2>3
<1>4. ComingBefore(m) = {}
  BY <1>1, <1>2, <1>3 DEF ComingBefore
<1> QED
  BY <1>4

\* No silence of the calm is longer than Silence.
SilenceEnds == \A p \in Peers : Within(p, Silence)

LEMMA SilenceEndsAlways ==
    TimelyTypeOK /\ ComingTypeOK /\ InTime /\ (\A p \in Peers : Heard(p)) => SilenceEnds
<1> SUFFICES ASSUME TimelyTypeOK, ComingTypeOK, InTime, NEW p \in Peers, Heard(p)
             PROVE  Within(p, Silence)
  BY DEF SilenceEnds
<1> DEFINE l == losses[p]
           a == last_ingress_packet[p].age
           e == last_egress_packet_time[Other(p)]
<1>1. /\ l \in Nat /\ l <= MaxLosses /\ MaxLosses \in Nat /\ MaxDelay \in Nat /\ Silence \in Nat
      /\ e \in Nat /\ e <= KeepAliveInterval /\ a \in Nat /\ calmFor \in Nat
  BY OtherPeer, CalmTypes DEF ComingTypeOK
<1>2. Silence = (MaxLosses + 1) * KeepAliveInterval + MaxDelay
  BY DEF Silence
<1>3. /\ (l + 1) * KeepAliveInterval <= (MaxLosses + 1) * KeepAliveInterval
      /\ l * KeepAliveInterval + KeepAliveInterval = (l + 1) * KeepAliveInterval
      /\ l * KeepAliveInterval \in Nat /\ (l + 1) * KeepAliveInterval \in Nat
      /\ (MaxLosses + 1) * KeepAliveInterval \in Nat
  <2>1. l + 1 \in Nat /\ MaxLosses + 1 \in Nat /\ l + 1 <= MaxLosses + 1
    BY <1>1
  <2> HIDE DEF l
  <2> QED
    BY <1>1, <2>1, Slots
<1>4. CASE Coming(p) = {}
  <2>1. Cardinality(Coming(p)) = 0
    BY <1>4, FS_EmptySet
  <2>2. calmFor <= l * KeepAliveInterval + e \/ a <= l * KeepAliveInterval + e
    <3>1. l + Cardinality(Coming(p)) = l
      BY <1>1, <2>1
    <3> QED
      BY <3>1 DEF Heard, Within
  <2> HIDE DEF l, a, e
  <2>3. calmFor <= Silence \/ a <= Silence
    BY <1>1, <1>2, <1>3, <2>2
  <2> QED
    BY <2>3 DEF Within, a
<1>5. CASE Coming(p) # {}
  <2>1. PICK m \in Coming(p) : ComingBefore(m) = {}
    BY <1>5, OldestComing
  <2>2. m.age \in Nat /\ m \in net /\ (calmFor > 0 => m.age <= MaxDelay)
    BY DEF ComingTypeOK, Coming, InTime
  <2>3. calmFor <= (l + 1) * KeepAliveInterval + m.age \/ a <= (l + 1) * KeepAliveInterval + m.age
    <3>1. l + Cardinality(ComingBefore(m)) + 1 = l + 1
      BY <1>1, <2>1, FS_EmptySet
    <3> QED
      BY <3>1 DEF Heard, Within
  <2> HIDE DEF l, a, e
  <2>4. calmFor <= Silence \/ a <= Silence
    BY <1>1, <1>2, <1>3, <2>2, <2>3
  <2> QED
    BY <2>4 DEF Within, a
<1> QED
  BY <1>4, <1>5

-----------------------------------------------------------------------------
(* UdpTimely: what the peers tell each other *)

LEMMA NewIsMarked ==
    ASSUME TypeOK, SilenceEnds, NEW p \in Peers
    PROVE  Marked(NewMessage(p))
<1>1. last_ingress_packet[p].age \in Nat
  BY DEF TypeOK, IngressPacket
<1>2. CASE ingress_works(p)
  BY <1>2 DEF Marked, NewMessage
<1>3. CASE ~ingress_works(p)
  <2>1. ~(last_ingress_packet[p].age <= Silence)
    BY <1>1, <1>3, CalmTypes DEF ingress_works, is_timed_out
  <2>2. calmFor <= Silence + 0
    BY <2>1, CalmTypes DEF SilenceEnds, Within
  <2> QED
    BY <2>2 DEF Marked, NewMessage
<1> QED
  BY <1>2, <1>3

LEMMA MarkedNext ==
    ASSUME SettledInv, ComingTypeOK, SilenceEnds, ~errors, [TimelyNext]_timelyVars,
           TypeOK', ComingTypeOK'
    PROVE  /\ \A p \in Peers : keep_alive'[p] # NoMessage => Marked(keep_alive[p])'
           /\ \A m \in net' : Marked(m)'
<1>1. /\ TypeOK /\ TimelyTypeOK /\ InTime /\ calmFor \in Nat /\ calmFor' \in Nat /\ Silence \in Nat
      /\ keep_alive \in [Peers -> Message \cup {NoMessage}]
      /\ \A p \in Peers : keep_alive[p] # NoMessage => Marked(keep_alive[p])
      /\ \A m \in net : Marked(m) /\ m \in Message
      /\ \A m \in Message : m.age \in Nat
  BY CalmTypes DEF SettledInv, TimelyTypeOK, TypeOK, ComingTypeOK, Message
<1> DEFINE marked(m) == m.egress_works \/ calmFor' <= Silence + m.age
<1>2. SUFFICES /\ \A p \in Peers : keep_alive'[p] # NoMessage => marked(keep_alive'[p])
               /\ \A m \in net' : marked(m)
  BY DEF Marked
<1>3. CASE calmFor' = 0
  <2>1. \A m \in Message : marked(m)
    BY <1>1, <1>3
  <2> QED
    BY <2>1 DEF TypeOK
<1>4. CASE TimelyTick
  <2>1. \A p \in Peers : keep_alive'[p] = NoMessage
    BY <1>4 DEF TimelyTick, Tick
  <2>2. ASSUME NEW m \in net
        PROVE  marked(Older(m))
    <3>1. calmFor' <= calmFor + 1
      BY <1>1, <1>4 DEF TimelyTick, Saturated
    <3>2. m.egress_works \/ calmFor <= Silence + m.age
      BY <1>1 DEF Marked
    <3>3. m.age \in Nat /\ Older(m).age = m.age + 1 /\ Older(m).egress_works = m.egress_works
      BY <1>1, <1>4, OlderInTime
    <3> QED
      BY <1>1, <3>1, <3>2, <3>3
  <2> QED
    BY <1>4, <2>1, <2>2 DEF TimelyTick, Tick
<1>5. CASE calmFor' = calmFor /\ ~TimelyTick
  <2>1. /\ \A p \in Peers : keep_alive[p] # NoMessage => marked(keep_alive[p])
        /\ \A m \in net : marked(m)
        /\ \A p \in Peers : marked(NewMessage(p))
    BY <1>1, <1>5, NewIsMarked DEF Marked
  <2> HIDE DEF marked
  <2>2. ASSUME NEW p \in Peers, Undisturbed(p)
        PROVE  /\ \A q \in Peers : keep_alive'[q] # NoMessage => marked(keep_alive'[q])
               /\ \A m \in net' : marked(m)
    BY <1>1, <2>1, <2>2 DEF Undisturbed, NotifyPinger, PingerPostpones, PingerPings
  <2>3. ASSUME NEW p \in Peers, TimelyPingerSends(p) \/ TimelySend(p)
        PROVE  /\ \A q \in Peers : keep_alive'[q] # NoMessage => marked(keep_alive'[q])
               /\ \A m \in net' : marked(m)
    BY <1>1, <2>1, <2>3 DEF TimelyPingerSends, TimelySend, PingerSends, Send, SendTo, tasks
  <2>4. ASSUME keep_alive' = keep_alive, net' \subseteq net
        PROVE  /\ \A q \in Peers : keep_alive'[q] # NoMessage => marked(keep_alive'[q])
               /\ \A m \in net' : marked(m)
    BY <2>1, <2>4
  <2>5. CASE CalmStep
    BY <1>5, <2>2, <2>3, <2>4, <2>5
    DEF CalmStep, TimelyReceive, Receive, TimelyLose, Lose, tasks
  <2>6. CASE ~calm /\ UNCHANGED timing
    <3>1. calmFor' = 0
      BY <1>1, <2>6 DEF InTime, timing
    <3> QED
      BY <1>3, <3>1 DEF marked
  <2>7. CASE CalmBegins \/ UNCHANGED timelyVars
    BY <2>4, <2>7 DEF CalmBegins, timelyVars, timing, vars, tasks
  <2> QED
    BY <2>5, <2>6, <2>7 DEF TimelyNext
<1> QED
  BY <1>3, <1>4, <1>5 DEF TimelyNext, CalmStep, CalmBegins, timelyVars, timing

LEMMA ConfirmedNext ==
    ASSUME SettledInv, ComingTypeOK, SilenceEnds', ~errors, [TimelyNext]_timelyVars,
           ComingTypeOK', NEW p \in Peers
    PROVE  Confirmed(p)'
<1>1. /\ TypeOK /\ InTime /\ calmFor \in Nat /\ calmFor' \in Nat
      /\ Silence \in Nat /\ MaxDelay \in Nat
      /\ last_ingress_packet[p].age \in Nat /\ last_ingress_packet'[p].age \in Nat
      /\ last_ingress_packet \in [Peers -> IngressPacket]
      /\ Confirmed(p) /\ \A m \in net : Marked(m) /\ m.age \in Nat
  BY CalmTypes DEF SettledInv, TimelyTypeOK, TypeOK, ComingTypeOK, Message
<1>2. CASE calmFor' = 0
  BY <1>1, <1>2 DEF Confirmed
<1>3. CASE TimelyTick
  <2> DEFINE a == last_ingress_packet[p].age
  <2>1. last_ingress_packet'[p] = IF a + 1 >= KeepAliveTimeout THEN NoIngress
                                  ELSE [last_ingress_packet[p] EXCEPT !.age = a + 1]
    BY <1>3 DEF TimelyTick, Tick
  <2>2. CASE a + 1 >= KeepAliveTimeout
    <3>1. last_ingress_packet'[p].age = KeepAliveTimeout
      BY <2>1, <2>2 DEF NoIngress
    <3>2. calmFor' <= Silence
      BY <3>1, CalmTypes DEF SilenceEnds, Within
    <3> QED
      BY <1>1, <3>2 DEF Confirmed
  <2>3. CASE ~(a + 1 >= KeepAliveTimeout)
    <3>1. /\ last_ingress_packet'[p].age = a + 1
          /\ last_ingress_packet'[p].egress_works = last_ingress_packet[p].egress_works
      BY <1>1, <2>1, <2>3 DEF IngressPacket
    <3>2. calmFor' <= calmFor + 1
      BY <1>1, <1>3 DEF TimelyTick, Saturated
    <3> QED
      BY <1>1, <3>1, <3>2 DEF Confirmed
  <2> QED
    BY <2>2, <2>3
<1>4. ASSUME last_ingress_packet' = last_ingress_packet, calmFor' = calmFor
      PROVE  Confirmed(p)'
  BY <1>1, <1>4 DEF Confirmed
<1>5. ASSUME NEW q \in Peers, NEW m \in net, TimelyReceive(q, m), calmFor' = calmFor, calmFor > 0
      PROVE  Confirmed(p)'
  <2>1. CASE last_ingress_packet'[p] = [age |-> 0, egress_works |-> m.egress_works]
    <3>1. m.egress_works \/ calmFor <= Silence + m.age
      BY <1>1 DEF Marked
    <3>2. m.age <= MaxDelay
      BY <1>1, <1>5 DEF InTime
    <3> QED
      BY <1>1, <1>5, <2>1, <3>1, <3>2 DEF Confirmed
  <2>2. CASE last_ingress_packet'[p] = last_ingress_packet[p]
    BY <1>1, <1>5, <2>2 DEF Confirmed
  <2> QED
    BY <1>1, <1>5, <2>1, <2>2 DEF TimelyReceive, Receive, on_ingress_packet
<1>6. CASE CalmStep
  BY <1>1, <1>2, <1>3, <1>4, <1>5, <1>6
  DEF CalmStep, Undisturbed, NotifyPinger, PingerPostpones, PingerPings, TimelyPingerSends,
      PingerSends, TimelySend, Send, TimelyLose, Lose, state
<1>7. CASE ~calm /\ UNCHANGED timing
  BY <1>1, <1>2, <1>7 DEF InTime, timing
<1>8. CASE CalmBegins \/ UNCHANGED timelyVars
  BY <1>4, <1>8 DEF CalmBegins, timelyVars, timing, vars, state
<1> QED
  BY <1>6, <1>7, <1>8 DEF TimelyNext

-----------------------------------------------------------------------------
(* UdpTimely: the theorems *)

LEMMA SettledInit == TimelyInit \/ CalmInit => SettledInv
<1> SUFFICES ASSUME TimelyInit \/ CalmInit PROVE SettledInv
  OBVIOUS
<1>1. Init /\ errors \in BOOLEAN /\ calm \in BOOLEAN /\ calmFor = 0
      /\ losses = [p \in Peers |-> 0]
  BY CalmAssumption DEF TimelyInit, CalmInit
<1>2. TimelyTypeOK
  BY <1>1, TypeInit, CalmTypes DEF TimelyTypeOK
<1>3. IsFiniteSet(net)
  BY <1>1, FS_EmptySet DEF Init
<1>4. PingsInTime /\ InTime
  BY <1>1 DEF Init, PingsInTime, InTime
<1>5. ASSUME NEW p \in Peers
      PROVE  Heard(p) /\ Confirmed(p)
  <2>1. Coming(p) = {}
    BY <1>1 DEF Coming, Init
  <2>2. Cardinality(Coming(p)) = 0
    BY <2>1, FS_EmptySet
  <2>3. losses[p] = 0 /\ last_egress_packet_time[Other(p)] \in Nat
        /\ last_ingress_packet[p].age \in Nat
    BY <1>1, OtherPeer DEF Init, NoIngress
  <2> QED
    BY <1>1, <2>1, <2>2, <2>3, CalmTypes DEF Heard, Within, Confirmed
<1> QED
  BY <1>1, <1>2, <1>3, <1>4, <1>5 DEF SettledInv, Init

LEMMA SettledNext == SettledInv /\ [TimelyNext]_timelyVars => SettledInv'
<1> SUFFICES ASSUME SettledInv, [TimelyNext]_timelyVars PROVE SettledInv'
  OBVIOUS
<1>1. TimelyTypeOK' /\ TypeOK' /\ IsFiniteSet(net)' /\ PingsInTime' /\ InTime'
  <2>1. TimelyTypeOK /\ TypeOK /\ [Next]_vars
    BY TimelyStep DEF SettledInv, TimelyTypeOK
  <2> QED
    BY <2>1, TimelyTypeNext, NetFiniteNext, PingsInTimeNext, InTimeNext
    DEF SettledInv, TimelyTypeOK
<1>2. ComingTypeOK
  BY ComingTypes DEF SettledInv
<1>3. ComingTypeOK'
  BY <1>1, ComingTypes, PTL
<1>4. errors' = errors
  BY DEF TimelyNext, CalmBegins, CalmStep, timelyVars, timing
<1>5. ASSUME ~errors
      PROVE  /\ \A p \in Peers : Heard(p)' /\ Confirmed(p)'
             /\ \A p \in Peers : keep_alive'[p] # NoMessage => Marked(keep_alive[p])'
             /\ \A m \in net' : Marked(m)'
  <2>1. SilenceEnds
    BY <1>2, <1>5, SilenceEndsAlways DEF SettledInv
  <2>2. (\A p \in Peers : Heard(p))'
    BY <1>2, <1>3, <1>5, HeardNext
  <2>3. SilenceEnds'
    BY <1>1, <1>3, <2>2, SilenceEndsAlways, PTL
  <2> QED
    BY <1>1, <1>2, <1>3, <1>5, <2>1, <2>2, <2>3, MarkedNext, ConfirmedNext
<1> QED
  BY <1>1, <1>4, <1>5 DEF SettledInv

LEMMA SettledImplied == SettledInv => SettledConnected
<1> SUFFICES ASSUME SettledInv, ~errors, calmFor = SettleTime, NEW p \in Peers PROVE connected(p)
  BY DEF SettledConnected
<1>1. SilenceEnds /\ Confirmed(p)
  BY ComingTypes, SilenceEndsAlways DEF SettledInv
<1>2. last_ingress_packet[p].age \in Nat
  BY DEF SettledInv, TimelyTypeOK, TypeOK, IngressPacket
<1>3. last_ingress_packet[p].age <= Silence
  BY <1>1, CalmTypes DEF SilenceEnds, Within
<1>4. last_ingress_packet[p].egress_works
  BY <1>1, <1>2, <1>3, CalmTypes DEF Confirmed
<1> QED
  BY <1>2, <1>3, <1>4, CalmTypes DEF connected, is_timed_out

\* A calm that lasts for SettleTime connects the peers, whatever happened before
\* it, and they stay connected for as long as it goes on.
THEOREM CalmConnects == TimelySpec => []SettledConnected
BY SettledInit, SettledNext, SettledImplied, PTL DEF TimelySpec

\* The same of a calm that begins with the processes.
THEOREM CalmStartConnects == CalmSpec => []SettledConnected
<1>1. [CalmStep]_timelyVars => [TimelyNext]_timelyVars
  BY DEF TimelyNext
<1> QED
  BY <1>1, SettledInit, SettledNext, SettledImplied, PTL DEF CalmSpec
=============================================================================
