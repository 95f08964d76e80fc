--------------------------- MODULE UdpSecurerProofs ---------------------------
(***************************************************************************)
(* No nonce is used twice, for any number of tasks and ids and any rate,   *)
(* stall and step of the clock that IdsAssumption allows.                  *)
(***************************************************************************)
EXTENDS UdpSecurer, SequenceTheorems, TLAPS

\* How far the counter has come since an id was taken, while it has not wrapped
\* all the way around.
Distance(n) == Len(encrypted) + 1 - n

CounterInv ==
    \A n \in 1 .. Len(encrypted) :
        Distance(n) < Ids =>
            \/ packet_id = encrypted[n].id + Distance(n)
            \/ packet_id = encrypted[n].id + Distance(n) - Ids

\* An id does not return before all the others have been taken.
IdsOfPairs ==
    \A m, n \in 1 .. Len(encrypted) :
        m < n /\ n - m < Ids => encrypted[m].id # encrypted[n].id

\* What is being encrypted has a timestamp that was right, but for MaxStep, when
\* it was read, and was read at most MaxStall seconds ago.
StallInv ==
    \A t \in Tasks : timestamp[t] # None =>
        /\ since[t] <= now /\ now <= since[t] + MaxStall
        /\ since[t] <= timestamp[t] /\ timestamp[t] <= since[t] + MaxStep

StampInv ==
    \A n \in 1 .. Len(encrypted) :
        /\ encrypted[n].at <= now
        /\ encrypted[n].timestamp <= encrypted[n].at + MaxStep
        /\ encrypted[n].at <= encrypted[n].timestamp + MaxStall

\* No more packets than the rate allows since any of them.
RateInv ==
    \A n \in 1 .. Len(encrypted) :
        Distance(n) <= Rate * (now - encrypted[n].at) + thisSecond

RateOfPairs ==
    \A m, n \in 1 .. Len(encrypted) :
        m <= n => /\ encrypted[m].at <= encrypted[n].at
                  /\ n - m < Rate * (encrypted[n].at - encrypted[m].at + 1)

SecurerInv ==
    /\ TypeOK /\ CounterInv /\ IdsOfPairs
    /\ StallInv /\ StampInv /\ RateInv /\ RateOfPairs

USE NatAssumption

-----------------------------------------------------------------------------

\* A rate does not allow fewer packets in more seconds.
LEMMA Monotonic ==
    ASSUME NEW a \in Int, NEW b \in Int, a <= b
    PROVE  Rate * a <= Rate * b
<1>1. Rate \in Nat /\ b - a \in Nat
  OBVIOUS
<1>2. Rate * (b - a) >= 0
  BY <1>1
<1>3. Rate * (b - a) = Rate * b - Rate * a
  BY <1>1
<1> QED
  BY <1>1, <1>2, <1>3

\* Another second allows as many packets as the rate.
LEMMA OneMore ==
    ASSUME NEW a \in Int
    PROVE  Rate * (a + 1) = Rate * a + Rate
  OBVIOUS

\* What Append() makes of what has been encrypted.
LEMMA Appended ==
    ASSUME TypeOK, NEW e, encrypted' = Append(encrypted, e)
    PROVE  /\ Len(encrypted) \in Nat /\ Len(encrypted') = Len(encrypted) + 1
           /\ encrypted'[Len(encrypted) + 1] = e
           /\ \A n \in 1 .. Len(encrypted) : encrypted'[n] = encrypted[n]
  BY AppendProperties DEF TypeOK

LEMMA Elements ==
    ASSUME TypeOK, NEW n \in 1 .. Len(encrypted)
    PROVE  /\ n \in Nat /\ Len(encrypted) \in Nat
           /\ encrypted[n].timestamp \in Nat
           /\ encrypted[n].id \in 0 .. Ids - 1
           /\ encrypted[n].at \in Nat
<1>1. n \in DOMAIN encrypted /\ Len(encrypted) \in Nat
  BY DEF TypeOK
<1>2. encrypted[n] \in [timestamp : Nat, id : 0 .. Ids - 1, at : Nat]
  BY <1>1, ElementOfSeq DEF TypeOK
<1> QED
  BY <1>1, <1>2

-----------------------------------------------------------------------------

LEMMA InitInv == Init => SecurerInv
<1> SUFFICES ASSUME Init PROVE SecurerInv
  OBVIOUS
<1>1. TypeOK
  BY DEF Init, TypeOK
<1>2. Len(encrypted) = 0
  BY DEF Init
<1> QED
  BY <1>1, <1>2 DEF Init, SecurerInv, CounterInv, IdsOfPairs, StallInv, StampInv, RateInv, RateOfPairs

LEMMA TypeStep == TypeOK /\ [Next]_vars => TypeOK'
<1> SUFFICES ASSUME TypeOK, [Next]_vars PROVE TypeOK'
  OBVIOUS
<1> USE DEF TypeOK
<1>1. CASE Tick
  BY <1>1 DEF Tick
<1>2. CASE SetClock
  BY <1>2 DEF SetClock, senderVars
<1>3. ASSUME NEW t \in Tasks, ReadTimestamp(t) PROVE TypeOK'
  <2>1. now + offset \in Nat
    OBVIOUS
  <2>2. timestamp' \in [Tasks -> Nat \cup {None}] /\ since' \in [Tasks -> Nat]
    BY <1>3, <2>1 DEF ReadTimestamp, Clock
  <2> QED
    BY <1>3, <2>2 DEF ReadTimestamp
<1>4. ASSUME NEW t \in Tasks, TakePacketId(t) PROVE TypeOK'
  <2> DEFINE e == [timestamp |-> timestamp[t], id |-> packet_id, at |-> now]
  <2>1. e \in [timestamp : Nat, id : 0 .. Ids - 1, at : Nat]
    BY <1>4 DEF TakePacketId
  <2>2. encrypted' \in Seq([timestamp : Nat, id : 0 .. Ids - 1, at : Nat])
    BY <1>4, <2>1, AppendProperties DEF TakePacketId
  <2>3. packet_id' \in 0 .. Ids - 1
    BY <1>4 DEF TakePacketId, Next_id
  <2>4. timestamp' \in [Tasks -> Nat \cup {None}] /\ since' \in [Tasks -> Nat]
    BY <1>4 DEF TakePacketId
  <2> QED
    BY <1>4, <2>2, <2>3, <2>4 DEF TakePacketId
<1>5. CASE Restart
  BY <1>5 DEF Restart
<1>6. CASE Arrives
  BY <1>6 DEF Arrives, senderVars
<1>7. CASE PeerRestarts
  BY <1>7 DEF PeerRestarts, senderVars
<1>8. CASE UNCHANGED vars
  BY <1>8 DEF vars, senderVars
<1> QED
  BY <1>1, <1>2, <1>3, <1>4, <1>5, <1>6, <1>7, <1>8 DEF Next

\* Taking an id preserves what is known of the counter and of pairs of packets.
LEMMA TakeStep ==
    ASSUME SecurerInv, NEW t \in Tasks, TakePacketId(t)
    PROVE  CounterInv' /\ IdsOfPairs' /\ StampInv' /\ RateInv' /\ RateOfPairs'
<1> DEFINE e == [timestamp |-> timestamp[t], id |-> packet_id, at |-> now]
           N == Len(encrypted)
<1>1. TypeOK
  BY DEF SecurerInv
<1>2. /\ N \in Nat /\ Len(encrypted') = N + 1
      /\ encrypted'[N + 1] = e
      /\ \A n \in 1 .. N : encrypted'[n] = encrypted[n]
  <2>1. encrypted' = Append(encrypted, e)
    BY DEF TakePacketId
  <2> HIDE DEF e
  <2> QED
    BY <1>1, <2>1, Appended
<1>3. /\ timestamp[t] \in Nat /\ now \in Nat /\ thisSecond < Rate /\ thisSecond \in Nat
      /\ thisSecond' = thisSecond + 1 /\ now' = now
      /\ packet_id \in 0 .. Ids - 1 /\ packet_id' = Next_id
  BY <1>1 DEF TakePacketId, TypeOK
<1>4. \A n \in 1 .. N : /\ n \in Nat
                        /\ encrypted[n].timestamp \in Nat
                        /\ encrypted[n].id \in 0 .. Ids - 1
                        /\ encrypted[n].at \in Nat
  BY <1>1, Elements
<1>5. e.timestamp = timestamp[t] /\ e.id = packet_id /\ e.at = now
  OBVIOUS
<1> HIDE DEF e, N
<1>6. CounterInv'
  <2> SUFFICES ASSUME NEW n \in 1 .. N + 1, N + 1 + 1 - n < Ids
               PROVE  \/ packet_id' = encrypted'[n].id + (N + 1 + 1 - n)
                      \/ packet_id' = encrypted'[n].id + (N + 1 + 1 - n) - Ids
    BY <1>2 DEF CounterInv, Distance
  <2>1. CASE n = N + 1
    BY <2>1, <1>2, <1>3, <1>5 DEF Next_id
  <2>2. CASE n \in 1 .. N
    <3>1. \/ packet_id = encrypted[n].id + (N + 1 - n)
          \/ packet_id = encrypted[n].id + (N + 1 - n) - Ids
      BY <2>2, <1>2 DEF SecurerInv, CounterInv, Distance, N
    <3>2. encrypted'[n].id = encrypted[n].id /\ encrypted[n].id \in 0 .. Ids - 1
      BY <2>2, <1>2, <1>4
    <3>3. packet_id \in Int /\ N + 1 - n \in Nat \ {0} /\ N + 1 + 1 - n = (N + 1 - n) + 1
      BY <2>2, <1>2, <1>3
    <3>4. CASE packet_id = Ids - 1
      BY <3>1, <3>2, <3>3, <3>4, <1>3 DEF Next_id
    <3>5. CASE packet_id # Ids - 1
      BY <3>1, <3>2, <3>3, <3>5, <1>3 DEF Next_id
    <3> QED
      BY <3>4, <3>5
  <2> QED
    BY <2>1, <2>2, <1>2
<1>7. IdsOfPairs'
  <2> SUFFICES ASSUME NEW m \in 1 .. N + 1, NEW n \in 1 .. N + 1, m < n, n - m < Ids
               PROVE  encrypted'[m].id # encrypted'[n].id
    BY <1>2 DEF IdsOfPairs
  <2>1. CASE n \in 1 .. N
    BY <2>1, <1>2 DEF SecurerInv, IdsOfPairs, N
  <2>2. CASE n = N + 1
    <3>1. m \in 1 .. N
      BY <2>2, <1>2
    <3>2. \/ packet_id = encrypted[m].id + (N + 1 - m)
          \/ packet_id = encrypted[m].id + (N + 1 - m) - Ids
      BY <3>1, <2>2, <1>2 DEF SecurerInv, CounterInv, Distance, N
    <3> QED
      BY <3>1, <3>2, <2>2, <1>2, <1>4, <1>5
  <2> QED
    BY <2>1, <2>2, <1>2
<1>8. StampInv'
  <2>1. /\ since[t] \in Nat /\ since[t] <= now /\ now <= since[t] + MaxStall
        /\ since[t] <= timestamp[t] /\ timestamp[t] <= since[t] + MaxStep
    BY <1>1 DEF TypeOK, SecurerInv, StallInv, TakePacketId
  <2> SUFFICES ASSUME NEW n \in 1 .. N + 1
               PROVE  /\ encrypted'[n].at <= now
                      /\ encrypted'[n].timestamp <= encrypted'[n].at + MaxStep
                      /\ encrypted'[n].at <= encrypted'[n].timestamp + MaxStall
    BY <1>2, <1>3 DEF StampInv
  <2>2. CASE n = N + 1
    BY <2>1, <2>2, <1>2, <1>3, <1>5
  <2>3. CASE n \in 1 .. N
    BY <2>3, <1>2 DEF SecurerInv, StampInv, N
  <2> QED
    BY <2>2, <2>3, <1>2
<1>9. RateInv'
  <2> SUFFICES ASSUME NEW n \in 1 .. N + 1
               PROVE  N + 1 + 1 - n <= Rate * (now - encrypted'[n].at) + (thisSecond + 1)
    BY <1>2, <1>3 DEF RateInv, Distance
  <2>1. CASE n = N + 1
    <3>1. now - encrypted'[n].at = 0
      BY <2>1, <1>2, <1>3, <1>5
    <3>2. Rate * 0 = 0
      OBVIOUS
    <3> QED
      BY <3>1, <3>2, <2>1, <1>2, <1>3
  <2>2. CASE n \in 1 .. N
    <3>1. N + 1 - n <= Rate * (now - encrypted[n].at) + thisSecond
      BY <2>2, <1>2 DEF SecurerInv, RateInv, Distance, N
    <3>2. Rate * (now - encrypted[n].at) \in Int
      BY <2>2, <1>3, <1>4
    <3> QED
      BY <3>1, <3>2, <2>2, <1>2, <1>3
  <2> QED
    BY <2>1, <2>2, <1>2
<1>10. RateOfPairs'
  <2> SUFFICES ASSUME NEW m \in 1 .. N + 1, NEW n \in 1 .. N + 1, m <= n
               PROVE  /\ encrypted'[m].at <= encrypted'[n].at
                      /\ n - m < Rate * (encrypted'[n].at - encrypted'[m].at + 1)
    BY <1>2 DEF RateOfPairs
  <2>1. CASE n \in 1 .. N
    <3>1. m \in 1 .. N
      BY <2>1, <1>2
    <3> QED
      BY <2>1, <3>1, <1>2 DEF SecurerInv, RateOfPairs, N
  <2>2. CASE n = N + 1 /\ m = N + 1
    <3>1. encrypted'[m] = encrypted'[n] /\ encrypted'[n].at = now
      BY <2>2, <1>2, <1>5
    <3>2. encrypted'[n].at - encrypted'[m].at + 1 = 1 /\ n - m = 0
      BY <3>1, <2>2, <1>2, <1>3
    <3>3. Rate * 1 = Rate /\ 0 < Rate
      BY <1>3
    <3> QED
      BY <3>1, <3>2, <3>3, <1>3
  <2>3. CASE n = N + 1 /\ m \in 1 .. N
    <3>1. encrypted'[n].at = now /\ encrypted'[m] = encrypted[m] /\ encrypted[m].at \in Nat
      BY <2>3, <1>2, <1>4, <1>5
    <3>2. N + 1 - m <= Rate * (now - encrypted[m].at) + thisSecond
      BY <2>3, <1>2 DEF SecurerInv, RateInv, Distance, N
    <3>3. encrypted[m].at <= now
      BY <2>3 DEF SecurerInv, StampInv, N
    <3>4. now - encrypted[m].at \in Int
      BY <3>1, <1>3
    <3>5. Rate * (now - encrypted[m].at + 1) = Rate * (now - encrypted[m].at) + Rate
      BY <3>4, OneMore
    <3>6. Rate * (now - encrypted[m].at) \in Int
      BY <3>4
    <3> QED
      BY <3>1, <3>2, <3>3, <3>5, <3>6, <2>3, <1>2, <1>3
  <2> QED
    BY <2>1, <2>2, <2>3, <1>2
<1> QED
  BY <1>6, <1>7, <1>8, <1>9, <1>10

LEMMA TakeStallStep ==
    ASSUME SecurerInv, NEW t \in Tasks, TakePacketId(t)
    PROVE  StallInv'
<1>1. /\ now' = now
      /\ timestamp' = [timestamp EXCEPT ![t] = None]
      /\ since' = [since EXCEPT ![t] = 0]
      /\ timestamp \in [Tasks -> Nat \cup {None}] /\ since \in [Tasks -> Nat]
  BY DEF TakePacketId, SecurerInv, TypeOK
<1>2. \A u \in Tasks : timestamp'[u] # None => timestamp'[u] = timestamp[u] /\ since'[u] = since[u]
  BY <1>1
<1> QED
  BY <1>1, <1>2 DEF SecurerInv, StallInv

LEMMA TickStep ==
    ASSUME SecurerInv, Tick
    PROVE  StallInv' /\ StampInv' /\ RateInv'
<1>1. TypeOK /\ now \in Nat /\ now' = now + 1 /\ thisSecond' = 0 /\ thisSecond <= Rate
      /\ thisSecond \in Nat
      /\ UNCHANGED <<timestamp, since, encrypted>>
  BY DEF Tick, SecurerInv, TypeOK
<1>2. StallInv'
  BY <1>1 DEF Tick, SecurerInv, StallInv, TypeOK
<1>3. StampInv'
  <2>1. \A n \in 1 .. Len(encrypted) : encrypted[n].at \in Nat
    BY <1>1, Elements
  <2> QED
    BY <1>1, <2>1 DEF SecurerInv, StampInv
<1>4. RateInv'
  <2> SUFFICES ASSUME NEW n \in 1 .. Len(encrypted)
               PROVE  Distance(n) <= Rate * (now' - encrypted[n].at) + thisSecond'
    BY <1>1 DEF RateInv, Distance
  <2>1. Distance(n) <= Rate * (now - encrypted[n].at) + thisSecond
    BY DEF SecurerInv, RateInv
  <2>2. encrypted[n].at \in Nat /\ Distance(n) \in Int
    BY <1>1, Elements DEF Distance
  <2>3. now - encrypted[n].at \in Int /\ now + 1 - encrypted[n].at = now - encrypted[n].at + 1
    BY <1>1, <2>2
  <2>4. Rate * (now + 1 - encrypted[n].at) = Rate * (now - encrypted[n].at) + Rate
    BY <2>3, OneMore
  <2>5. Rate * (now - encrypted[n].at) \in Int
    BY <2>3
  <2>6. Distance(n) <= Rate * (now + 1 - encrypted[n].at)
    BY <1>1, <2>1, <2>2, <2>4, <2>5
  <2>7. now' - encrypted[n].at = now + 1 - encrypted[n].at
    BY <1>1, <2>2
  <2>8. Rate * (now' - encrypted[n].at) \in Int
    BY <1>1, <2>2
  <2>9. Distance(n) <= Rate * (now' - encrypted[n].at)
    BY <2>6, <2>7
  <2> QED
    BY <1>1, <2>2, <2>8, <2>9
<1> QED
  BY <1>2, <1>3, <1>4

LEMMA ReadStep ==
    ASSUME SecurerInv, NEW t \in Tasks, ReadTimestamp(t)
    PROVE  StallInv'
<1>1. /\ now \in Nat /\ now' = now /\ offset \in 0 .. MaxStep
      /\ timestamp' = [timestamp EXCEPT ![t] = now + offset]
      /\ since' = [since EXCEPT ![t] = now]
      /\ timestamp \in [Tasks -> Nat \cup {None}] /\ since \in [Tasks -> Nat]
  BY DEF ReadTimestamp, SecurerInv, TypeOK, Clock
<1> SUFFICES ASSUME NEW u \in Tasks, timestamp'[u] # None
             PROVE  /\ since'[u] <= now /\ now <= since'[u] + MaxStall
                    /\ since'[u] <= timestamp'[u] /\ timestamp'[u] <= since'[u] + MaxStep
  BY <1>1 DEF StallInv
<1>2. CASE u = t
  BY <1>1, <1>2
<1>3. CASE u # t
  BY <1>1, <1>3 DEF SecurerInv, StallInv
<1> QED
  BY <1>2, <1>3

LEMMA InvStep == SecurerInv /\ [Next]_vars => SecurerInv'
<1> SUFFICES ASSUME SecurerInv, [Next]_vars PROVE SecurerInv'
  OBVIOUS
<1>0. TypeOK'
  BY TypeStep DEF SecurerInv
<1> USE DEF SecurerInv
<1>1. CASE Tick
  <2>1. CounterInv' /\ IdsOfPairs' /\ RateOfPairs'
    BY <1>1 DEF Tick, CounterInv, Distance, IdsOfPairs, RateOfPairs
  <2> QED
    BY <1>0, <1>1, <2>1, TickStep
<1>2. CASE SetClock
  BY <1>0, <1>2 DEF SetClock, senderVars, CounterInv, Distance, IdsOfPairs, StallInv, StampInv,
                    RateInv, RateOfPairs
<1>3. ASSUME NEW t \in Tasks, ReadTimestamp(t) PROVE SecurerInv'
  <2>1. CounterInv' /\ IdsOfPairs' /\ StampInv' /\ RateInv' /\ RateOfPairs'
    BY <1>3 DEF ReadTimestamp, CounterInv, Distance, IdsOfPairs, StampInv, RateInv, RateOfPairs
  <2> QED
    BY <1>0, <1>3, <2>1, ReadStep
<1>4. ASSUME NEW t \in Tasks, TakePacketId(t) PROVE SecurerInv'
  BY <1>0, <1>4, TakeStep, TakeStallStep
<1>5. CASE Restart
  <2>1. Len(encrypted') = 0 /\ \A t \in Tasks : timestamp'[t] = None
    BY <1>5 DEF Restart
  <2> QED
    BY <1>0, <2>1 DEF CounterInv, IdsOfPairs, StallInv, StampInv, RateInv, RateOfPairs
<1>6. CASE UNCHANGED <<now, senderVars>>
  BY <1>0, <1>6 DEF senderVars, CounterInv, Distance, IdsOfPairs, StallInv, StampInv, RateInv,
                    RateOfPairs
<1>7. CASE Arrives \/ PeerRestarts \/ UNCHANGED vars
  BY <1>6, <1>7 DEF Arrives, PeerRestarts, vars
<1> QED
  BY <1>1, <1>2, <1>3, <1>4, <1>5, <1>7 DEF Next

\* Two packets of one timestamp are fewer ids apart than there are.
LEMMA InvImpliesUnique == SecurerInv => NonceUnique
<1> SUFFICES ASSUME SecurerInv,
                    NEW m \in 1 .. Len(encrypted), NEW n \in 1 .. Len(encrypted), m < n,
                    encrypted[m].id = encrypted[n].id,
                    encrypted[m].timestamp = encrypted[n].timestamp
             PROVE  FALSE
  <2>1. DOMAIN encrypted = 1 .. Len(encrypted) /\ Len(encrypted) \in Nat
    BY DEF SecurerInv, TypeOK
  <2> QED
    BY <2>1 DEF NonceUnique
<1>1. TypeOK
  BY DEF SecurerInv
<1>2. /\ m \in Nat /\ n \in Nat
      /\ encrypted[m].at \in Nat /\ encrypted[n].at \in Nat
      /\ encrypted[m].timestamp \in Nat /\ encrypted[n].timestamp \in Nat
  BY <1>1, Elements
<1>3. n - m >= Ids
  BY <1>2 DEF SecurerInv, IdsOfPairs
<1>4. n - m < Rate * (encrypted[n].at - encrypted[m].at + 1)
  BY <1>2 DEF SecurerInv, RateOfPairs
<1>5. encrypted[n].at - encrypted[m].at + 1 <= MaxStep + MaxStall + 1
  <2>1. encrypted[n].at <= encrypted[n].timestamp + MaxStall
    BY DEF SecurerInv, StampInv
  <2>2. encrypted[m].timestamp <= encrypted[m].at + MaxStep
    BY DEF SecurerInv, StampInv
  <2> QED
    BY <1>2, <2>1, <2>2
<1>6. Rate * (encrypted[n].at - encrypted[m].at + 1) <= Rate * (MaxStep + MaxStall + 1)
  BY <1>2, <1>5, Monotonic
<1>7. Rate * (encrypted[n].at - encrypted[m].at + 1) \in Int /\ Rate * (MaxStep + MaxStall + 1) \in Int
  BY <1>2
<1> QED
  BY <1>2, <1>3, <1>4, <1>6, <1>7, IdsAssumption

LEMMA Invariance == Spec => []SecurerInv
  BY InitInv, InvStep, PTL DEF Spec

\* Every state of the securers has its type (UdpConnectionSecurer).
THEOREM SecurerTypeCorrect == Spec => []TypeOK
<1>1. SecurerInv => TypeOK
  BY DEF SecurerInv
<1> QED
  BY <1>1, Invariance, PTL

\* No nonce is used twice in a session (encrypt()), if no more packets than there
\* are ids are sent while a timestamp is shown or still being used.
THEOREM NoncesAreUnique == Spec => []NonceUnique
  BY Invariance, InvImpliesUnique, PTL

-----------------------------------------------------------------------------

\* The cipher that decrypts a packet is always that of its own session.
LEMMA CipherOfSession == \A m : CipherFor(m) = m.session
  BY DEF CipherFor

LEMMA VerdictStep ==
    ASSUME VerdictIgnoresOrder, [Next]_vars
    PROVE  VerdictIgnoresOrder'
<1>1. CASE verdict' = None
  BY <1>1 DEF VerdictIgnoresOrder
<1>2. CASE Arrives
  <2>1. PICK m \in net \cup Strange : Decrypt(m)
    BY <1>2 DEF Arrives
  <2>2. now' = now
    BY <1>2 DEF Arrives
  <2>3. verdict'.packet = m
    BY <2>1 DEF Decrypt
  <2>4. verdict'.result = "Ok" <=> m.kind = "sent" /\ InTime(m)
    BY <2>1, CipherOfSession DEF Decrypt, DecryptsWith
  <2>5. InTime(m)' <=> InTime(m)
    BY <2>2 DEF InTime
  <2> QED
    BY <2>2, <2>3, <2>4 DEF VerdictIgnoresOrder, InTime
<1>3. CASE UNCHANGED vars
  BY <1>3 DEF vars, peerVars, VerdictIgnoresOrder, InTime
<1> QED
  BY <1>1, <1>2, <1>3
     DEF Next, Tick, SetClock, ReadTimestamp, TakePacketId, Restart, PeerRestarts

\* What decrypt() says of a packet depends on the packet and the time alone: the
\* session whose cipher is kept makes no difference (UdpConnectionSecurer).
THEOREM VerdictsIgnoreOrder == Spec => []VerdictIgnoresOrder
<1>1. Init => VerdictIgnoresOrder
  BY DEF Init, VerdictIgnoresOrder
<1>2. VerdictIgnoresOrder /\ [Next]_vars => VerdictIgnoresOrder'
  BY VerdictStep
<1> QED
  BY <1>1, <1>2, PTL DEF Spec
=============================================================================
