------------------------------ MODULE ProxyProofs ------------------------------
(* Theorems about Proxy, for any amount of data. *)
EXTENDS Proxy, TLAPS

(* Counters, stages and results have their types, and nothing is written that *)
(* has not been read, or read that has not been sent.                         *)
THEOREM ProxyTypeCorrect == Spec => []TypeOK
<1>1. Init => TypeOK
  <2> SUFFICES ASSUME Init PROVE TypeOK
    OBVIOUS
  <2>1. PICK preread \in 0..MaxData :
            /\ sent = [d \in Directions |-> IF d = "request" THEN preread ELSE 0]
            /\ taken = sent
            /\ delivered = [d \in Directions |-> 0]
    BY DEF Init
  <2>2. \A d \in Directions : sent[d] \in 0..MaxData /\ sent[d] = taken[d] /\ delivered[d] = 0
    BY <2>1, MaxDataAssumption
  <2>3. sent \in [Directions -> 0..MaxData] /\ delivered \in [Directions -> 0..MaxData]
    BY <2>1, <2>2, MaxDataAssumption
  <2>4. \A d \in Directions : delivered[d] <= taken[d] /\ taken[d] <= sent[d]
    BY <2>2, MaxDataAssumption
  <2>5. stage \in [Directions -> {"preread", "copying", "shutdown", "waiting", "done"}]
    BY DEF Init
  <2> QED
    BY <2>1, <2>3, <2>4, <2>5 DEF Init, TypeOK
<1>2. TypeOK /\ [Next]_vars => TypeOK'
  <2> SUFFICES ASSUME TypeOK, [Next]_vars PROVE TypeOK'
    OBVIOUS
  <2> USE MaxDataAssumption DEF TypeOK, Directions, network
  <2>1. ASSUME NEW d \in Directions, Send(d) PROVE TypeOK'
    BY <2>1 DEF Send, CanSend
  <2>2. ASSUME NEW d \in Directions, End(d) PROVE TypeOK'
    BY <2>2 DEF End, CanSend
  <2>3. ASSUME NEW side \in {"client", "upstream"}, Break(side) PROVE TypeOK'
    BY <2>3 DEF Break
  <2>4. CASE Connect \/ ConnectFails
    BY <2>4 DEF Connect, ConnectFails
  <2>5. CASE PrereadSent
    BY <2>5 DEF PrereadSent
  <2>6. ASSUME NEW d \in Directions, Read(d) PROVE TypeOK'
    BY <2>6 DEF Read
  <2>7. ASSUME NEW d \in Directions, Write(d) PROVE TypeOK'
    BY <2>7 DEF Write
  <2>8. ASSUME NEW d \in Directions, ReadEnd(d) PROVE TypeOK'
    BY <2>8 DEF ReadEnd
  <2>9. ASSUME NEW d \in Directions, Fail(d) PROVE TypeOK'
    BY <2>9 DEF Fail, Interrupt
  <2>10. CASE RequestEnds \/ ResponseEnds \/ ClientHasEnded
    <3>1. CASE RequestEnds
      BY <3>1 DEF RequestEnds, Shutdown
    <3>2. CASE ResponseEnds
      BY <3>2 DEF ResponseEnds, Shutdown
    <3>3. CASE ClientHasEnded
      BY <3>3 DEF ClientHasEnded
    <3> QED
      BY <2>10, <3>1, <3>2, <3>3
  <2>11. CASE ClientTimesOut \/ Finish
    BY <2>11 DEF ClientTimesOut, Interrupt, Finish
  <2>12. CASE UNCHANGED vars
    BY <2>12 DEF vars
  <2> QED
    BY <2>1, <2>2, <2>3, <2>4, <2>5, <2>6, <2>7, <2>8, <2>9, <2>10, <2>11, <2>12 DEF Next
<1> QED
  BY <1>1, <1>2, PTL DEF Spec

-----------------------------------------------------------------------------

\* copy() has returned.
Copied(d) == stage[d] \in {"shutdown", "waiting", "done"}

\* From the end of copy() on a direction has nothing more to deliver, and its
\* source nothing more to send.
CopiedAll == \A d \in Directions : Copied(d) => ended[d] /\ delivered[d] = sent[d]

\* The request does not wait, and the response does not end before it has; the
\* permit is there from the end of the request until the response has seen it.
NotifyInv ==
    /\ stage["request"] # "waiting"
    /\ stage["response"] = "done" => stage["request"] = "done"
    /\ client_shutdown => stage["request"] = "done"
    /\ stage["request"] = "done" /\ stage["response"] # "done" => client_shutdown

\* An end that is learnt of is that of a direction that has been copied, unless
\* it comes from the drop of a plain TCP connection; and it is not forgotten.
SeenInv ==
    /\ \A d \in Directions : seen[d] = "end" /\ Truthful(d) => Copied(d)
    /\ stage["response"] \in {"waiting", "done"} => seen["response"] = "end"
    /\ result = "connecting" => stage["response"] = "copying"

Safe == CopiedAll /\ NotifyInv /\ SeenInv /\ CutOnlyLate
ProxyInv == TypeOK /\ Safe

LEMMA ProxyInvInit == Init /\ TypeOK => ProxyInv
  BY DEF Init, ProxyInv, Safe, CopiedAll, Copied, NotifyInv, SeenInv, CutOnlyLate, Directions

\* What an interruption tells the two ends, if it comes with a broken connection
\* or after the whole response.
LEMMA InterruptSafe ==
    ASSUME ProxyInv, Interrupt, result = "running",
           lost # {} \/ (stage["response"] = "waiting" /\ ~RequestPassed)
    PROVE  Safe'
<1> USE DEF Directions
<1>1. /\ result' = "interrupted" /\ UNCHANGED <<network, taken, delivered, stage, client_shutdown>>
      /\ \A d \in Directions : seen'[d] \in Dropped(d)
  BY DEF Interrupt
<1>2. CopiedAll' /\ NotifyInv'
  BY <1>1 DEF ProxyInv, Safe, CopiedAll, Copied, NotifyInv, network
<1>3. ASSUME NEW d \in Directions, seen'[d] = "end", Truthful(d)' PROVE Copied(d)
  <2>1. Truthful(d) /\ (d = "response" \/ tls)
    BY <1>1, <1>3 DEF Truthful, network
  <2>2. seen[d] = "end" \/ stage[d] = "shutdown"
    BY <1>1, <1>3, <2>1 DEF Dropped
  <2> QED
    BY <2>1, <2>2 DEF ProxyInv, Safe, SeenInv, Copied
<1>4. stage["response"] \in {"waiting", "done"} => seen'["response"] = "end"
  BY <1>1 DEF ProxyInv, Safe, SeenInv, Dropped
<1>5. SeenInv'
  BY <1>1, <1>3, <1>4 DEF SeenInv, Copied
<1>6. CutOnlyLate'
  BY <1>1, <1>4 DEF ProxyInv, Safe, CopiedAll, Copied, CutOnlyLate, RequestPassed, network
<1> QED
  BY <1>2, <1>5, <1>6 DEF Safe

LEMMA ProxyInvNext == ProxyInv /\ TypeOK' /\ [Next]_vars => ProxyInv'
<1> SUFFICES ASSUME ProxyInv, TypeOK', [Next]_vars PROVE Safe'
  BY DEF ProxyInv
<1>1. ASSUME NEW d \in Directions, Fail(d) PROVE Safe'
  <2>1. Interrupt /\ result = "running" /\ lost # {}
    BY <1>1 DEF Fail
  <2> QED
    BY <2>1, InterruptSafe
<1>2. CASE ClientTimesOut
  \* The response waits and there is no permit: the request has not ended.
  <2>1. /\ Interrupt /\ result = "running" /\ stage["response"] = "waiting"
        /\ ~RequestPassed
    BY <1>2 DEF ClientTimesOut, ProxyInv, Safe, NotifyInv, RequestPassed
  <2> QED
    BY <2>1, InterruptSafe
<1> USE MaxDataAssumption
    DEF ProxyInv, Safe, TypeOK, CopiedAll, Copied, NotifyInv, SeenInv, Truthful, CutOnlyLate,
        RequestPassed, Directions, network
<1>3. ASSUME NEW d \in Directions, Send(d) \/ End(d) PROVE Safe'
  BY <1>3 DEF Send, End, CanSend
<1>4. ASSUME NEW side \in {"client", "upstream"}, Break(side) PROVE Safe'
  BY <1>4 DEF Break
<1>5. CASE Connect \/ ConnectFails \/ PrereadSent
  BY <1>5 DEF Connect, ConnectFails, PrereadSent
<1>6. ASSUME NEW d \in Directions, Read(d) \/ Write(d) PROVE Safe'
  BY <1>6 DEF Read, Write
<1>7. ASSUME NEW d \in Directions, ReadEnd(d) PROVE Safe'
  BY <1>7 DEF ReadEnd
<1>8. CASE RequestEnds
  BY <1>8 DEF RequestEnds, Shutdown
<1>9. CASE ResponseEnds \/ ClientHasEnded
  BY <1>9 DEF ResponseEnds, ClientHasEnded, Shutdown
<1>10. CASE Finish
  BY <1>10 DEF Finish
<1>11. CASE UNCHANGED vars
  BY <1>11 DEF vars
<1> QED
  BY <1>1, <1>2, <1>3, <1>4, <1>5, <1>6, <1>7, <1>8, <1>9, <1>10, <1>11 DEF Next

LEMMA ProxyInvHolds == Spec => []ProxyInv
<1>1. Spec => []TypeOK
  BY ProxyTypeCorrect
<1> QED
  BY <1>1, ProxyInvInit, ProxyInvNext, PTL DEF Spec

(* Who learns of the end of a direction has got all of it, whether or not the *)
(* proxying was interrupted, unless it is an interrupted plain TCP upstream.  *)
THEOREM EndsMeanAll == Spec => []EndMeansAll
<1>1. ProxyInv => EndMeansAll
  BY DEF ProxyInv, Safe, CopiedAll, SeenInv, EndMeansAll
<1> QED
  BY <1>1, ProxyInvHolds, PTL

(* Without a broken connection nobody is cut off before the client has got    *)
(* the whole response and knows it, nor once the request's end has been       *)
(* passed on.                                                                 *)
THEOREM CutsAreLate == Spec => []CutOnlyLate
<1>1. ProxyInv => CutOnlyLate
  BY DEF ProxyInv, Safe
<1> QED
  BY <1>1, ProxyInvHolds, PTL
=============================================================================
