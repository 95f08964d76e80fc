--------------------------------- MODULE Proxy ---------------------------------
(***************************************************************************)
(* A connection that the server proxies to an upstream server              *)
(* (protocols/proxy.rs): two directions that are copied at the same time,  *)
(* each of which may end first, and two connections that may break.  What  *)
(* an end learns is a close_notify or, of a plain TCP connection, a FIN;   *)
(* the client's connection always uses TLS.                                *)
(*                                                                         *)
(* Of the data only the amount is modelled: copy() keeps the order.        *)
(***************************************************************************)
EXTENDS Naturals

CONSTANT MaxData  \* bound: how much is sent in a direction

ASSUME MaxDataAssumption == MaxData \in Nat

Directions == {"request", "response"}

Source(d) == IF d = "request" THEN "client" ELSE "upstream"
Destination(d) == IF d = "request" THEN "upstream" ELSE "client"

VARIABLES
    tls,              \* the upstream connection uses TLS
    sent,             \* how much the source of a direction has sent
    ended,            \* the source has shut down the direction
    lost,             \* the ends whose connection is broken, or closed without a close_notify
    taken,            \* how much of it has been read, preread_data included
    delivered,        \* how much has been written to the destination
    stage,            \* where a direction's proxy_connection() is
    client_shutdown,  \* the Notify has a permit
    result,           \* of handle()
    seen              \* what the destination of a direction has learnt about its end

network == <<tls, sent, ended, lost>>
vars == <<network, taken, delivered, stage, client_shutdown, result, seen>>

TypeOK ==
    /\ sent \in [Directions -> 0..MaxData]
    /\ taken \in [Directions -> 0..MaxData]
    /\ delivered \in [Directions -> 0..MaxData]
    /\ \A d \in Directions : delivered[d] <= taken[d] /\ taken[d] <= sent[d]
    /\ ended \in [Directions -> BOOLEAN]
    /\ lost \subseteq {"client", "upstream"}
    /\ stage \in [Directions -> {"preread", "copying", "shutdown", "waiting", "done"}]
    /\ client_shutdown \in BOOLEAN
    /\ result \in {"connecting", "running", "refused", "proxied", "interrupted"}
    /\ tls \in BOOLEAN
    /\ seen \in [Directions -> {"nothing", "end", "cut"}]

\* preread_data has been read before, by the router.
Init ==
    \E preread \in 0..MaxData :
        /\ tls \in BOOLEAN
        /\ sent = [d \in Directions |-> IF d = "request" THEN preread ELSE 0]
        /\ taken = sent
        /\ ended = [d \in Directions |-> FALSE]
        /\ lost = {}
        /\ delivered = [d \in Directions |-> 0]
        /\ stage = [d \in Directions |-> IF d = "request" THEN "preread" ELSE "copying"]
        /\ client_shutdown = FALSE
        /\ result = "connecting"
        /\ seen = [d \in Directions |-> "nothing"]

-----------------------------------------------------------------------------
(* The client, the upstream server and the network *)

\* The upstream server has nobody to send to before there is a connection.
CanSend(d) ==
    /\ ~ended[d]
    /\ Source(d) \notin lost
    /\ d = "response" => result = "running"

Send(d) ==
    /\ CanSend(d)
    /\ \E much \in (sent[d] + 1)..MaxData : sent' = [sent EXCEPT ![d] = much]
    /\ UNCHANGED <<tls, ended, lost, taken, delivered, stage, client_shutdown, result, seen>>

End(d) ==
    /\ CanSend(d)
    /\ ended' = [ended EXCEPT ![d] = TRUE]
    /\ UNCHANGED <<tls, sent, lost, taken, delivered, stage, client_shutdown, result, seen>>

Break(side) ==
    /\ side \notin lost
    /\ lost' = lost \cup {side}
    /\ UNCHANGED <<tls, sent, ended, taken, delivered, stage, client_shutdown, result, seen>>

-----------------------------------------------------------------------------
(* ProxiedConnection::new() *)

Connect ==
    /\ result = "connecting"
    /\ "upstream" \notin lost
    /\ result' = "running"
    /\ UNCHANGED <<network, taken, delivered, stage, client_shutdown, seen>>

\* The server refuses the connection, or the TLS handshake fails.
ConnectFails ==
    /\ result = "connecting"
    /\ result' = "refused"
    /\ seen' = [seen EXCEPT !["response"] = "cut"]
    /\ UNCHANGED <<network, taken, delivered, stage, client_shutdown>>

-----------------------------------------------------------------------------
(* proxy_connection() *)

PrereadSent ==
    /\ result = "running"
    /\ stage["request"] = "preread"
    /\ delivered["request"] = taken["request"]
    /\ stage' = [stage EXCEPT !["request"] = "copying"]
    /\ UNCHANGED <<network, taken, delivered, client_shutdown, result, seen>>

\* A connection that is broken may have something to read still.
Read(d) ==
    /\ result = "running"
    /\ stage[d] = "copying"
    /\ \E much \in (taken[d] + 1)..sent[d] : taken' = [taken EXCEPT ![d] = much]
    /\ UNCHANGED <<network, delivered, stage, client_shutdown, result, seen>>

Write(d) ==
    /\ result = "running"
    /\ stage[d] \in {"preread", "copying"}
    /\ Destination(d) \notin lost
    /\ \E much \in (delivered[d] + 1)..taken[d] : delivered' = [delivered EXCEPT ![d] = much]
    /\ UNCHANGED <<network, taken, stage, client_shutdown, result, seen>>

\* copy() returns.
ReadEnd(d) ==
    /\ result = "running"
    /\ stage[d] = "copying"
    /\ taken[d] = sent[d] /\ ended[d]
    /\ delivered[d] = taken[d]
    /\ stage' = [stage EXCEPT ![d] = "shutdown"]
    /\ UNCHANGED <<network, taken, delivered, client_shutdown, result, seen>>

\* The destination learns of the end.
Shutdown(d) ==
    /\ result = "running"
    /\ stage[d] = "shutdown"
    /\ Destination(d) \notin lost
    /\ seen' = [seen EXCEPT ![d] = "end"]

-----------------------------------------------------------------------------
(* handle() *)

\* Mistaken: the other direction is not told.
RequestEnds_Silently ==
    /\ Shutdown("request")
    /\ stage' = [stage EXCEPT !["request"] = "done"]
    /\ UNCHANGED <<network, taken, delivered, client_shutdown, result>>

RequestEnds ==
    /\ Shutdown("request")
    /\ stage' = [stage EXCEPT !["request"] = "done"]
    /\ client_shutdown' = TRUE
    /\ UNCHANGED <<network, taken, delivered, result>>

ResponseEnds ==
    /\ Shutdown("response")
    /\ stage' = [stage EXCEPT !["response"] = "waiting"]
    /\ UNCHANGED <<network, taken, delivered, client_shutdown, result>>

ClientHasEnded ==
    /\ result = "running"
    /\ stage["response"] = "waiting"
    /\ client_shutdown
    /\ client_shutdown' = FALSE
    /\ stage' = [stage EXCEPT !["response"] = "done"]
    /\ UNCHANGED <<network, taken, delivered, result, seen>>

\* What a destination may learn when its connection is dropped.  A shutdown
\* that is not over may have told it of the end already.  A plain TCP connection
\* that works is closed with a FIN, as at an end, or reset if something that it
\* has received is not read.
Dropped(d) ==
    IF seen[d] # "nothing" THEN {seen[d]}
    ELSE IF \/ stage[d] = "shutdown"
            \/ d = "request" /\ ~tls /\ "upstream" \notin lost
    THEN {"end", "cut"}
    ELSE {"cut"}

\* Mistaken: the writers are shut down however the proxying ends.
Interrupt_Shutdown ==
    /\ result' = "interrupted"
    /\ seen' = [d \in Directions |-> "end"]
    /\ UNCHANGED <<network, taken, delivered, stage, client_shutdown>>

\* try_join! drops the other direction, and with it both connections, which
\* nobody shuts down.
Interrupt ==
    /\ result' = "interrupted"
    /\ seen' \in [Directions -> {"end", "cut"}]
    /\ \A d \in Directions : seen'[d] \in Dropped(d)
    /\ UNCHANGED <<network, taken, delivered, stage, client_shutdown>>

\* Mistaken: the client may take as long as it likes.
ClientTimesOut_Never == FALSE /\ Interrupt

\* CONNECTION_TIMEOUT
ClientTimesOut ==
    /\ result = "running"
    /\ stage["response"] = "waiting"
    /\ ~client_shutdown
    /\ Interrupt

\* Reading, writing or the shutdown fails.
Fail(d) ==
    /\ result = "running"
    /\ \/ stage[d] = "copying" /\ Source(d) \in lost
       \/ stage[d] \in {"preread", "copying"} /\ delivered[d] < taken[d] /\ Destination(d) \in lost
       \/ stage[d] = "shutdown" /\ Destination(d) \in lost
    /\ Interrupt

Finish ==
    /\ result = "running"
    /\ \A d \in Directions : stage[d] = "done"
    /\ result' = "proxied"
    /\ UNCHANGED <<network, taken, delivered, stage, client_shutdown, seen>>

-----------------------------------------------------------------------------

Next ==
    \/ \E d \in Directions : Send(d) \/ End(d)
    \/ \E side \in {"client", "upstream"} : Break(side)
    \/ Connect \/ ConnectFails
    \/ PrereadSent
    \/ \E d \in Directions : Read(d) \/ Write(d) \/ ReadEnd(d) \/ Fail(d)
    \/ RequestEnds \/ ResponseEnds \/ ClientHasEnded \/ ClientTimesOut \/ Finish

\* The upstream server may read, or not: nothing is assumed of the request.
\* Writes to the client end because of TCP_USER_TIMEOUT.
Fairness ==
    /\ WF_vars(Read("response"))
    /\ WF_vars(Write("response"))
    /\ WF_vars(ReadEnd("response"))
    /\ WF_vars(Fail("response"))
    /\ WF_vars(ResponseEnds)
    /\ WF_vars(ClientHasEnded)
    /\ WF_vars(ClientTimesOut)
    /\ WF_vars(Finish)

Spec == Init /\ [][Next]_vars
FairSpec == Spec /\ Fairness

-----------------------------------------------------------------------------
(* Properties *)

\* A plain TCP upstream server cannot tell that it has been cut off.
Truthful(d) == d = "response" \/ tls \/ result # "interrupted"

\* Who learns that a direction has ended has got all of it, with what the router
\* had read, however the proxying ends: neither a client nor an upstream server
\* that uses TLS is told of an end by an interruption.  A plain TCP upstream
\* server (that of Trojan) may be: the dropped connection is closed as at an end.
EndMeansAll ==
    \A d \in Directions :
        seen[d] = "end" /\ Truthful(d) => ended[d] /\ delivered[d] = sent[d]

\* The request's end has been passed on.
RequestPassed == stage["request"] = "done"

\* As long as both connections work nobody is cut off before the client has got
\* the whole response and knows it: also then the proxying is interrupted only
\* while the request's end has not been passed on, as the client goes on or the
\* upstream server does not read the rest of what it has sent.
CutOnlyLate ==
    result = "interrupted" /\ lost = {} =>
        /\ seen["response"] = "end"
        /\ ended["response"] /\ delivered["response"] = sent["response"]
        /\ ~RequestPassed

\* A proxied connection ends when the upstream server ends it, whatever the
\* client does, and although the server may have stopped reading.
ProxyEnds == ended["response"] ~> result \in {"proxied", "interrupted"}
=============================================================================
