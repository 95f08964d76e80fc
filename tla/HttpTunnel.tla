------------------------------ MODULE HttpTunnel ------------------------------
(***************************************************************************)
(* Both ends of the connections that an HTTP client and an HTTP server     *)
(* make under one name: the client's handler, which replaces a connection  *)
(* whose TTL has expired, the tasks that read, the controllers that send,  *)
(* the shutdowns, the server's registry, and what is on the wire.          *)
(*                                                                         *)
(* HttpClient, HttpServer and PacketWriter look at each part more closely; *)
(* what they show of it is taken for granted here: a packet is written as  *)
(* a whole, between a shutdown or before it, or not at all.                *)
(***************************************************************************)
EXTENDS Naturals, Sequences

CONSTANTS
    Conns,        \* the connections; each stands for another one after its end
    Packets,
    None,
    MaxInFlight,  \* bound: packets on the wire of a connection
    MaxFaults     \* bound: connections that break, attempts that time out

ASSUME TunnelAssumption ==
    /\ None \notin Conns
    /\ MaxInFlight \in Nat
    /\ MaxFaults \in Nat

VARIABLES
    attempt,   \* the connection of process_connect(), or None
    current,   \* the connection of connection_task, or None
    previous,  \* the connection of previous_connection, or None
    slot,      \* PacketWriter.writer of the client
    sending,   \* the connection that the client's send() has fetched, or None
    reader,    \* the client's task of the connection
    shut,      \* the client's half of the connection
    task,      \* the server's task of the connection
    active,    \* the connection that the server has registered, or None
    served,    \* the connections in the slot of their PacketWriter at the server
    serving,   \* the connection that the server's send() has selected, or None
    wire,      \* the packets on their way, see Ends
    fins,      \* the ends of streams on their way behind them
    status,    \* "up", "broken" by the network or "cut" by the client
    faults,    \* the faults that have happened
    refused    \* history: packets refused since a connection was replaced

handlerVars == <<attempt, current, previous>>
clientVars == <<handlerVars, slot, sending, reader, shut, refused>>
serverVars == <<task, active, served, serving>>
wireVars == <<wire, fins, status, faults>>
tunnelVars == <<clientVars, serverVars, wireVars>>

\* What the client, and what the server, writes to.
Up(c) == <<c, "up">>
Down(c) == <<c, "down">>
Ends == Conns \X {"up", "down"}

TunnelTypeOK ==
    /\ {attempt, current, previous, slot, sending, active, serving} \subseteq Conns \cup {None}
    /\ reader \in [Conns -> {"none", "reading", "closing"}]
    /\ shut \in [Conns -> {"open", "shutting", "shut"}]
    /\ task \in [Conns -> {"none", "answered", "handling", "closing", "removing"}]
    /\ served \subseteq Conns
    /\ wire \in [Ends -> Seq(Packets)]
    /\ fins \subseteq Ends
    /\ status \in [Conns -> {"up", "broken", "cut"}]
    /\ faults \in 0 .. MaxFaults
    /\ refused \in Nat

TunnelInit ==
    /\ attempt = None /\ current = None /\ previous = None
    /\ slot = None /\ sending = None
    /\ reader = [c \in Conns |-> "none"]
    /\ shut = [c \in Conns |-> "shut"]
    /\ task = [c \in Conns |-> "none"]
    /\ active = None /\ served = {} /\ serving = None
    /\ wire = [e \in Ends |-> <<>>]
    /\ fins = {}
    /\ status = [c \in Conns |-> "up"]
    /\ faults = 0
    /\ refused = 0

-----------------------------------------------------------------------------
(* The wire *)

\* What is on the wire when both ends of the given connections learn that it
\* will not arrive.
Lose(cs, why) ==
    /\ wire' = [e \in Ends |-> IF e[1] \in cs THEN <<>> ELSE wire[e]]
    /\ fins' = fins \ (cs \X {"up", "down"})
    /\ status' = [c \in Conns |-> IF c \in cs THEN why ELSE status[c]]

\* Another packet can be written.
Fits(c) == Len(wire[Up(c)]) + Len(wire[Down(c)]) < MaxInFlight

Fault ==
    /\ faults < MaxFaults
    /\ faults' = faults + 1

Breaks(c) ==
    /\ task[c] # "none" \/ reader[c] # "none"
    /\ status[c] = "up"
    /\ Fault
    /\ Lose({c}, "broken")
    /\ UNCHANGED <<clientVars, serverVars>>

-----------------------------------------------------------------------------
(* The client: handle() *)

Unused(c) ==
    /\ task[c] = "none" /\ reader[c] = "none"
    /\ c \notin {attempt, current, previous, slot, sending, active, serving}
    /\ shut[c] = "shut"

\* The server has read the handshake and written the response.
Answered(c) ==
    /\ attempt = None /\ current = None
    /\ Unused(c)
    /\ attempt' = c
    /\ task' = [task EXCEPT ![c] = "answered"]
    /\ shut' = [shut EXCEPT ![c] = "open"]
    /\ status' = [status EXCEPT ![c] = "up"]
    /\ UNCHANGED <<current, previous, slot, sending, reader, refused, active, served, serving,
                   wire, fins, faults>>

\* Mistaken: the response is awaited for ever.
AttemptFails_Waits ==
    /\ attempt # None
    /\ status[attempt] = "broken"
    /\ UNCHANGED tunnelVars

\* process_connect() fails, or CONNECTION_TIMEOUT passes.
AttemptFails ==
    /\ attempt # None
    /\ status[attempt] = "broken"
    /\ shut' = [shut EXCEPT ![attempt] = "shut"]
    /\ attempt' = None
    /\ UNCHANGED <<current, previous, slot, sending, reader, refused, serverVars, wireVars>>

\* It passes although the response is on its way.
AttemptTimesOut ==
    /\ attempt # None
    /\ status[attempt] = "up"
    /\ Fault
    /\ Lose({attempt}, "broken")
    /\ shut' = [shut EXCEPT ![attempt] = "shut"]
    /\ attempt' = None
    /\ UNCHANGED <<current, previous, slot, sending, reader, refused, serverVars>>

\* The connection goes to the slot; the one that was there is shut down.
Connected ==
    /\ attempt # None
    /\ status[attempt] = "up"
    /\ current' = attempt
    /\ slot' = attempt
    /\ attempt' = None
    /\ reader' = [reader EXCEPT ![attempt] = "reading"]
    /\ shut' = [c \in Conns |-> IF c = slot THEN "shutting" ELSE shut[c]]
    /\ refused' = 0
    /\ UNCHANGED <<previous, sending, serverVars, wireVars>>

\* The task of c, if it still runs, is aborted.
Killed(c) ==
    IF c # None /\ reader[c] # "none"
    THEN /\ Lose({c}, IF status[c] = "up" THEN "cut" ELSE status[c])
         /\ reader' = [reader EXCEPT ![c] = "none"]
         /\ shut' = [shut EXCEPT ![c] = "shut"]
    ELSE UNCHANGED <<wire, fins, status, reader, shut>>

\* The shutdown of the connection that has been replaced is awaited first.
Waiting == current # None /\ (previous # None => shut[previous] # "shutting")

\* Mistaken: the task is aborted when its own TTL expires.
TtlExpires_Aborts ==
    /\ Waiting
    /\ reader[current] # "none"
    /\ Killed(current)
    /\ previous' = None
    /\ current' = None
    /\ UNCHANGED <<attempt, slot, sending, refused, serverVars, faults>>

\* Mistaken: the connection is shut down in its slot before there is a new one.
TtlExpires_ShutsDown ==
    /\ Waiting
    /\ reader[current] # "none"
    /\ previous = None
    /\ shut' = [shut EXCEPT ![current] = "shutting"]
    /\ previous' = current
    /\ current' = None
    /\ UNCHANGED <<attempt, slot, sending, reader, refused, serverVars, wireVars>>

TtlExpires ==
    /\ Waiting
    /\ reader[current] # "none"
    /\ Killed(previous)
    /\ previous' = current
    /\ current' = None
    /\ UNCHANGED <<attempt, slot, sending, refused, serverVars, faults>>

ConnectionEnded ==
    /\ Waiting
    /\ reader[current] = "none"
    /\ Killed(previous)
    /\ previous' = None
    /\ current' = None
    /\ UNCHANGED <<attempt, slot, sending, refused, serverVars, faults>>

-----------------------------------------------------------------------------
(* The client: the tasks of its connections, and send() *)

ClientReads(c) ==
    /\ reader[c] = "reading"
    /\ wire[Down(c)] # <<>>
    /\ wire' = [wire EXCEPT ![Down(c)] = Tail(@)]
    /\ UNCHANGED <<clientVars, serverVars, fins, status, faults>>

\* Mistaken: whatever connection is in the slot leaves it.
ClientReadsEnd_Any(c) ==
    /\ reader[c] = "reading"
    /\ wire[Down(c)] = <<>> /\ Down(c) \in fins
    /\ fins' = fins \ {Down(c)}
    /\ slot' = None
    /\ shut' = [shut EXCEPT ![c] = "shut"]
    /\ reader' = [reader EXCEPT ![c] = "none"]
    /\ UNCHANGED <<handlerVars, sending, refused, serverVars, wire, status, faults>>

\* close_matching()
ClientReadsEnd(c) ==
    /\ reader[c] = "reading"
    /\ wire[Down(c)] = <<>> /\ Down(c) \in fins
    /\ fins' = fins \ {Down(c)}
    /\ IF slot = c
       THEN /\ slot' = None
            /\ shut' = [shut EXCEPT ![c] = "shutting"]
            /\ reader' = [reader EXCEPT ![c] = "closing"]
       ELSE /\ reader' = [reader EXCEPT ![c] = "none"]
            /\ UNCHANGED <<slot, shut>>
    /\ UNCHANGED <<handlerVars, sending, refused, serverVars, wire, status, faults>>

ClientReadFails(c) ==
    /\ reader[c] = "reading"
    /\ status[c] # "up"
    /\ reader' = [reader EXCEPT ![c] = "none"]
    /\ slot' = IF slot = c THEN None ELSE slot
    /\ shut' = IF slot = c THEN [shut EXCEPT ![c] = "shut"] ELSE shut
    /\ UNCHANGED <<handlerVars, sending, refused, serverVars, wireVars>>

\* shutdown(), when it gets the lock.
ClientShutsDown(c) ==
    /\ shut[c] = "shutting"
    /\ shut' = [shut EXCEPT ![c] = "shut"]
    /\ fins' = IF status[c] = "up" THEN fins \cup {Up(c)} ELSE fins
    /\ reader' = [reader EXCEPT ![c] = IF @ = "closing" THEN "none" ELSE @]
    /\ UNCHANGED <<handlerVars, slot, sending, refused, serverVars, wire, status, faults>>

ClientFetches ==
    /\ sending = None
    /\ slot # None
    /\ sending' = slot
    /\ UNCHANGED <<handlerVars, slot, reader, shut, refused, serverVars, wireVars>>

ClientWrites ==
    /\ sending # None
    /\ shut[sending] # "shut"
    /\ status[sending] = "up"
    /\ Fits(sending)
    /\ \E p \in Packets : wire' = [wire EXCEPT ![Up(sending)] = Append(@, p)]
    /\ sending' = None
    /\ UNCHANGED <<handlerVars, slot, reader, shut, refused, serverVars, fins, status, faults>>

\* "Connection is closed", or write_all() fails.
ClientIsRefused ==
    /\ sending # None
    /\ shut[sending] = "shut" \/ status[sending] # "up"
    /\ refused' = IF status[sending] = "up" THEN refused + 1 ELSE refused
    /\ sending' = None
    /\ UNCHANGED <<handlerVars, slot, reader, shut, serverVars, wireVars>>

-----------------------------------------------------------------------------
(* The server: the tasks of its connections, and send() *)

\* add()
Registers(c) ==
    /\ task[c] = "answered"
    /\ task' = [task EXCEPT ![c] = "handling"]
    /\ active' = c
    /\ served' = served \cup {c}
    /\ UNCHANGED <<clientVars, serving, wireVars>>

ServerReads(c) ==
    /\ task[c] = "handling"
    /\ wire[Up(c)] # <<>>
    /\ wire' = [wire EXCEPT ![Up(c)] = Tail(@)]
    /\ UNCHANGED <<clientVars, serverVars, fins, status, faults>>

\* close() with a fake response takes the writer out of its slot.
ServerReadsEnd(c) ==
    /\ task[c] = "handling"
    /\ wire[Up(c)] = <<>> /\ Up(c) \in fins
    /\ fins' = fins \ {Up(c)}
    /\ task' = [task EXCEPT ![c] = "closing"]
    /\ served' = served \ {c}
    /\ UNCHANGED <<clientVars, active, serving, wire, status, faults>>

ServerReadFails(c) ==
    /\ task[c] = "handling"
    /\ status[c] # "up"
    /\ task' = [task EXCEPT ![c] = "removing"]
    /\ served' = served \ {c}
    /\ UNCHANGED <<clientVars, active, serving, wireVars>>

\* shutdown(), when it gets the lock.
ServerShutsDown(c) ==
    /\ task[c] = "closing"
    /\ task' = [task EXCEPT ![c] = "removing"]
    /\ fins' = IF status[c] = "up" THEN fins \cup {Down(c)} ELSE fins
    /\ UNCHANGED <<clientVars, active, served, serving, wire, status, faults>>

\* Mistaken: the connection that has the name is removed.
Removes_ByName(c) ==
    /\ task[c] = "removing"
    /\ task' = [task EXCEPT ![c] = "none"]
    /\ active' = None
    /\ UNCHANGED <<clientVars, served, serving, wireVars>>

\* remove()
Removes(c) ==
    /\ task[c] = "removing"
    /\ task' = [task EXCEPT ![c] = "none"]
    /\ active' = IF active = c THEN None ELSE active
    /\ UNCHANGED <<clientVars, served, serving, wireVars>>

\* select()
ServerSelects ==
    /\ serving = None
    /\ active \in served
    /\ serving' = active
    /\ UNCHANGED <<clientVars, task, active, served, wireVars>>

ServerWrites ==
    /\ serving # None
    /\ task[serving] \in {"handling", "closing"}
    /\ status[serving] = "up"
    /\ Fits(serving)
    /\ \E p \in Packets : wire' = [wire EXCEPT ![Down(serving)] = Append(@, p)]
    /\ serving' = None
    /\ UNCHANGED <<clientVars, task, active, served, fins, status, faults>>

ServerIsRefused ==
    /\ serving # None
    /\ serving \notin served \/ status[serving] # "up"
    /\ serving' = None
    /\ UNCHANGED <<clientVars, task, active, served, wireVars>>

-----------------------------------------------------------------------------

ClientStep ==
    \/ \E c \in Conns : Answered(c)
    \/ AttemptFails \/ AttemptTimesOut \/ Connected \/ TtlExpires \/ ConnectionEnded
    \/ \E c \in Conns :
           ClientReads(c) \/ ClientReadsEnd(c) \/ ClientReadFails(c) \/ ClientShutsDown(c)
    \/ ClientFetches \/ ClientWrites \/ ClientIsRefused

ServerStep ==
    \/ \E c \in Conns :
           \/ Registers(c) \/ ServerReads(c) \/ ServerReadsEnd(c) \/ ServerReadFails(c)
           \/ ServerShutsDown(c) \/ Removes(c)
    \/ ServerSelects \/ ServerWrites \/ ServerIsRefused

TunnelNext == ClientStep \/ ServerStep \/ \E c \in Conns : Breaks(c)

TunnelSpec == TunnelInit /\ [][TunnelNext]_tunnelVars

\* Tasks that can go on do, shutdowns get the lock, an attempt to connect is
\* answered or times out, and so do the TTL and what is read or written: none
\* of the conditions below is undone by somebody else for ever.
TunnelFairness ==
    /\ WF_tunnelVars(\E c \in Conns : Answered(c))
    /\ WF_tunnelVars(Connected)
    /\ WF_tunnelVars(AttemptFails)
    /\ WF_tunnelVars(TtlExpires)
    /\ WF_tunnelVars(ConnectionEnded)
    /\ \A c \in Conns :
           /\ WF_tunnelVars(ClientReads(c) \/ ClientReadsEnd(c) \/ ClientReadFails(c))
           /\ WF_tunnelVars(ClientShutsDown(c))
           /\ WF_tunnelVars(Registers(c))
           /\ WF_tunnelVars(ServerReads(c) \/ ServerReadsEnd(c) \/ ServerReadFails(c))
           /\ WF_tunnelVars(ServerShutsDown(c) \/ Removes(c))
    /\ WF_tunnelVars(ClientWrites \/ ClientIsRefused)
    /\ WF_tunnelVars(ServerWrites \/ ServerIsRefused)

FairTunnelSpec == TunnelSpec /\ TunnelFairness

-----------------------------------------------------------------------------
(* What the connections promise *)

\* Nothing is written to it any more.
IsEnded(e) ==
    \/ status[e[1]] # "up"
    \/ e[2] = "up" /\ shut[e[1]] = "shut"
    \/ e[2] = "down" /\ task[e[1]] \in {"none", "removing"}

Age(c) == CASE c \in {attempt, current} -> 0 [] c = previous -> 1 [] OTHER -> 2

Ended == {e \in Ends : IsEnded(e)}
Broken == {c \in Conns : status[c] = "broken"}
Ages == [c \in Conns |-> Age(c)]

Pipes == INSTANCE PacketPipes WITH
    pipe <- wire,
    ended <- Ended,
    lost <- Broken,
    age <- Ages

-----------------------------------------------------------------------------
(* Properties *)

\* A packet whose send() has succeeded is delivered once and in order, whatever
\* the rotation of connections does meanwhile, unless the network breaks the
\* connection or its task is aborted because its successor has been given up.
ImplementsPipes == Pipes!PipesSpec

\* While the network breaks nothing a client, once connected, always has a
\* connection to send to: the old one until the new one is in its place.
SlotNeverEmpties ==
    faults = 0 /\ (current # None \/ previous # None) => slot # None

\* A send() that has fetched a connection just before it was replaced may be
\* refused, but that happens to one packet for each connection at most.
RotationCostsOne == refused <= 1

\* Both ends use the same connection.
Agreed == slot # None /\ slot = active /\ slot \in served /\ status[slot] = "up"

\* A connection is registered before its TTL expires or it is given up.
RegistersInTime == \A c \in Conns : task[c] = "answered" => c \in {attempt, current}

\* A connection that both ends use stays in use until the client or the server
\* puts the next one in its place, however late its predecessors end.
StaysAgreed ==
    [][Agreed /\ RegistersInTime /\ slot' = slot /\ status'[slot] = "up" =>
           Agreed' \/ active' = attempt]_tunnelVars

\* Server and client come to use the same connection again, whatever has been
\* broken and whatever is removed late.
AgreesAgain == <>[]RegistersInTime => []<>Agreed
=============================================================================
