----------------------------- MODULE HttpServer -----------------------------
(***************************************************************************)
(* The HTTP server transport (server/mod.rs): the loop that accepts        *)
(* connections while there are permits, the task of each connection, which *)
(* becomes a proxied one or a hiddenlink one, the registry of hiddenlink   *)
(* connections by name, and the controller's send(), which selects one of  *)
(* them.  Each hiddenlink connection has a PacketWriter of its own, into   *)
(* whose slot it is put once: only the states of it that matter here are   *)
(* kept, see PacketWriter for the rest.                                    *)
(*                                                                         *)
(* An element of Conns stands for a connection for as long as it has a     *)
(* task or send() holds a reference to it, and for another one after that. *)
(***************************************************************************)
EXTENDS Integers, FiniteSets

CONSTANTS
    Conns,                  \* the connections
    Names,                  \* the names that clients give to their connections
    Ingress,                \* the names of those with the INGRESS flag
    MaxProxiedConnections,  \* permits of proxied_connections_semaphore
    None

ASSUME ConnsAssumption == IsFiniteSet(Conns) /\ None \notin Conns
ASSUME NamesAssumption == Ingress \subseteq Names /\ None \notin Names
ASSUME PermitsAssumption == MaxProxiedConnections \in Nat \ {0}

VARIABLES
    permits,    \* proxied_connections_semaphore: the permits that nobody holds
    proxied,    \* proxied_connections_count
    accepting,  \* the accept loop holds a permit and awaits a connection
    task,       \* where the task of the connection is, see Tasks
    request,    \* HiddenlinkConnectionRequest.name, or None
    active,     \* HiddenlinkConnections.active
    latest,     \* history: the connection registered last, until it has been handled
    writer,     \* the connection is in the slot of its PacketWriter
    error,      \* a write has failed, and the reader is to learn of it
    sending,    \* where send() is
    target      \* the connection that send() has selected

acceptVars == <<permits, proxied, accepting>>
registryVars == <<active, latest>>
sendVars == <<sending, target>>
serverVars == <<acceptVars, task, request, registryVars, writer, error, sendVars>>

Tasks == {"none", "handshake", "proxying", "leaving", "releasing", "registering",
          "handling", "closing", "removing"}

\* The connections whose tasks own a permit, and those that are counted as
\* proxied ones.
Counted == {c \in Conns : task[c] \in {"handshake", "proxying", "leaving"}}
Holders == {c \in Conns : task[c] \in {"handshake", "proxying", "leaving", "releasing"}}

\* The task is in HiddenlinkConnection::handle(), or has just left it.
IsHandled(c) == task[c] \in {"handling", "closing", "removing"}

ServerTypeOK ==
    /\ permits \in Nat
    /\ proxied \in Int
    /\ accepting \in BOOLEAN
    /\ task \in [Conns -> Tasks]
    /\ request \in [Conns -> Names \cup {None}]
    /\ active \in [Names -> Conns \cup {None}]
    /\ latest \in [Names -> Conns \cup {None}]
    /\ writer \in [Conns -> BOOLEAN]
    /\ error \in [Conns -> BOOLEAN]
    /\ sending \in {"idle", "selecting", "selected", "writing"}
    /\ target \in Conns \cup {None}
    /\ sending \in {"idle", "selecting"} <=> target = None
    /\ \A c \in Conns : IsHandled(c) \/ task[c] = "registering" => request[c] # None

ServerInit ==
    /\ permits = MaxProxiedConnections
    /\ proxied = 0
    /\ accepting = FALSE
    /\ task = [c \in Conns |-> "none"]
    /\ request = [c \in Conns |-> None]
    /\ active = [n \in Names |-> None]
    /\ latest = [n \in Names |-> None]
    /\ writer = [c \in Conns |-> FALSE]
    /\ error = [c \in Conns |-> FALSE]
    /\ sending = "idle"
    /\ target = None

Goes(c, from, to) ==
    /\ task[c] = from
    /\ task' = [task EXCEPT ![c] = to]

-----------------------------------------------------------------------------
(* handle(): the accept loop *)

AcquirePermit ==
    /\ ~accepting
    /\ permits > 0
    /\ permits' = permits - 1
    /\ accepting' = TRUE
    /\ UNCHANGED <<proxied, task, request, registryVars, writer, error, sendVars>>

\* Mistaken: the permit of a connection that could not be accepted is lost.
AcceptFails_Leaks ==
    /\ accepting
    /\ accepting' = FALSE
    /\ UNCHANGED <<permits, proxied, task, request, registryVars, writer, error, sendVars>>

\* accept() or local_addr() fails.
AcceptFails ==
    /\ accepting
    /\ accepting' = FALSE
    /\ permits' = permits + 1
    /\ UNCHANGED <<proxied, task, request, registryVars, writer, error, sendVars>>

\* The connection's task takes the permit over.
Accept(c) ==
    /\ accepting
    /\ c # target
    /\ Goes(c, "none", "handshake")
    /\ accepting' = FALSE
    /\ proxied' = proxied + 1
    /\ request' = [request EXCEPT ![c] = None]
    /\ writer' = [writer EXCEPT ![c] = FALSE]
    /\ error' = [error EXCEPT ![c] = FALSE]
    /\ UNCHANGED <<permits, registryVars, sendVars>>

-----------------------------------------------------------------------------
(* ServerConnection::handle() *)

\* The handshake fails or times out, and there is nothing to proxy.
HandshakeFails(c) ==
    /\ Goes(c, "handshake", "leaving")
    /\ UNCHANGED <<acceptVars, request, registryVars, writer, error, sendVars>>

RoutedToUpstream(c) ==
    /\ Goes(c, "handshake", "proxying")
    /\ UNCHANGED <<acceptVars, request, registryVars, writer, error, sendVars>>

ProxyEnds(c) ==
    /\ Goes(c, "proxying", "leaving")
    /\ UNCHANGED <<acceptVars, request, registryVars, writer, error, sendVars>>

HandshakePassed(c, name) ==
    /\ Goes(c, "handshake", "leaving")
    /\ request' = [request EXCEPT ![c] = name]
    /\ UNCHANGED <<acceptVars, registryVars, writer, error, sendVars>>

-----------------------------------------------------------------------------
(* handle(): the connection's task *)

\* The gauge first, then the permit.
LeaveProxied(c) ==
    /\ Goes(c, "leaving", "releasing")
    /\ proxied' = proxied - 1
    /\ UNCHANGED <<permits, accepting, request, registryVars, writer, error, sendVars>>

\* Mistaken: a hiddenlink connection keeps its permit.
ReleasePermit_Proxied(c) ==
    /\ Goes(c, "releasing", IF request[c] = None THEN "none" ELSE "registering")
    /\ permits' = IF request[c] = None THEN permits + 1 ELSE permits
    /\ UNCHANGED <<proxied, accepting, request, registryVars, writer, error, sendVars>>

ReleasePermit(c) ==
    /\ Goes(c, "releasing", IF request[c] = None THEN "none" ELSE "registering")
    /\ permits' = permits + 1
    /\ UNCHANGED <<proxied, accepting, request, registryVars, writer, error, sendVars>>

\* add(): a connection of the same name is replaced, and goes on on its own.
Register(c) ==
    /\ Goes(c, "registering", "handling")
    /\ writer' = [writer EXCEPT ![c] = TRUE]
    /\ active' = [active EXCEPT ![request[c]] = c]
    /\ latest' = [latest EXCEPT ![request[c]] = c]
    /\ UNCHANGED <<acceptVars, request, error, sendVars>>

\* Mistaken: whatever connection has the name is removed.
RemoveConnection_ByName(c) ==
    /\ Goes(c, "removing", "none")
    /\ active' = [active EXCEPT ![request[c]] = None]
    /\ latest' = [latest EXCEPT ![request[c]] = IF @ = c THEN None ELSE @]
    /\ UNCHANGED <<acceptVars, request, writer, error, sendVars>>

\* remove()
RemoveConnection(c) ==
    /\ Goes(c, "removing", "none")
    /\ active' = [active EXCEPT ![request[c]] = IF @ = c THEN None ELSE @]
    /\ latest' = [latest EXCEPT ![request[c]] = IF @ = c THEN None ELSE @]
    /\ UNCHANGED <<acceptVars, request, writer, error, sendVars>>

-----------------------------------------------------------------------------
(* HiddenlinkConnection::handle() *)

\* The client has closed the connection: the writer is taken out of its slot
\* and shut down after a fake response.
ReadEof(c) ==
    /\ Goes(c, "handling", "closing")
    /\ writer' = [writer EXCEPT ![c] = FALSE]
    /\ UNCHANGED <<acceptVars, request, registryVars, error, sendVars>>

\* Mistaken: the connection is not removed from the registry.
ReadFails_Forgotten(c) ==
    /\ Goes(c, "handling", "none")
    /\ writer' = [writer EXCEPT ![c] = FALSE]
    /\ UNCHANGED <<acceptVars, request, registryVars, error, sendVars>>

\* The connection breaks, what arrives is not a packet, or a write has failed.
ReadFails(c) ==
    /\ Goes(c, "handling", "removing")
    /\ writer' = [writer EXCEPT ![c] = FALSE]
    /\ UNCHANGED <<acceptVars, request, registryVars, error, sendVars>>

\* The shutdown waits for a write that is under way; it ends in any case.
ShutdownEnds(c) ==
    /\ ~(sending = "writing" /\ target = c)
    /\ Goes(c, "closing", "removing")
    /\ UNCHANGED <<acceptVars, request, registryVars, writer, error, sendVars>>

-----------------------------------------------------------------------------
(* send() *)

\* The connections select() chooses from.
Ready == {c \in Conns : writer[c] /\ \E n \in Ingress : active[n] = c}

\* A packet to send: the controller drops it, or finds the transport
\* ready_for_sending().
SendStarts ==
    /\ sending = "idle"
    /\ sending' = IF Ready = {} THEN "idle" ELSE "selecting"
    /\ UNCHANGED <<acceptVars, task, request, registryVars, writer, error, target>>

\* select(): the connections may have gone since.
SendSelects ==
    /\ sending = "selecting"
    /\ \/ \E c \in Ready : target' = c /\ sending' = "selected"
       \/ Ready = {} /\ sending' = "idle" /\ UNCHANGED target
    /\ UNCHANGED <<acceptVars, task, request, registryVars, writer, error>>

\* PacketWriter::send(): the writer has been closed since, or it has failed.
SendRefused ==
    /\ sending = "selected"
    /\ ~writer[target] \/ error[target]
    /\ sending' = "idle"
    /\ target' = None
    /\ UNCHANGED <<acceptVars, task, request, registryVars, writer, error>>

SendWrites ==
    /\ sending = "selected"
    /\ writer[target]
    /\ ~error[target]
    /\ sending' = "writing"
    /\ UNCHANGED <<acceptVars, task, request, registryVars, writer, error, target>>

SendEnds(fails) ==
    /\ sending = "writing"
    /\ error' = [error EXCEPT ![target] = fails]
    /\ sending' = "idle"
    /\ target' = None
    /\ UNCHANGED <<acceptVars, task, request, registryVars, writer>>

-----------------------------------------------------------------------------

AcceptLoop == AcquirePermit \/ AcceptFails \/ \E c \in Conns : Accept(c)

TaskStep(c) ==
    \/ HandshakeFails(c) \/ RoutedToUpstream(c) \/ \E n \in Names : HandshakePassed(c, n)
    \/ ProxyEnds(c) \/ LeaveProxied(c) \/ ReleasePermit(c)
    \/ Register(c) \/ ReadEof(c) \/ ReadFails(c) \/ ShutdownEnds(c) \/ RemoveConnection(c)

SendStep ==
    \/ SendSelects \/ SendRefused \/ SendWrites
    \/ \E fails \in BOOLEAN : SendEnds(fails)

ServerNext ==
    \/ AcceptLoop
    \/ \E c \in Conns : TaskStep(c)
    \/ SendStarts \/ SendStep

ServerSpec == ServerInit /\ [][ServerNext]_serverVars

-----------------------------------------------------------------------------
(* Properties *)

\* The permits bound what they are to bound: each one is free, or held by the
\* accept loop, or by a connection that is not known to be a hiddenlink one.
PermitsConserved ==
    permits + (IF accepting THEN 1 ELSE 0) + Cardinality(Holders) = MaxProxiedConnections

\* The gauge never shows more proxied connections than the limit: it is
\* decremented before the permit lets the next connection in.
GaugeWithinLimit == proxied \in 0 .. MaxProxiedConnections

\* What is in the registry has a task that will remove it, under its name.
RegisteredIsHandled ==
    \A n \in Names : active[n] # None => IsHandled(active[n]) /\ request[active[n]] = n

\* Connections of one name register and end in any order, the end of a
\* replaced one long after the registration of its successor: as long as the
\* one registered last is handled, it is the one that packets are sent to.
LatestRegistered == \A n \in Names : latest[n] # None => active[n] = latest[n]

\* The scheduler runs every task that can go on.  A handshake ends because of
\* CONNECTION_TIMEOUT, a proxied connection because the upstream server closes
\* it, a write because of TCP_USER_TIMEOUT, and a reader now and then has
\* nothing to read and takes the error.
Fairness ==
    /\ WF_serverVars(AcquirePermit)
    /\ WF_serverVars(SendStep)
    /\ \A c \in Conns :
           /\ WF_serverVars(HandshakeFails(c))
           /\ WF_serverVars(ProxyEnds(c))
           /\ WF_serverVars(LeaveProxied(c) \/ ReleasePermit(c) \/ Register(c))
           /\ WF_serverVars(error[c] /\ ReadFails(c))
           /\ WF_serverVars(ShutdownEnds(c) \/ RemoveConnection(c))

FairServerSpec == ServerSpec /\ Fairness

\* The server accepts connections again and again: neither handshakes that
\* hang nor any number of hiddenlink connections use the permits up for good.
AcceptsAgain == []<>accepting

\* A connection that could not be written to leaves the registry, so that it
\* is not selected for ever.
BrokenUnregistered ==
    \A c \in Conns : \A n \in Names :
        (active[n] = c /\ error[c]) ~> ~(active[n] = c /\ error[c])

-----------------------------------------------------------------------------
(* The inductive invariants *)

PermitsInv == PermitsConserved /\ proxied = Cardinality(Counted)

RegistryInv ==
    /\ RegisteredIsHandled
    /\ LatestRegistered
    /\ \A n \in Names : latest[n] = None => active[n] = None
=============================================================================
