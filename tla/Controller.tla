------------------------------ MODULE Controller ------------------------------
(***************************************************************************)
(* The controller: new(), which names the transports of a configuration    *)
(* and refuses it or makes them, and handle(), which takes packets from    *)
(* the tunnel one by one and gives each to the first transport that is     *)
(* ready.  An HTTP transport then chooses one of its connections by the    *)
(* packet's addresses (connections.rs).  Connections become ready, and     *)
(* cease to be, between any two questions that are asked of them.          *)
(***************************************************************************)
EXTENDS Naturals, Sequences, FiniteSets, SequencesExt

CONSTANTS
    Configs,  \* the configurations: sequences of [kind, name, connections]
    Names,    \* what is given as a name
    Flows,    \* pairs of addresses
    Invalid,  \* what is not an IP packet has no addresses
    Hashes,   \* what a random_state may make of pairs of addresses
    None

Kinds == {"HTTP client", "HTTP server", "Insecure UDP transport", "UDP transport"}

ASSUME ConfigsAssumption ==
    /\ Configs \subseteq
           Seq([kind : Kinds, name : Names \cup {None}, connections : Nat \ {0}])
    /\ \A c \in Configs : \A i \in DOMAIN c :
           c[i].kind \notin {"HTTP client", "HTTP server"} => c[i].connections = 1
    /\ None \notin Kinds \cup {"Blackhole"}

ASSUME HashesAssumption == Hashes \subseteq [Flows -> Nat]

VARIABLES
    config,      \* Config.transports
    refused,     \* new() has failed
    registry,    \* connections of the transports that are made, as iterated over
    hash,        \* random_state of each of them
    ready,       \* the connections that are ready_for_sending()
    phase,       \* "receiving", "asking", "selecting" or "sending"
    packet,      \* the packet that has been received
    at,          \* the transport that is being asked or has been selected
    asked,       \* how many of its connections have been asked
    found,       \* ready_connections of select()
    target,      \* the connection that send() uses
    steady,      \* history: the connections that have been ready since recv()
    route        \* history: the connections of flows while nothing has changed

newVars == <<config, refused, hash>>
readyVars == <<registry, ready>>
handleVars == <<phase, packet, at, asked, found, target>>
vars == <<newVars, readyVars, handleVars, steady, route>>

Made == DOMAIN registry

IsHttp(t) == config[t].kind \in {"HTTP client", "HTTP server"}

\* The connections t may have: those of a server come and go.
ConnectionsOf(t) == {<<t, id>> : id \in 1 .. config[t].connections}

Connections == UNION {ToSet(registry[t]) : t \in Made}

ReadyOf(t) == ready \cap ConnectionsOf(t)

\* The members of S in the order of s.
InOrderOf(s, S) == SelectSeq(s, LAMBDA c : c \in S)

NoRoute == [f \in Flows \cup {Invalid} |-> None]

TypeOK ==
    /\ config \in Configs
    /\ refused \in BOOLEAN
    /\ registry \in Seq(Seq(Nat \X Nat))
    /\ Len(registry) <= Len(config)
    /\ \A t \in Made : IsInjective(registry[t]) /\ ToSet(registry[t]) \subseteq ConnectionsOf(t)
    /\ ready \subseteq Connections
    /\ phase \in {"receiving", "asking", "selecting", "sending"}
    /\ at \in 0 .. Len(config) + 1
    /\ asked \in Nat
    /\ found \in Seq(Nat \X Nat)
    /\ steady \subseteq ready

Init ==
    /\ config \in Configs
    /\ refused = FALSE
    /\ registry = <<>>
    /\ hash = <<>>
    /\ ready = {}
    /\ phase = "receiving"
    /\ packet = None
    /\ at = 0
    /\ asked = 0
    /\ found = <<>>
    /\ target = None
    /\ steady = {}
    /\ route = <<>>

-----------------------------------------------------------------------------
(* new().  A name is a sequence: what is given or what a kind is called, and *)
(* the numbers that follow "#", which what is given cannot contain.          *)

OfKind(kind, n) == {i \in 1 .. n : config[i].kind = kind}

\* Mistaken: how many there are instead of which it is.
AutoName_Count(i) ==
    LET count == Cardinality(OfKind(config[i].kind, Len(config)))
    IN  IF count > 1 THEN <<config[i].kind, count>> ELSE <<config[i].kind>>

AutoName(i) ==
    IF Cardinality(OfKind(config[i].kind, Len(config))) > 1
    THEN <<config[i].kind, Cardinality(OfKind(config[i].kind, i))>>
    ELSE <<config[i].kind>>

Name(i) == IF config[i].name = None THEN AutoName(i) ELSE <<config[i].name>>

\* Mistaken: every connection has the name of its transport.
ConnectionName_Same(i, id) == Name(i)

\* HttpClientTransport::new()
ConnectionName(i, id) ==
    IF config[i].connections > 1 THEN Append(Name(i), id) ELSE Name(i)

Started == Len(registry) = Len(config)

IsRefused(i) == config[i].name = "Blackhole" \/ \E j \in Made : Name(j) = Name(i)

\* A server begins without connections, the others with all they will have.
MakeTransport ==
    LET i == Len(registry) + 1
    IN  /\ ~refused /\ ~Started
        /\ ~IsRefused(i)
        /\ registry' = Append(registry, IF config[i].kind = "HTTP server" THEN <<>>
                                        ELSE [id \in 1 .. config[i].connections |-> <<i, id>>])
        /\ \E h \in Hashes : hash' = Append(hash, h)
        /\ route' = Append(route, NoRoute)
        /\ UNCHANGED <<config, refused, ready, handleVars, steady>>

RefuseConfig ==
    /\ ~refused /\ ~Started
    /\ IsRefused(Len(registry) + 1)
    /\ refused' = TRUE
    /\ UNCHANGED <<config, hash, readyVars, handleVars, steady, route>>

-----------------------------------------------------------------------------
(* The connections *)

\* The packets of a flow may go another way from now on.
Changes(t) ==
    /\ Started
    /\ route' = [route EXCEPT ![t] = NoRoute]
    /\ UNCHANGED <<newVars, handleVars>>

BecomesReady(c) ==
    /\ c \notin ready
    /\ ready' = ready \cup {c}
    /\ Changes(c[1])
    /\ UNCHANGED <<registry, steady>>

CeasesToBeReady(c) ==
    /\ c \in ready
    /\ ready' = ready \ {c}
    /\ steady' = steady \ {c}
    /\ Changes(c[1])
    /\ UNCHANGED registry

\* A server's registry is locked while its connections are asked: from the first
\* to the last by ready_for_sending(), and again by select().
IsLocked(t) == at = t /\ phase \in {"asking", "selecting"} /\ asked > 0

\* add() and remove(): a map may be iterated over in any order.  A connection
\* that takes the place of another of its name does what the two actions above do.
RegistryChanges(t) ==
    /\ config[t].kind = "HTTP server"
    /\ ~IsLocked(t)
    /\ \E c \in ConnectionsOf(t) :
           LET members == IF c \in ToSet(registry[t]) THEN ToSet(registry[t]) \ {c}
                          ELSE ToSet(registry[t]) \cup {c}
           IN  /\ \E order \in SetToSeqs(members) : registry' = [registry EXCEPT ![t] = order]
               /\ ready' = ready \ {c}
               /\ steady' = steady \ {c}
    /\ Changes(t)

-----------------------------------------------------------------------------
(* handle() and select_transport() *)

Receive ==
    /\ Started
    /\ phase = "receiving"
    /\ packet' \in [flow : Flows \cup {Invalid}, rest : {0, 1}]
    /\ phase' = "asking"
    /\ at' = 1
    /\ steady' = ready
    /\ UNCHANGED <<newVars, readyVars, asked, found, target, route>>

\* The packet has been sent or dropped.
Done ==
    /\ phase' = "receiving"
    /\ packet' = None
    /\ at' = 0
    /\ asked' = 0
    /\ found' = <<>>
    /\ target' = None
    /\ steady' = {}
    /\ UNCHANGED <<newVars, readyVars, route>>

Asked == registry[at][asked + 1]

Asks(p) == phase = p /\ at <= Len(config) /\ asked < Len(registry[at])

\* Mistaken: a transport whose first connection is not ready is passed over.
AskConnection_First ==
    /\ Asks("asking")
    /\ Asked \notin ready
    /\ asked' = Len(registry[at])
    /\ UNCHANGED <<newVars, readyVars, phase, packet, at, found, target, steady, route>>

\* ready_for_sending() of a transport asks its connections one after the other
\* until one is ready.
AskConnection ==
    /\ Asks("asking")
    /\ Asked \notin ready
    /\ asked' = asked + 1
    /\ UNCHANGED <<newVars, readyVars, phase, packet, at, found, target, steady, route>>

SelectTransport ==
    /\ Asks("asking")
    /\ Asked \in ready
    /\ IF IsHttp(at)
       THEN phase' = "selecting" /\ UNCHANGED target
       ELSE phase' = "sending" /\ target' = Asked
    /\ asked' = 0
    /\ UNCHANGED <<newVars, readyVars, packet, at, found, steady, route>>

NextTransport ==
    /\ phase = "asking"
    /\ at <= Len(config)
    /\ asked = Len(registry[at])
    /\ at' = at + 1
    /\ asked' = 0
    /\ UNCHANGED <<newVars, readyVars, phase, packet, found, target, steady, route>>

\* "Dropping the packet: there are no active transports."
Blackhole == phase = "asking" /\ at > Len(config) /\ Done

-----------------------------------------------------------------------------
(* TransportConnections::select() *)

SelectAsks ==
    /\ Asks("selecting")
    /\ found' = IF Asked \in ready THEN Append(found, Asked) ELSE found
    /\ asked' = asked + 1
    /\ UNCHANGED <<newVars, readyVars, phase, packet, at, target, steady, route>>

AllAsked == phase = "selecting" /\ asked = Len(registry[at])

\* "There is no open connections"
SelectFails == AllAsked /\ found = <<>> /\ Done

\* Mistaken: the whole packet is hashed.
Index_Packet ==
    IF packet.flow = Invalid THEN 0 ELSE (hash[at][packet.flow] + packet.rest) % Len(found)

Index == IF packet.flow = Invalid THEN 0 ELSE hash[at][packet.flow] % Len(found)

\* What has been found ready is what is ready.
IsCurrent == found = InOrderOf(registry[at], ReadyOf(at))

Select ==
    /\ AllAsked
    /\ found # <<>>
    /\ phase' = "sending"
    /\ target' = found[Index + 1]
    /\ found' = <<>>
    /\ asked' = 0
    /\ route' = IF IsCurrent THEN [route EXCEPT ![at][packet.flow] = target'] ELSE route
    /\ UNCHANGED <<newVars, readyVars, packet, at, steady>>

\* The transport's send() succeeds or fails.
SendEnds == phase = "sending" /\ Done

-----------------------------------------------------------------------------

Next ==
    \/ MakeTransport \/ RefuseConfig
    \/ \E c \in Connections : BecomesReady(c) \/ CeasesToBeReady(c)
    \/ \E t \in Made : RegistryChanges(t)
    \/ Receive
    \/ AskConnection \/ SelectTransport \/ NextTransport \/ Blackhole
    \/ SelectAsks \/ SelectFails \/ Select \/ SendEnds

Spec == Init /\ [][Next]_vars

-----------------------------------------------------------------------------
(* Properties *)

Named == {i \in DOMAIN config : config[i].name # None}

\* Of the names only those that somebody gave can make new() fail: one that is
\* that of a kind or "Blackhole", or was given twice; a generated name is never
\* in the way of another.  (A transport's constructor may fail as well, for want
\* of an address or a certificate: that is left out.)
RefusedForAName ==
    refused =>
        \E i \in Named :
            \/ config[i].name \in Kinds \cup {"Blackhole"}
            \/ \E j \in Named \ {i} : config[i].name = config[j].name

\* The connections of the clients, which a server tells apart by their names
\* alone, have different names, if nobody gives a transport the name of a kind
\* (a client that is called "HTTP client" and has several connections gives
\* them the names of clients that are given none).
ConnectionNamesDistinct ==
    (\A i \in Named : config[i].name \notin Kinds) =>
        LET of == UNION {ConnectionsOf(t) : t \in {t \in Made : config[t].kind = "HTTP client"}}
        IN  \A c, d \in of : c # d => ConnectionName(c[1], c[2]) # ConnectionName(d[1], d[2])

\* While a connection stays ready from recv() on, the packet is not dropped by
\* the controller, nor given to a transport that comes after the connection's,
\* nor refused by the connection's own transport, whatever happens to the other
\* connections while they are asked.
SteadyNotPassedOver ==
    phase # "receiving" =>
        \A c \in steady : at <= c[1] /\ (AllAsked /\ at = c[1] => found # <<>>)

\* The packets of a flow go through one connection of a transport as long as
\* its connections and their readiness stay as they are, also if other packets,
\* or packets of other flows, are sent in between.
FlowSticks ==
    [][AllAsked /\ phase' = "sending" /\ IsCurrent /\ route[at][packet.flow] # None
           => target' = route[at][packet.flow]]_vars

=============================================================================
