--------------------------- MODULE HttpServerProofs ---------------------------
(***************************************************************************)
(* Proofs about what the server does with a connection.                    *)
(*                                                                         *)
(* HttpServer: its types, its permits and its registry, for any number of  *)
(* connections, names and permits.                                         *)
(*                                                                         *)
(* Handshake: where a connection is routed and whether it becomes a        *)
(* tunnel, for any routing rules, names, payloads and stream, read in any  *)
(* pieces.                                                                 *)
(***************************************************************************)
EXTENDS HttpServer, Handshake, FiniteSetTheorems, SequenceTheorems, WellFoundedInduction,
        TLAPS

-----------------------------------------------------------------------------
(* Types *)

LEMMA ServerTypeNext == ServerTypeOK /\ [ServerNext]_serverVars => ServerTypeOK'
<1> SUFFICES ASSUME ServerTypeOK, [ServerNext]_serverVars PROVE ServerTypeOK'
  OBVIOUS
<1> USE NamesAssumption, ConnsAssumption DEF ServerTypeOK, Tasks, IsHandled,
      Goes, acceptVars, registryVars, sendVars
<1>1. CASE AcquirePermit
  BY <1>1 DEF AcquirePermit
<1>2. CASE AcceptFails
  <2>1. permits' \in Nat
    BY <1>2 DEF AcceptFails
  <2> QED
    BY <2>1, <1>2 DEF AcceptFails
<1>3. ASSUME NEW c \in Conns, Accept(c) PROVE ServerTypeOK'
  <2>1. proxied' \in Int
    BY <1>3 DEF Accept
  <2>2. /\ task' \in [Conns -> Tasks]
        /\ request' \in [Conns -> Names \cup {None}]
        /\ \A d \in Conns : IsHandled(d)' \/ task'[d] = "registering" => request'[d] # None
    BY <1>3 DEF Accept
  <2>3. writer' \in [Conns -> BOOLEAN] /\ error' \in [Conns -> BOOLEAN]
    BY <1>3 DEF Accept
  <2> QED
    BY <2>1, <2>2, <2>3, <1>3 DEF Accept
<1>4. ASSUME NEW c \in Conns, HandshakeFails(c) \/ RoutedToUpstream(c) \/ ProxyEnds(c)
      PROVE  ServerTypeOK'
  BY <1>4 DEF HandshakeFails, RoutedToUpstream, ProxyEnds
<1>5. ASSUME NEW c \in Conns, NEW n \in Names, HandshakePassed(c, n) PROVE ServerTypeOK'
  BY <1>5 DEF HandshakePassed
<1>6. ASSUME NEW c \in Conns, LeaveProxied(c) \/ ReleasePermit(c) PROVE ServerTypeOK'
  BY <1>6 DEF LeaveProxied, ReleasePermit
<1>7. ASSUME NEW c \in Conns, Register(c) \/ RemoveConnection(c) PROVE ServerTypeOK'
  <2>1. request[c] \in Names
    BY <1>7 DEF Register, RemoveConnection
  <2>2. active' \in [Names -> Conns \cup {None}] /\ latest' \in [Names -> Conns \cup {None}]
    BY <1>7, <2>1 DEF Register, RemoveConnection
  <2>3. writer' \in [Conns -> BOOLEAN]
    BY <1>7 DEF Register, RemoveConnection
  <2>4. /\ task' \in [Conns -> Tasks]
        /\ \A d \in Conns : IsHandled(d)' \/ task'[d] = "registering" => request'[d] # None
    BY <1>7 DEF Register, RemoveConnection
  <2> QED
    BY <2>2, <2>3, <2>4, <1>7 DEF Register, RemoveConnection
<1>8. ASSUME NEW c \in Conns, ReadEof(c) \/ ReadFails(c) \/ ShutdownEnds(c)
      PROVE  ServerTypeOK'
  BY <1>8 DEF ReadEof, ReadFails, ShutdownEnds
<1>9. CASE SendStarts
  BY <1>9 DEF SendStarts
<1>10. CASE SendStep
  BY <1>10 DEF SendStep, SendSelects, SendRefused, SendWrites, SendEnds, Ready
<1>11. CASE UNCHANGED serverVars
  BY <1>11 DEF serverVars
<1> QED
  BY <1>1, <1>2, <1>3, <1>4, <1>5, <1>6, <1>7, <1>8, <1>9, <1>10, <1>11
  DEF ServerNext, AcceptLoop, TaskStep

\* Every state has its type, whatever the numbers of connections, names and
\* permits are.
THEOREM ServerTypeCorrect == ServerSpec => []ServerTypeOK
<1>1. ServerInit => ServerTypeOK
  <2> SUFFICES ASSUME ServerInit PROVE ServerTypeOK
    OBVIOUS
  <2>1. permits \in Nat /\ proxied \in Int
    BY PermitsAssumption DEF ServerInit
  <2> QED
    BY <2>1 DEF ServerInit, ServerTypeOK, Tasks, IsHandled
<1> QED
  BY <1>1, ServerTypeNext, PTL DEF ServerSpec

-----------------------------------------------------------------------------
(* The registry *)

LEMMA RegistryNext == ServerTypeOK /\ RegistryInv /\ [ServerNext]_serverVars => RegistryInv'
<1> SUFFICES ASSUME ServerTypeOK, RegistryInv, [ServerNext]_serverVars PROVE RegistryInv'
  OBVIOUS
<1> USE NamesAssumption, ConnsAssumption DEF ServerTypeOK, IsHandled, RegistryInv,
      RegisteredIsHandled, LatestRegistered, Goes, acceptVars, registryVars, sendVars
<1>1. CASE AcquirePermit \/ AcceptFails
  BY <1>1 DEF AcquirePermit, AcceptFails
<1>2. ASSUME NEW c \in Conns, Accept(c) PROVE RegistryInv'
  BY <1>2 DEF Accept
<1>3. ASSUME NEW c \in Conns, HandshakeFails(c) \/ RoutedToUpstream(c) \/ ProxyEnds(c)
      PROVE  RegistryInv'
  BY <1>3 DEF HandshakeFails, RoutedToUpstream, ProxyEnds
<1>4. ASSUME NEW c \in Conns, NEW n \in Names, HandshakePassed(c, n) PROVE RegistryInv'
  BY <1>4 DEF HandshakePassed
<1>5. ASSUME NEW c \in Conns, LeaveProxied(c) \/ ReleasePermit(c) PROVE RegistryInv'
  BY <1>5 DEF LeaveProxied, ReleasePermit
<1>6. ASSUME NEW c \in Conns, Register(c) PROVE RegistryInv'
  BY <1>6 DEF Register
<1>7. ASSUME NEW c \in Conns, RemoveConnection(c) PROVE RegistryInv'
  BY <1>7 DEF RemoveConnection
<1>8. ASSUME NEW c \in Conns, ReadEof(c) \/ ReadFails(c) \/ ShutdownEnds(c)
      PROVE  RegistryInv'
  BY <1>8 DEF ReadEof, ReadFails, ShutdownEnds
<1>9. CASE SendStarts \/ SendStep
  BY <1>9 DEF SendStarts, SendStep, SendSelects, SendRefused, SendWrites, SendEnds
<1>10. CASE UNCHANGED serverVars
  BY <1>10 DEF serverVars
<1> QED
  BY <1>1, <1>2, <1>3, <1>4, <1>5, <1>6, <1>7, <1>8, <1>9, <1>10
  DEF ServerNext, AcceptLoop, TaskStep

LEMMA RegistryInvariant == ServerSpec => []RegistryInv
<1>1. ServerInit => RegistryInv
  BY DEF ServerInit, RegistryInv, RegisteredIsHandled, LatestRegistered
<1> QED
  BY <1>1, RegistryNext, ServerTypeCorrect, PTL DEF ServerSpec

\* No connection outlives its task in the registry.
THEOREM RegisteredHasTask == ServerSpec => []RegisteredIsHandled
<1>1. RegistryInv => RegisteredIsHandled
  BY DEF RegistryInv
<1> QED
  BY <1>1, RegistryInvariant, PTL

\* remove() of a replaced connection leaves its successor where it is.
THEOREM LatestStaysRegistered == ServerSpec => []LatestRegistered
<1>1. RegistryInv => LatestRegistered
  BY DEF RegistryInv
<1> QED
  BY <1>1, RegistryInvariant, PTL

-----------------------------------------------------------------------------
(* The permits *)

\* What a step of one task does to the sets of connections with a permit and
\* of connections that are counted.
LEMMA GoesSets ==
  ASSUME ServerTypeOK, NEW c \in Conns, NEW from \in Tasks, NEW to \in Tasks, Goes(c, from, to)
  PROVE  /\ Holders' = IF to \in {"handshake", "proxying", "leaving", "releasing"}
                       THEN Holders \cup {c} ELSE Holders \ {c}
         /\ Counted' = IF to \in {"handshake", "proxying", "leaving"}
                       THEN Counted \cup {c} ELSE Counted \ {c}
<1> USE DEF ServerTypeOK, Goes, Holders, Counted
<1>1. task' = [task EXCEPT ![c] = to]
  OBVIOUS
<1>2. \A d \in Conns : task'[d] = IF d = c THEN to ELSE task[d]
  BY <1>1
<1> QED
  BY <1>2

\* Counting a set that an element joins or leaves.
LEMMA Counting ==
  ASSUME NEW S \in SUBSET Conns, NEW c \in Conns
  PROVE  /\ Cardinality(S) \in Nat
         /\ Cardinality(S \cup {c}) = IF c \in S THEN Cardinality(S) ELSE Cardinality(S) + 1
         /\ Cardinality(S \ {c}) = IF c \in S THEN Cardinality(S) - 1 ELSE Cardinality(S)
<1>1. IsFiniteSet(S)
  BY ConnsAssumption, FS_Subset
<1> QED
  BY <1>1, FS_CardinalityType, FS_AddElement, FS_RemoveElement

LEMMA PermitsNext == ServerTypeOK /\ PermitsInv /\ [ServerNext]_serverVars => PermitsInv'
<1> SUFFICES ASSUME ServerTypeOK, PermitsInv, [ServerNext]_serverVars PROVE PermitsInv'
  OBVIOUS
<1> USE DEF acceptVars, PermitsInv, PermitsConserved
<1>a. Holders \in SUBSET Conns /\ Counted \in SUBSET Conns
  BY DEF Holders, Counted
<1>b. /\ permits \in Nat /\ proxied \in Int /\ accepting \in BOOLEAN
      /\ MaxProxiedConnections \in Nat
  BY PermitsAssumption DEF ServerTypeOK
<1>c. Cardinality(Holders) \in Nat /\ Cardinality(Counted) \in Nat
  BY <1>a, ConnsAssumption, FS_Subset, FS_CardinalityType
<1>d. ASSUME UNCHANGED task PROVE Holders' = Holders /\ Counted' = Counted
  BY <1>d DEF Holders, Counted
<1>e. ASSUME NEW c \in Conns, NEW from \in Tasks, NEW to \in Tasks, Goes(c, from, to)
      PROVE  /\ c \in Holders <=> from \in {"handshake", "proxying", "leaving", "releasing"}
             /\ c \in Counted <=> from \in {"handshake", "proxying", "leaving"}
  BY <1>e DEF Goes, Holders, Counted
<1>1. CASE AcquirePermit
  BY <1>1, <1>b, <1>c, <1>d DEF AcquirePermit
<1>2. CASE AcceptFails
  BY <1>2, <1>b, <1>c, <1>d DEF AcceptFails
<1>3. ASSUME NEW c \in Conns, Accept(c) PROVE PermitsInv'
  <2>1. Goes(c, "none", "handshake") /\ "none" \in Tasks /\ "handshake" \in Tasks
    BY <1>3 DEF Accept, Tasks
  <2>2. /\ Holders' = Holders \cup {c} /\ c \notin Holders
        /\ Counted' = Counted \cup {c} /\ c \notin Counted
    BY <2>1, <1>e, GoesSets
  <2>3. /\ Cardinality(Holders') = Cardinality(Holders) + 1
        /\ Cardinality(Counted') = Cardinality(Counted) + 1
    BY <2>2, <1>a, Counting
  <2> QED
    BY <2>3, <1>3, <1>b, <1>c DEF Accept
<1>4. ASSUME NEW c \in Conns, NEW to \in {"proxying", "leaving"}, NEW from \in {"handshake", "proxying"},
             Goes(c, from, to), UNCHANGED acceptVars
      PROVE  PermitsInv'
  <2>1. Holders' = Holders \cup {c} /\ c \in Holders /\ Counted' = Counted \cup {c} /\ c \in Counted
    BY <1>4, <1>e, GoesSets DEF Tasks
  <2> QED
    BY <2>1, <1>4
<1>5. ASSUME NEW c \in Conns, LeaveProxied(c) PROVE PermitsInv'
  <2>1. Goes(c, "leaving", "releasing") /\ "leaving" \in Tasks /\ "releasing" \in Tasks
    BY <1>5 DEF LeaveProxied, Tasks
  <2>2. Holders' = Holders \cup {c} /\ c \in Holders /\ Counted' = Counted \ {c} /\ c \in Counted
    BY <2>1, <1>e, GoesSets
  <2>3. Cardinality(Counted') = Cardinality(Counted) - 1 /\ Holders' = Holders
    BY <2>2, <1>a, Counting
  <2> QED
    BY <2>3, <1>5, <1>b, <1>c DEF LeaveProxied
<1>6. ASSUME NEW c \in Conns, ReleasePermit(c) PROVE PermitsInv'
  <2>1. PICK to \in {"none", "registering"} : Goes(c, "releasing", to)
    BY <1>6 DEF ReleasePermit
  <2>2. Holders' = Holders \ {c} /\ c \in Holders /\ Counted' = Counted \ {c} /\ c \notin Counted
    BY <2>1, <1>e, GoesSets DEF Tasks
  <2>3. Cardinality(Holders') = Cardinality(Holders) - 1 /\ Counted' = Counted
    BY <2>2, <1>a, Counting
  <2> QED
    BY <2>3, <1>6, <1>b, <1>c DEF ReleasePermit
<1>7. ASSUME NEW c \in Conns, NEW to \in {"handling", "closing", "removing", "none"},
             NEW from \in {"registering", "handling", "closing", "removing"},
             Goes(c, from, to), UNCHANGED acceptVars
      PROVE  PermitsInv'
  <2>1. Holders' = Holders \ {c} /\ c \notin Holders /\ Counted' = Counted \ {c} /\ c \notin Counted
    BY <1>7, <1>e, GoesSets DEF Tasks
  <2> QED
    BY <2>1, <1>7
<1>8. ASSUME NEW c \in Conns, TaskStep(c) PROVE PermitsInv'
  <2>1. CASE HandshakeFails(c) \/ RoutedToUpstream(c) \/ ProxyEnds(c)
    BY <2>1, <1>4 DEF HandshakeFails, RoutedToUpstream, ProxyEnds
  <2>2. CASE \E n \in Names : HandshakePassed(c, n)
    BY <2>2, <1>4 DEF HandshakePassed
  <2>3. CASE LeaveProxied(c) \/ ReleasePermit(c)
    BY <2>3, <1>5, <1>6
  <2>4. CASE Register(c) \/ RemoveConnection(c)
    BY <2>4, <1>7 DEF Register, RemoveConnection
  <2>5. CASE ReadEof(c) \/ ReadFails(c) \/ ShutdownEnds(c)
    BY <2>5, <1>7 DEF ReadEof, ReadFails, ShutdownEnds
  <2> QED
    BY <1>8, <2>1, <2>2, <2>3, <2>4, <2>5 DEF TaskStep
<1>9. CASE SendStarts \/ SendStep
  BY <1>9, <1>d DEF SendStarts, SendStep, SendSelects, SendRefused, SendWrites, SendEnds
<1>10. CASE UNCHANGED serverVars
  BY <1>10, <1>d DEF serverVars
<1> QED
  BY <1>1, <1>2, <1>3, <1>8, <1>9, <1>10 DEF ServerNext, AcceptLoop

LEMMA PermitsInvariant == ServerSpec => []PermitsInv
<1>1. ServerInit => PermitsInv
  <2> SUFFICES ASSUME ServerInit PROVE PermitsInv
    OBVIOUS
  <2>1. Holders = {} /\ Counted = {}
    BY DEF ServerInit, Holders, Counted
  <2> QED
    BY <2>1, FS_EmptySet, PermitsAssumption DEF ServerInit, PermitsInv, PermitsConserved
<1> QED
  BY <1>1, PermitsNext, ServerTypeCorrect, PTL DEF ServerSpec

\* No path of a connection loses its permit or returns it twice.
THEOREM PermitsAreConserved == ServerSpec => []PermitsConserved
<1>1. PermitsInv => PermitsConserved
  BY DEF PermitsInv
<1> QED
  BY <1>1, PermitsInvariant, PTL

\* The gauge stays within the limit: counted connections hold permits.
THEOREM GaugeStaysWithinLimit == ServerSpec => []GaugeWithinLimit
<1>1. ServerTypeOK /\ PermitsInv => GaugeWithinLimit
  <2> SUFFICES ASSUME ServerTypeOK, PermitsInv PROVE GaugeWithinLimit
    OBVIOUS
  <2>1. Counted \subseteq Holders /\ Holders \subseteq Conns
    BY DEF Counted, Holders
  <2>2. IsFiniteSet(Holders)
    BY <2>1, ConnsAssumption, FS_Subset
  <2>3. /\ Cardinality(Counted) <= Cardinality(Holders)
        /\ Cardinality(Counted) \in Nat /\ Cardinality(Holders) \in Nat
    BY <2>1, <2>2, FS_Subset, FS_CardinalityType
  <2> QED
    BY <2>3, PermitsAssumption
    DEF ServerTypeOK, PermitsInv, PermitsConserved, GaugeWithinLimit
<1> QED
  BY <1>1, PermitsInvariant, ServerTypeCorrect, PTL

-----------------------------------------------------------------------------
(* The first bytes of a connection *)

\* What beginning with something means, byte by byte.
LEMMA MatchesBytes ==
    ASSUME NEW s \in Seq(Bytes), NEW t \in Seq(Bytes)
    PROVE  Matches(s, t) <=> Len(s) <= Len(t) /\ \A k \in 1 .. Len(s) : s[k] = t[k]
<1>1. Len(s) \in Nat /\ Len(t) \in Nat
    OBVIOUS
<1>2. SubSeq(s, 1, Len(s)) = s
    BY SubSeqFull
<1>3. CASE Len(s) <= Len(t)
  <2>1. \A k \in 1 .. Len(s) : t[k] \in Bytes
    BY <1>1, <1>3
  <2>2. /\ SubSeq(t, 1, Len(s)) \in Seq(Bytes)
        /\ Len(SubSeq(t, 1, Len(s))) = Len(s)
        /\ \A k \in 1 .. Len(s) : SubSeq(t, 1, Len(s))[k] = t[k]
    BY <1>1, <1>3
  <2>3. SubSeq(t, 1, Len(s)) = s <=> \A k \in 1 .. Len(s) : s[k] = t[k]
    BY <2>2, SeqEqual
  <2> QED
    BY <1>2, <1>3, <2>3 DEF Matches, IsPrefix
<1> QED
    BY <1>1, <1>3 DEF Matches

\* A stream begins with what its beginning begins with.
LEMMA MatchesTransitive ==
    ASSUME NEW s \in Seq(Bytes), NEW t \in Seq(Bytes), NEW u \in Seq(Bytes),
           Matches(s, t), Matches(t, u)
    PROVE  Matches(s, u)
<1>1. Len(s) \in Nat /\ Len(t) \in Nat /\ Len(u) \in Nat
    OBVIOUS
<1> QED
    BY <1>1, MatchesBytes

\* Of two beginnings of a stream the longer one begins with the other.
LEMMA MatchesComparable ==
    ASSUME NEW s \in Seq(Bytes), NEW t \in Seq(Bytes), NEW u \in Seq(Bytes),
           Matches(s, u), Matches(t, u)
    PROVE  (Len(s) <= Len(t) /\ Matches(s, t)) \/ (Len(t) <= Len(s) /\ Matches(t, s))
<1>1. Len(s) \in Nat /\ Len(t) \in Nat /\ Len(u) \in Nat
    OBVIOUS
<1> QED
    BY <1>1, MatchesBytes

LEMMA MatchesConcat ==
    ASSUME NEW s \in Seq(Bytes), NEW t \in Seq(Bytes)
    PROVE  s \o t \in Seq(Bytes) /\ Matches(s, s \o t)
<1>1. Len(s) \in Nat /\ Len(t) \in Nat
    OBVIOUS
<1> DEFINE u == s \o t
<1>2. /\ u \in Seq(Bytes) /\ Len(u) = Len(s) + Len(t)
      /\ \A k \in 1 .. Len(s) : u[k] = s[k]
    BY <1>1, ConcatProperties
<1> HIDE DEF u
<1>3. Matches(s, u)
    BY <1>1, <1>2, MatchesBytes
<1> QED
    BY <1>2, <1>3 DEF u

\* A beginning of a stream and the rest of it.
LEMMA Cut ==
    ASSUME NEW s \in Seq(Bytes), NEW n \in 0 .. Len(s)
    PROVE  /\ SubSeq(s, 1, n) \in Seq(Bytes) /\ SubSeq(s, n + 1, Len(s)) \in Seq(Bytes)
           /\ Len(SubSeq(s, 1, n)) = n
           /\ SubSeq(s, 1, n) \o SubSeq(s, n + 1, Len(s)) = s
<1>1. Len(s) \in Nat /\ n \in Nat /\ n <= Len(s)
    OBVIOUS
<1>2. \A k \in 1 .. Len(s) : s[k] \in Bytes
    OBVIOUS
<1>3. SubSeq(s, 1, n) \in Seq(Bytes) /\ Len(SubSeq(s, 1, n)) = n
    BY <1>1, <1>2, SubSeqProperties
<1>4. SubSeq(s, n + 1, Len(s)) \in Seq(Bytes)
    BY <1>1, <1>2, SubSeqProperties
<1>5. SubSeq(s, 1, n) \o SubSeq(s, n + 1, Len(s)) = SubSeq(s, 1, Len(s))
  <2>1. 1 \in 1 .. Len(s) + 1 /\ n \in 1 - 1 .. Len(s) /\ Len(s) \in n .. Len(s)
    BY <1>1
  <2> QED
    BY <2>1, ConcatAdjacentSubSeq
<1>6. SubSeq(s, 1, Len(s)) = s
    BY SubSeqFull
<1> QED
    BY <1>3, <1>4, <1>5, <1>6

LEMMA MatchesCut ==
    ASSUME NEW s \in Seq(Bytes), NEW t \in Seq(Bytes), NEW m \in Nat, NEW n \in Nat,
           Matches(s, t), 1 <= m, n <= Len(s)
    PROVE  SubSeq(s, m, n) = SubSeq(t, m, n)
<1>1. /\ Len(s) \in Nat /\ Len(t) \in Nat /\ Len(s) <= Len(t)
      /\ \A k \in 1 .. Len(s) : s[k] = t[k] /\ s[k] \in Bytes
    BY MatchesBytes
<1>2. \A i \in m .. n : s[i] \in Bytes /\ t[i] \in Bytes /\ s[i] = t[i]
    BY <1>1
<1>3. /\ SubSeq(s, m, n) \in Seq(Bytes) /\ SubSeq(t, m, n) \in Seq(Bytes)
      /\ Len(SubSeq(s, m, n)) = IF m <= n THEN n - m + 1 ELSE 0
      /\ Len(SubSeq(t, m, n)) = IF m <= n THEN n - m + 1 ELSE 0
      /\ \A i \in 1 .. n - m + 1 : SubSeq(s, m, n)[i] = s[m + i - 1] /\ SubSeq(t, m, n)[i] = t[m + i - 1]
    BY <1>2, SubSeqProperties
<1>4. \A i \in 1 .. n - m + 1 : m + i - 1 \in m .. n
    OBVIOUS
<1>5. \A i \in 1 .. Len(SubSeq(s, m, n)) : SubSeq(s, m, n)[i] = SubSeq(t, m, n)[i]
    BY <1>2, <1>3, <1>4
<1> QED
    BY <1>3, <1>5, SeqEqual

-----------------------------------------------------------------------------
(* The routing rules *)

Rules == DOMAIN routing_rules

LEMMA RuleTypes ==
    ASSUME NEW i \in Rules
    PROVE  /\ i \in Nat \ {0}
           /\ routing_rules[i].protocol \in {"hiddenlink", "trojan"}
           /\ routing_rules[i].header \in Seq(Bytes)
           /\ routing_rules[i].header # <<>>
<1> DEFINE R == [protocol : {"hiddenlink", "trojan"}, header : Seq(Bytes) \ {<<>>}]
<1>1. \A r \in R : /\ r.protocol \in {"hiddenlink", "trojan"}
                  /\ r.header \in Seq(Bytes) /\ r.header # <<>>
    OBVIOUS
<1>2. routing_rules \in Seq(R)
    BY RulesAssumption
<1> HIDE DEF R
<1>3. i \in Nat \ {0} /\ routing_rules[i] \in R
    BY <1>2 DEF Rules
<1> QED
    BY <1>1, <1>3

\* All rules that a stream fits are the same.
LEMMA OneRule ==
    ASSUME NEW s \in Seq(Bytes), NEW i \in Rules, NEW j \in Rules,
           Matches(routing_rules[i].header, s), Matches(routing_rules[j].header, s)
    PROVE  routing_rules[i] = routing_rules[j]
<1>1. \/ Matches(routing_rules[i].header, routing_rules[j].header)
      \/ Matches(routing_rules[j].header, routing_rules[i].header)
    BY RuleTypes, MatchesComparable
<1> QED
    BY <1>1, RulesAssumption DEF Rules

LEMMA ProtocolOfRule ==
    ASSUME NEW s \in Seq(Bytes), NEW i \in Rules, Matches(routing_rules[i].header, s), ~other
    PROVE  Protocol(s) = routing_rules[i].protocol
<1> DEFINE fit == {j \in DOMAIN routing_rules : Matches(routing_rules[j].header, s)}
<1>1. i \in fit
    BY DEF Rules
<1>2. (CHOOSE j \in fit : TRUE) \in fit
    BY <1>1
<1>3. routing_rules[CHOOSE j \in fit : TRUE] = routing_rules[i]
    BY <1>2, OneRule DEF Rules
<1> QED
    BY <1>1, <1>3 DEF Protocol

LEMMA ProtocolOfNone ==
    ASSUME NEW s, \A i \in Rules : ~Matches(routing_rules[i].header, s)
    PROVE  Protocol(s) = "http"
BY DEF Protocol, Rules

\* A set of numbers has a least one.
LEMMA LeastNumber ==
    ASSUME NEW S \in SUBSET Nat, S # {}
    PROVE  Min(S) \in S
<1>1. PICK x \in S : \A y \in S : <<y, x>> \notin OpToRel(<, Nat)
    BY NatLessThanWellFounded, WFMin
<1>2. ASSUME NEW y \in S
      PROVE  x <= y
  <2>1. y < x => <<y, x>> \in OpToRel(<, Nat)
    BY DEF OpToRel
  <2>2. ~(y < x)
    BY <1>1, <2>1, Zenon
  <2> QED
    BY <2>2
<1> QED
    BY <1>2 DEF Min

\* Rule() is 0 or a rule that fits, and 0 only if none does.
LEMMA RuleFits ==
    ASSUME NEW s
    PROVE  /\ Rule(s) # 0 => Rule(s) \in Rules /\ Matches(routing_rules[Rule(s)].header, s)
           /\ Rule(s) = 0 => \A i \in Rules : ~Matches(routing_rules[i].header, s)
<1> DEFINE fit == {i \in DOMAIN routing_rules : Matches(routing_rules[i].header, s)}
<1>1. fit \in SUBSET Nat /\ 0 \notin fit
    BY RuleTypes DEF Rules
<1>2. fit # {} => Min(fit) \in fit
    BY <1>1, LeastNumber
<1>3. Rule(s) = IF fit = {} THEN 0 ELSE Min(fit)
    BY DEF Rule
<1>4. fit = {} => \A i \in Rules : ~Matches(routing_rules[i].header, s)
    BY DEF Rules
<1>5. \A i \in fit : i \in Rules /\ Matches(routing_rules[i].header, s)
    BY DEF Rules
<1> HIDE DEF fit
<1> QED
    BY <1>1, <1>2, <1>3, <1>4, <1>5

-----------------------------------------------------------------------------
(* The parts of a handshake *)

LEMMA TwoParts ==
    ASSUME NEW s \in Seq(Bytes), NEW t \in Seq(Bytes)
    PROVE  /\ s \o t \in Seq(Bytes) /\ Len(s \o t) = Len(s) + Len(t)
           /\ Len(s) \in Nat /\ Len(t) \in Nat
           /\ \A k \in 1 .. Len(s) : (s \o t)[k] = s[k]
           /\ \A k \in 1 .. Len(t) : (s \o t)[Len(s) + k] = t[k]
OBVIOUS

\* Where the parts of a sequence are found in it.
HasParts(h, a, b, c, d, e) ==
    /\ h \in Seq(Bytes)
    /\ Len(h) = Len(a) + Len(b) + Len(c) + Len(d) + Len(e)
    /\ \A k \in 1 .. Len(a) : h[k] = a[k]
    /\ \A k \in 1 .. Len(b) : h[Len(a) + k] = b[k]
    /\ \A k \in 1 .. Len(c) : h[Len(a) + Len(b) + k] = c[k]
    /\ \A k \in 1 .. Len(e) : h[Len(a) + Len(b) + Len(c) + Len(d) + k] = e[k]

LEMMA FiveParts ==
    ASSUME NEW a \in Seq(Bytes), NEW b \in Seq(Bytes), NEW c \in Seq(Bytes),
           NEW d \in Seq(Bytes), NEW e \in Seq(Bytes)
    PROVE  HasParts(a \o b \o c \o d \o e, a, b, c, d, e)
<1> DEFINE ab == a \o b
           abc == ab \o c
           abcd == abc \o d
<1>2. /\ ab \in Seq(Bytes) /\ Len(ab) = Len(a) + Len(b) /\ Len(a) \in Nat /\ Len(b) \in Nat
      /\ \A k \in 1 .. Len(a) : ab[k] = a[k]
      /\ \A k \in 1 .. Len(b) : ab[Len(a) + k] = b[k]
    BY TwoParts, Zenon
<1> HIDE DEF ab
<1>3. /\ abc \in Seq(Bytes) /\ Len(abc) = Len(ab) + Len(c) /\ Len(ab) \in Nat /\ Len(c) \in Nat
      /\ \A k \in 1 .. Len(ab) : abc[k] = ab[k]
      /\ \A k \in 1 .. Len(c) : abc[Len(ab) + k] = c[k]
    BY <1>2, TwoParts, Zenon
<1> HIDE DEF abc
<1>4. /\ abcd \in Seq(Bytes) /\ Len(abcd) = Len(abc) + Len(d) /\ Len(abc) \in Nat /\ Len(d) \in Nat
      /\ \A k \in 1 .. Len(abc) : abcd[k] = abc[k]
    BY <1>3, TwoParts, Zenon
<1> DEFINE abcde == abcd \o e
<1> DEFINE h == a \o b \o c \o d \o e
<1>5. h = abcde
    BY DEF abc, ab
<1> HIDE DEF h
<1> HIDE DEF abcd
<1>6. /\ abcde \in Seq(Bytes) /\ Len(abcde) = Len(abcd) + Len(e)
      /\ Len(abcd) \in Nat /\ Len(e) \in Nat
      /\ \A k \in 1 .. Len(abcd) : abcde[k] = abcd[k]
      /\ \A k \in 1 .. Len(e) : abcde[Len(abcd) + k] = e[k]
    BY <1>4, TwoParts, Zenon
<1> HIDE DEF abcde
<1>7. Len(abcd) = Len(a) + Len(b) + Len(c) + Len(d) /\ Len(abc) = Len(a) + Len(b) + Len(c)
    BY <1>2, <1>3, <1>4
<1>8. ASSUME NEW k \in 1 .. Len(a)
      PROVE  h[k] = a[k]
  <2>1. k \in 1 .. Len(ab) /\ k \in 1 .. Len(abc) /\ k \in 1 .. Len(abcd)
    BY <1>2, <1>3, <1>4
  <2> QED
    BY <1>2, <1>3, <1>4, <1>5, <1>6, <2>1, Zenon
<1>9. ASSUME NEW k \in 1 .. Len(b)
      PROVE  h[Len(a) + k] = b[k]
  <2>1. Len(a) + k \in 1 .. Len(ab) /\ Len(a) + k \in 1 .. Len(abc) /\ Len(a) + k \in 1 .. Len(abcd)
    BY <1>2, <1>3, <1>4
  <2>2. ab[Len(a) + k] = b[k] /\ abc[Len(a) + k] = ab[Len(a) + k]
    BY <1>2, <1>3, <2>1, Zenon
  <2>3. abcd[Len(a) + k] = abc[Len(a) + k] /\ h[Len(a) + k] = abcd[Len(a) + k]
    BY <1>4, <1>5, <1>6, <2>1, Zenon
  <2> QED
    BY <2>2, <2>3, Zenon
<1>10. ASSUME NEW k \in 1 .. Len(c)
       PROVE  h[Len(a) + Len(b) + k] = c[k]
  <2>1. Len(ab) + k \in 1 .. Len(abc) /\ Len(ab) + k \in 1 .. Len(abcd)
    BY <1>2, <1>3, <1>4
  <2> QED
    BY <1>2, <1>3, <1>4, <1>5, <1>6, <2>1, Zenon
<1>11. Len(h) = Len(a) + Len(b) + Len(c) + Len(d) + Len(e)
    BY <1>5, <1>6, <1>7
<1> QED
    BY <1>5, <1>6, <1>7, <1>8, <1>9, <1>10, <1>11 DEF h, HasParts

\* A part of a sequence is what is found at its place.
LEMMA PartIs ==
    ASSUME NEW s \in Seq(Bytes), NEW p \in Seq(Bytes), NEW n \in Nat,
           n + Len(p) <= Len(s), \A k \in 1 .. Len(p) : s[n + k] = p[k]
    PROVE  SubSeq(s, n + 1, n + Len(p)) = p
<1>1. Len(s) \in Nat /\ Len(p) \in Nat /\ \A i \in 1 .. Len(s) : s[i] \in Bytes
    OBVIOUS
<1>2. \A i \in n + 1 .. n + Len(p) : s[i] \in Bytes
    BY <1>1
<1> DEFINE q == SubSeq(s, n + 1, n + Len(p))
<1>3. /\ q \in Seq(Bytes)
      /\ Len(q) = IF n + 1 <= n + Len(p) THEN n + Len(p) - (n + 1) + 1 ELSE 0
      /\ \A i \in 1 .. n + Len(p) - (n + 1) + 1 : q[i] = s[n + 1 + i - 1]
    BY <1>1, <1>2, SubSeqProperties
<1> HIDE DEF q
<1>4. Len(q) = Len(p)
    BY <1>1, <1>3
<1>5. \A i \in 1 .. Len(p) : q[i] = p[i]
  <2>1. \A i \in 1 .. Len(p) : i \in 1 .. n + Len(p) - (n + 1) + 1 /\ n + 1 + i - 1 = n + i
    BY <1>1
  <2> QED
    BY <1>3, <2>1
<1> QED
    BY <1>3, <1>4, <1>5, SeqEqual DEF q

\* A part of a sequence by the place it begins behind and its size.
LEMMA PartTypes ==
    ASSUME NEW s \in Seq(Bytes), NEW from \in Nat, NEW size \in Nat, from + size <= Len(s)
    PROVE  /\ SubSeq(s, from + 1, from + size) \in Seq(Bytes)
           /\ Len(SubSeq(s, from + 1, from + size)) = size
           /\ \A k \in 1 .. size : SubSeq(s, from + 1, from + size)[k] = s[from + k]
<1>1. \A k \in from + 1 .. from + size : s[k] \in Bytes
    OBVIOUS
<1> DEFINE q == SubSeq(s, from + 1, from + size)
<1>2. /\ q \in Seq(Bytes)
      /\ Len(q) = IF from + 1 <= from + size THEN from + size - (from + 1) + 1 ELSE 0
      /\ \A k \in 1 .. from + size - (from + 1) + 1 : q[k] = s[from + 1 + k - 1]
    BY <1>1, SubSeqProperties
<1> HIDE DEF q
<1>3. Len(q) = size
    BY <1>2
<1>4. ASSUME NEW k \in 1 .. size
      PROVE  q[k] = s[from + k]
  <2>1. k \in 1 .. from + size - (from + 1) + 1 /\ from + 1 + k - 1 = from + k
    OBVIOUS
  <2> QED
    BY <1>2, <2>1
<1> QED
    BY <1>2, <1>3, <1>4 DEF q

\* A beginning of a sequence in five parts.
InParts(s, k, l, m, n, o) ==
    SubSeq(s, 1, o) = SubSeq(s, 1, k) \o SubSeq(s, k + 1, l) \o SubSeq(s, l + 1, m)
                          \o SubSeq(s, m + 1, n) \o SubSeq(s, n + 1, o)

LEMMA InFiveParts ==
    ASSUME NEW s \in Seq(Bytes), NEW k \in Nat, NEW l \in Nat, NEW m \in Nat, NEW n \in Nat,
           NEW o \in Nat, k <= l, l <= m, m <= n, n <= o, o <= Len(s)
    PROVE  InParts(s, k, l, m, n, o)
<1>1. ASSUME NEW i \in Nat, NEW j \in Nat, i <= j, j <= Len(s)
      PROVE  SubSeq(s, 1, i) \o SubSeq(s, i + 1, j) = SubSeq(s, 1, j)
  <2>1. 1 \in 1 .. Len(s) + 1 /\ i \in 1 - 1 .. Len(s) /\ j \in i .. Len(s)
    BY <1>1
  <2> QED
    BY <2>1, ConcatAdjacentSubSeq
<1>2. k <= Len(s) /\ l <= Len(s) /\ m <= Len(s) /\ n <= Len(s)
    OBVIOUS
<1> QED
    BY <1>1, <1>2, Zenon DEF InParts

\* What is verified of a handshake whose parts end at k, l, m, n and o.
PartsEnd(s, k, l, m, n, o) ==
    /\ l = k + 3 /\ m = l + s[k + 2] /\ n = m + s[k + 3] /\ o = n + Len(HeaderSuffix)
    /\ l <= Len(s) /\ o <= Len(s)

IsChecked(s, i, k, l, m, n, o) ==
    /\ routing_rules[i].protocol = "hiddenlink"
    /\ routing_rules[i].header = SubSeq(s, 1, k)
    /\ s[k + 1] \in ValidFlags
    /\ ValidName(SubSeq(s, l + 1, m))
    /\ SubSeq(s, n + 1, o) = HeaderSuffix

LEMMA CheckedIsHandshake ==
    ASSUME NEW s \in Seq(Bytes), NEW i \in Rules,
           NEW k \in Nat, NEW l \in Nat, NEW m \in Nat, NEW n \in Nat, NEW o \in Nat,
           PartsEnd(s, k, l, m, n, o), IsChecked(s, i, k, l, m, n, o)
    PROVE  SubSeq(s, 1, o) \in Handshakes
<1>0. /\ l = k + 3 /\ m = l + s[k + 2] /\ n = m + s[k + 3] /\ o = n + Len(HeaderSuffix)
      /\ l <= Len(s) /\ o <= Len(s)
    BY DEF PartsEnd
<1> DEFINE static == SubSeq(s, k + 1, l)
           name == SubSeq(s, l + 1, m)
           payload == SubSeq(s, m + 1, n)
<1>1. /\ Len(s) \in Nat /\ Len(HeaderSuffix) \in Nat /\ Bytes \subseteq Nat
      /\ \A j \in 1 .. Len(s) : s[j] \in Bytes
    BY RulesAssumption
<1>2. k + 1 \in 1 .. Len(s) /\ k + 2 \in 1 .. Len(s) /\ k + 3 \in 1 .. Len(s)
    BY <1>0, <1>1
<1>3. s[k + 2] \in Bytes /\ s[k + 3] \in Bytes /\ s[k + 2] \in Nat /\ s[k + 3] \in Nat
    BY <1>1, <1>2
<1>4. k <= l /\ l <= m /\ m <= n /\ n <= o /\ m <= Len(s) /\ n <= Len(s)
  <2> DEFINE x == s[k + 2]
             y == s[k + 3]
             z == Len(HeaderSuffix)
             size == Len(s)
  <2>1. /\ x \in Nat /\ y \in Nat /\ z \in Nat /\ size \in Nat
        /\ l = k + 3 /\ m = l + x /\ n = m + y /\ o = n + z /\ o <= size
    BY <1>0, <1>1, <1>3, Zenon
  <2> HIDE DEF x, y, z, size
  <2>2. k <= l /\ l <= m /\ m <= n /\ n <= o /\ m <= size /\ n <= size
    BY <2>1
  <2> QED
    BY <2>2 DEF size
<1>5. static = <<s[k + 1], s[k + 2], s[k + 3]>>
  <2>1. SubSeq(s, k + 1, k + 3) = <<s[k + 1], s[k + 2], s[k + 3]>>
    <3>1. /\ SubSeq(s, k + 1, k + 3) \in Seq(Bytes)
          /\ Len(SubSeq(s, k + 1, k + 3)) = 3
          /\ \A j \in 1 .. 3 : SubSeq(s, k + 1, k + 3)[j] = s[k + j]
      <4>1. 3 \in Nat /\ k + 3 <= Len(s)
        BY <1>0
      <4> QED
        BY <4>1, PartTypes, Zenon
    <3>2. 1 \in 1 .. 3 /\ 2 \in 1 .. 3 /\ 3 \in 1 .. 3
      OBVIOUS
    <3> DEFINE t == SubSeq(s, k + 1, k + 3)
    <3> HIDE DEF t
    <3>3. t \in Seq(Bytes) /\ Len(t) = 3 /\ t[1] = s[k + 1] /\ t[2] = s[k + 2] /\ t[3] = s[k + 3]
      BY <3>1, <3>2, Zenon DEF t
    <3>4. t = <<t[1], t[2], t[3]>>
      BY <3>3
    <3> QED
      BY <3>3, <3>4, Zenon DEF t
  <2> QED
    BY <1>0, <2>1, Zenon
<1>6. name \in Seq(Bytes) /\ Len(name) = s[k + 2]
  <2>1. l + s[k + 2] <= Len(s)
    BY <1>0, <1>4
  <2>2. /\ SubSeq(s, l + 1, l + s[k + 2]) \in Seq(Bytes)
        /\ Len(SubSeq(s, l + 1, l + s[k + 2])) = s[k + 2]
    BY <1>3, <2>1, PartTypes, Zenon
  <2> QED
    BY <1>0, <2>2, Zenon
<1>7. payload \in Seq(Bytes) /\ Len(payload) = s[k + 3]
  <2>1. m + s[k + 3] <= Len(s)
    BY <1>0, <1>4
  <2>2. /\ SubSeq(s, m + 1, m + s[k + 3]) \in Seq(Bytes)
        /\ Len(SubSeq(s, m + 1, m + s[k + 3])) = s[k + 3]
    BY <1>3, <2>1, PartTypes, Zenon
  <2> QED
    BY <1>0, <2>2, Zenon
<1>8. SubSeq(s, 1, o) = SubSeq(s, 1, k) \o static \o name \o payload \o SubSeq(s, n + 1, o)
  <2>1. o <= Len(s)
    BY <1>0
  <2>2. InParts(s, k, l, m, n, o)
    BY <1>4, <2>1, InFiveParts, Zenon
  <2> QED
    BY <2>2, Zenon DEF InParts
<1> HIDE DEF static, name, payload
<1>9. name \in Strings /\ payload \in Strings
  <2>1. ASSUME NEW string \in Seq(Bytes), Len(string) \in Bytes
        PROVE  string \in Strings
    <3>1. string \in [1 .. Len(string) -> Bytes]
      OBVIOUS
    <3> QED
      BY <2>1, <3>1 DEF Strings
  <2> QED
    BY <1>3, <1>6, <1>7, <2>1, Zenon
<1>10. SubSeq(s, 1, o) = HandshakeOf(i, s[k + 1], name, payload)
  <2>1. /\ routing_rules[i].header = SubSeq(s, 1, k) /\ SubSeq(s, n + 1, o) = HeaderSuffix
    BY DEF IsChecked
  <2> QED
    BY <1>5, <1>6, <1>7, <1>8, <2>1, Zenon DEF HandshakeOf
<1>11. /\ routing_rules[i].protocol = "hiddenlink" /\ s[k + 1] \in ValidFlags /\ ValidName(name)
    BY DEF IsChecked, name
<1> QED
    BY <1>9, <1>10, <1>11 DEF Handshakes, Rules

\* A stream that begins with a handshake, byte by byte.
LEMMA HandshakeParts ==
    ASSUME NEW s \in Seq(Bytes), BeginsWithHandshake(s)
    PROVE  \E i \in Rules :
             LET n == Len(routing_rules[i].header)
                 name == n + StaticHeaderSize
                 suffix == name + s[n + 2] + s[n + 3]
             IN  /\ routing_rules[i].protocol = "hiddenlink"
                 /\ Matches(routing_rules[i].header, s)
                 /\ Len(s) >= name /\ Len(s) >= suffix + Len(HeaderSuffix)
                 /\ s[n + 1] \in ValidFlags
                 /\ ValidName(SubSeq(s, name + 1, name + s[n + 2]))
                 /\ SubSeq(s, suffix + 1, suffix + Len(HeaderSuffix)) = HeaderSuffix
<1>1. PICK h \in Handshakes : Matches(h, s)
    BY DEF BeginsWithHandshake
<1>2. PICK i \in Rules, f \in ValidFlags, name \in Strings, payload \in Strings :
          /\ routing_rules[i].protocol = "hiddenlink" /\ ValidName(name)
          /\ h = HandshakeOf(i, f, name, payload)
    BY DEF Handshakes, Rules
<1> DEFINE header == routing_rules[i].header
           static == <<f, Len(name), Len(payload)>>
<1>3. \A string \in Strings : string \in Seq(Bytes) /\ Len(string) \in Bytes
  <2>1. SUFFICES ASSUME NEW n \in Bytes, NEW string \in [1 .. n -> Bytes]
                 PROVE  string \in Seq(Bytes) /\ Len(string) \in Bytes
    BY DEF Strings
  <2>2. n \in Nat
    BY RulesAssumption
  <2> QED
    BY <2>2
<1>4. header \in Seq(Bytes) /\ HeaderSuffix \in Seq(Bytes) /\ f \in Bytes /\ Bytes \subseteq Nat
    BY RuleTypes, RulesAssumption
<1>5. /\ static \in Seq(Bytes) /\ Len(static) = 3
      /\ static[1] = f /\ static[2] = Len(name) /\ static[3] = Len(payload)
    BY <1>3, <1>4
<1>6. h = header \o static \o name \o payload \o HeaderSuffix
    BY <1>2 DEF HandshakeOf
<1> HIDE DEF header, static
<1>7. /\ h \in Seq(Bytes)
      /\ Len(h) = Len(header) + Len(static) + Len(name) + Len(payload) + Len(HeaderSuffix)
      /\ \A k \in 1 .. Len(header) : h[k] = header[k]
      /\ \A k \in 1 .. Len(static) : h[Len(header) + k] = static[k]
      /\ \A k \in 1 .. Len(name) : h[Len(header) + Len(static) + k] = name[k]
      /\ \A k \in 1 .. Len(HeaderSuffix) :
             h[Len(header) + Len(static) + Len(name) + Len(payload) + k] = HeaderSuffix[k]
  <2>1. header \in Seq(Bytes) /\ HeaderSuffix \in Seq(Bytes)
    BY <1>4
  <2>2. name \in Seq(Bytes) /\ payload \in Seq(Bytes)
    BY <1>3
  <2>3. static \in Seq(Bytes)
    BY <1>5
  <2>4. HasParts(h, header, static, name, payload, HeaderSuffix)
    BY <1>6, <2>1, <2>2, <2>3, FiveParts, Zenon
  <2> QED
    BY <2>4 DEF HasParts
<1>8. Len(header) \in Nat /\ Len(name) \in Nat /\ Len(payload) \in Nat /\ Len(HeaderSuffix) \in Nat
    BY <1>3, <1>4
<1>9. Len(h) <= Len(s) /\ \A k \in 1 .. Len(h) : h[k] = s[k]
    BY <1>1, <1>7, MatchesBytes
<1> DEFINE n == Len(header)
           at == n + StaticHeaderSize
           suffix == at + s[n + 2] + s[n + 3]
<1>10. s[n + 1] = f /\ s[n + 2] = Len(name) /\ s[n + 3] = Len(payload)
  <2>1. \A k \in 1 .. 3 : n + k \in 1 .. Len(h)
    BY <1>5, <1>7, <1>8
  <2>2. \A k \in 1 .. 3 : s[n + k] = static[k]
    BY <1>5, <1>7, <1>9, <2>1
  <2>3. 1 \in 1 .. 3 /\ 2 \in 1 .. 3 /\ 3 \in 1 .. 3
    OBVIOUS
  <2> QED
    BY <1>5, <2>2, <2>3
<1>11. Matches(header, s)
  <2>1. Len(header) <= Len(h)
    BY <1>5, <1>7, <1>8
  <2>2. Matches(header, h)
    BY <1>4, <1>7, <2>1, MatchesBytes
  <2> QED
    BY <1>1, <1>4, <1>7, <2>2, MatchesTransitive
<1>12. Len(s) >= at /\ Len(s) >= suffix + Len(HeaderSuffix)
  <2>1. Len(s) \in Nat
    OBVIOUS
  <2> QED
    BY <1>5, <1>7, <1>8, <1>9, <1>10, <2>1 DEF StaticHeaderSize
<1>13. SubSeq(s, at + 1, at + Len(name)) = name
  <2>1. at \in Nat /\ at + Len(name) <= Len(s)
    BY <1>8, <1>10, <1>12 DEF StaticHeaderSize
  <2>2. \A k \in 1 .. Len(name) : at + k \in 1 .. Len(h) /\ h[at + k] = name[k]
    BY <1>5, <1>7, <1>8 DEF StaticHeaderSize
  <2>3. \A k \in 1 .. Len(name) : s[at + k] = name[k]
    BY <1>9, <2>2
  <2> HIDE DEF at
  <2> QED
    BY <1>3, <2>1, <2>3, PartIs
<1>14. SubSeq(s, suffix + 1, suffix + Len(HeaderSuffix)) = HeaderSuffix
  <2>1. suffix = n + 3 + Len(name) + Len(payload)
    BY <1>8, <1>10 DEF StaticHeaderSize
  <2>2. suffix \in Nat /\ suffix + Len(HeaderSuffix) <= Len(s)
    BY <1>8, <1>12, <2>1
  <2>3. suffix = Len(header) + Len(static) + Len(name) + Len(payload)
    BY <1>5, <1>8, <2>1
  <2> HIDE DEF suffix
  <2>4. \A k \in 1 .. Len(HeaderSuffix) : suffix + k \in 1 .. Len(h)
    BY <1>5, <1>7, <1>8, <2>1
  <2>5. \A k \in 1 .. Len(HeaderSuffix) : s[suffix + k] = HeaderSuffix[k]
    BY <1>7, <1>9, <2>3, <2>4, Zenon
  <2> QED
    BY <1>4, <2>2, <2>5, PartIs
<1>15. routing_rules[i].protocol = "hiddenlink" /\ s[n + 1] \in ValidFlags
    BY <1>2, <1>10
<1>16. ValidName(SubSeq(s, at + 1, at + s[n + 2]))
    BY <1>2, <1>10, <1>13
<1> QED
    BY <1>11, <1>12, <1>14, <1>15, <1>16, Zenon DEF header

-----------------------------------------------------------------------------
(* The invariant of the handshake *)

\* The header of a tunnel has been read.
IsTunnelHeader(header) ==
    \E i \in Rules : routing_rules[i].protocol = "hiddenlink" /\ routing_rules[i].header = header

\* Nothing is lost between what has been read and what has not.
ReadInv == buf \o rest = stream

\* What has been read so far does not decide.
RoutingInv ==
    stage = "routing" =>
        /\ index = 0
        /\ Rule(buf) = 0
        /\ buf # <<>> => ~other /\ PartialMatch(buf)

\* How far the handshake has been read and verified.
TunnelInv ==
    stage \in {"static", "request", "responding"} =>
        /\ ~other
        /\ IsTunnelHeader(SubSeq(buf, 1, index))
        /\ stage # "static" => Len(buf) >= index + StaticHeaderSize
        /\ stage = "responding" => Len(buf) >= handshake_size /\ Valid

HandshakeInv == TypeOK /\ ReadInv /\ RoutingInv /\ TunnelInv /\ RoutedByContent /\ PassedIsHandshake

\* Another read: the bytes that have been read are still the first ones.
LEMMA ReadBufKeeps ==
    ASSUME TypeOK, ReadInv, ReadBuf, stream' = stream
    PROVE  /\ buf' \in Seq(Bytes) /\ rest' \in Seq(Bytes) /\ ReadInv'
           /\ Matches(buf, buf') /\ Len(buf) <= Len(buf') /\ buf' # <<>>
<1>1. PICK size \in 1 .. Len(rest) :
          /\ buf' = buf \o SubSeq(rest, 1, size)
          /\ rest' = SubSeq(rest, size + 1, Len(rest))
    BY DEF ReadBuf
<1>2. /\ buf \in Seq(Bytes) /\ rest \in Seq(Bytes) /\ size \in 0 .. Len(rest)
      /\ Len(buf) \in Nat /\ size \in Nat /\ size > 0
    BY DEF TypeOK
<1> DEFINE piece == SubSeq(rest, 1, size)
<1>3. /\ piece \in Seq(Bytes) /\ rest' \in Seq(Bytes) /\ piece \o rest' = rest
      /\ Len(piece) = size
    BY <1>1, <1>2, Cut
<1> HIDE DEF piece
<1>4. buf' = buf \o piece
    BY <1>1 DEF piece
<1>5. buf' \in Seq(Bytes) /\ Matches(buf, buf')
    BY <1>2, <1>3, <1>4, MatchesConcat
<1>6. buf' \o rest' = stream
  <2>1. ASSUME NEW a \in Seq(Bytes), NEW b \in Seq(Bytes), NEW c \in Seq(Bytes)
        PROVE  (a \o b) \o c = a \o (b \o c)
    OBVIOUS
  <2> QED
    BY <1>2, <1>3, <1>4, <2>1, Zenon DEF ReadInv
<1>7. Len(buf') = Len(buf) + size
    BY <1>2, <1>3, <1>4, TwoParts
<1>8. buf' # <<>> /\ Len(buf) <= Len(buf')
    BY <1>2, <1>5, <1>7
<1> QED
    BY <1>3, <1>5, <1>6, <1>8 DEF ReadInv

\* What has been read is what the stream begins with.
LEMMA ReadIsPrefix ==
    ASSUME TypeOK, ReadInv
    PROVE  Matches(buf, stream) /\ buf \in Seq(Bytes) /\ stream \in Seq(Bytes)
BY MatchesConcat DEF TypeOK, ReadInv

\* No rule fits a stream if what has been read neither fits one nor could.
LEMMA NoRuleFits ==
    ASSUME NEW s \in Seq(Bytes), NEW t \in Seq(Bytes), Matches(s, t),
           Rule(s) = 0, ~PartialMatch(s) \/ s = t
    PROVE  Protocol(t) = "http"
<1>1. ASSUME NEW i \in Rules, Matches(routing_rules[i].header, t)
      PROVE  FALSE
  <2>1. ~Matches(routing_rules[i].header, s)
    BY RuleFits
  <2>2. Matches(s, routing_rules[i].header)
    BY <1>1, <2>1, RuleTypes, MatchesComparable
  <2> QED
    BY <1>1, <2>1, <2>2 DEF PartialMatch, Rules
<1> QED
    BY <1>1, ProtocolOfNone

\* The headers are not empty.
LEMMA NoRuleForNothing == Rule(<<>>) = 0
<1>1. SUFFICES ASSUME NEW i \in Rules, Matches(routing_rules[i].header, <<>>)
               PROVE  FALSE
    BY RuleFits
<1>2. Len(routing_rules[i].header) <= 0 /\ Len(routing_rules[i].header) \in Nat
    BY <1>1, RuleTypes DEF Matches
<1>3. Len(routing_rules[i].header) = 0
    BY <1>2
<1> QED
    BY <1>3, RuleTypes, EmptySeq

LEMMA HandshakeInit == Init => HandshakeInv
<1> SUFFICES ASSUME Init PROVE HandshakeInv
    OBVIOUS
<1>1. stream \in Seq(Bytes) /\ rest = stream /\ buf = <<>>
    BY RulesAssumption DEF Init
<1>2. <<>> \in Seq(Bytes) /\ Len(<<>>) = 0 /\ <<>> \o stream = stream
    BY <1>1
<1>3. TypeOK
    BY <1>1, <1>2 DEF Init, TypeOK, Decisions
<1>4. ReadInv /\ RoutingInv
    BY <1>1, <1>2, NoRuleForNothing DEF Init, ReadInv, RoutingInv
<1>5. TunnelInv /\ RoutedByContent /\ PassedIsHandshake
    BY DEF Init, TunnelInv, RoutedByContent, PassedIsHandshake
<1> QED
    BY <1>3, <1>4, <1>5 DEF HandshakeInv

\* A decision that is not one for a tunnel.
LEMMA DecideKeeps ==
    ASSUME HandshakeInv, stage # "decided",
           NEW what \in {"http", "trojan", "closed"}, NEW data \in Seq(Bytes), Decide(what, data),
           UNCHANGED input, TypeOK', ReadInv',
           what \in {"http", "trojan"} => Protocol(stream) = what /\ data \o rest' = stream
    PROVE  HandshakeInv'
<1>1. /\ stage' = "decided" /\ decision' = what /\ preread' = data
      /\ stream' = stream /\ other' = other
    BY DEF Decide, input
<1>2. RoutingInv' /\ TunnelInv' /\ PassedIsHandshake'
    BY <1>1 DEF RoutingInv, TunnelInv, PassedIsHandshake
<1>3. RoutedByContent'
    BY <1>1 DEF RoutedByContent, Protocol
<1> QED
    BY <1>2, <1>3 DEF HandshakeInv

\* A step of the same connection that does not decide.
LEMMA NoDecision ==
    ASSUME decision = "none", decision' = decision
    PROVE  RoutedByContent' /\ PassedIsHandshake'
BY DEF RoutedByContent, PassedIsHandshake

LEMMA DecisionTypes ==
    ASSUME TypeOK, NEW what \in {"http", "trojan", "hiddenlink", "closed"}, NEW data \in Seq(Bytes),
           Decide(what, data), UNCHANGED <<input, rest, buf, index>>
    PROVE  TypeOK'
BY DEF TypeOK, Decide, Decisions, input

LEMMA ReadHeaderInv ==
    ASSUME HandshakeInv, ReadHeader
    PROVE  HandshakeInv'
<1>1. /\ stage = "routing" /\ ~other /\ ReadBuf /\ Route(buf')
      /\ UNCHANGED input /\ stream' = stream /\ other' = other /\ ending' = ending
    BY DEF ReadHeader, input
<1>2. /\ TypeOK /\ ReadInv /\ index = 0 /\ decision = "none" /\ preread \in Seq(Bytes)
      /\ stream \in Seq(Bytes)
    BY <1>1 DEF HandshakeInv, RoutingInv, TypeOK
<1>3. /\ buf' \in Seq(Bytes) /\ rest' \in Seq(Bytes) /\ ReadInv' /\ buf' # <<>>
    BY <1>1, <1>2, ReadBufKeeps
<1>4. Matches(buf', stream) /\ buf' \o rest' = stream
    BY <1>1, <1>3, MatchesConcat DEF ReadInv
<1>5. 0 \in 0 .. Len(buf')
    BY <1>3
<1>6. CASE Rule(buf') # 0 /\ routing_rules[Rule(buf')].protocol = "hiddenlink"
  <2> DEFINE i == Rule(buf')
  <2>1. i \in Rules /\ Matches(routing_rules[i].header, buf') /\ i # 0
    BY <1>6, RuleFits
  <2> HIDE DEF i
  <2>2. /\ routing_rules[i].header \in Seq(Bytes)
        /\ Len(routing_rules[i].header) \in Nat
    BY <2>1, RuleTypes
  <2>3. stage' = "static" /\ index' = Len(routing_rules[i].header) /\ UNCHANGED <<decision, preread>>
    BY <1>1, <1>6 DEF Route, i
  <2>4. /\ index' \in 0 .. Len(buf')
        /\ SubSeq(buf', 1, index') = routing_rules[i].header
    <3>1. Len(routing_rules[i].header) <= Len(buf') /\ IsPrefix(routing_rules[i].header, buf')
      BY <2>1 DEF Matches
    <3>2. SubSeq(routing_rules[i].header, 1, Len(routing_rules[i].header)) = routing_rules[i].header
      BY <2>2, SubSeqFull
    <3> QED
      BY <1>3, <2>2, <2>3, <3>1, <3>2 DEF IsPrefix
  <2>5. TypeOK'
    BY <1>1, <1>2, <1>3, <2>3, <2>4 DEF TypeOK
  <2>6. IsTunnelHeader(SubSeq(buf', 1, index'))
    BY <1>6, <2>1, <2>4 DEF IsTunnelHeader, i
  <2>7. RoutingInv' /\ TunnelInv'
    BY <1>1, <2>3, <2>6 DEF RoutingInv, TunnelInv
  <2> QED
    BY <1>2, <1>3, <2>3, <2>5, <2>7, NoDecision DEF HandshakeInv
<1>7. CASE Rule(buf') # 0 /\ routing_rules[Rule(buf')].protocol = "trojan"
  <2>1. Decide("trojan", buf') /\ index' = index
    BY <1>1, <1>7 DEF Route
  <2>2. Protocol(stream) = "trojan"
    <3>1. Rule(buf') \in Rules /\ Matches(routing_rules[Rule(buf')].header, buf')
      BY <1>7, RuleFits
    <3>2. Matches(routing_rules[Rule(buf')].header, stream)
      BY <1>2, <1>3, <1>4, <3>1, RuleTypes, MatchesTransitive
    <3> QED
      BY <1>1, <1>2, <1>7, <3>1, <3>2, ProtocolOfRule
  <2>3. TypeOK'
    BY <1>1, <1>2, <1>3, <1>5, <2>1 DEF TypeOK, Decide, Decisions
  <2> QED
    BY <1>1, <1>3, <1>4, <2>1, <2>2, <2>3, DecideKeeps
<1>8. CASE Rule(buf') = 0 /\ PartialMatch(buf')
  <2>1. UNCHANGED <<stage, index, decision, preread>>
    BY <1>1, <1>8 DEF Route
  <2>2. TypeOK'
    BY <1>1, <1>2, <1>3, <1>5, <2>1 DEF TypeOK
  <2>3. RoutingInv' /\ TunnelInv'
    BY <1>1, <1>2, <1>8, <2>1 DEF RoutingInv, TunnelInv
  <2> QED
    BY <1>2, <1>3, <2>1, <2>2, <2>3, NoDecision DEF HandshakeInv
<1>9. CASE Rule(buf') = 0 /\ ~PartialMatch(buf')
  <2>1. Decide("http", buf') /\ index' = index
    BY <1>1, <1>9 DEF Route
  <2>2. Protocol(stream) = "http"
    BY <1>2, <1>3, <1>4, <1>9, NoRuleFits
  <2>3. TypeOK'
    BY <1>1, <1>2, <1>3, <1>5, <2>1 DEF TypeOK, Decide, Decisions
  <2> QED
    BY <1>1, <1>3, <1>4, <2>1, <2>2, <2>3, DecideKeeps
<1>10. Rule(buf') # 0 => routing_rules[Rule(buf')].protocol \in {"hiddenlink", "trojan"}
    BY RuleFits, RuleTypes
<1> QED
    BY <1>6, <1>7, <1>8, <1>9, <1>10

LEMMA ReadHandshakeInv ==
    ASSUME HandshakeInv, ReadHandshake
    PROVE  HandshakeInv'
<1>1. /\ stage \in {"static", "request"} /\ ReadBuf
      /\ UNCHANGED <<input, stage, index, decision, preread>>
      /\ stream' = stream /\ other' = other /\ ending' = ending
    BY DEF ReadHandshake, Short, input
<1>2. /\ TypeOK /\ ReadInv /\ TunnelInv /\ decision = "none" /\ buf \in Seq(Bytes)
      /\ index \in 0 .. Len(buf)
    BY <1>1 DEF HandshakeInv, TypeOK
<1>3. /\ buf' \in Seq(Bytes) /\ rest' \in Seq(Bytes) /\ ReadInv'
      /\ Matches(buf, buf') /\ Len(buf) <= Len(buf')
    BY <1>1, <1>2, ReadBufKeeps
<1>4. index' \in 0 .. Len(buf')
    BY <1>1, <1>2, <1>3
<1>5. TypeOK'
    BY <1>1, <1>2, <1>3, <1>4 DEF TypeOK
<1>6. SubSeq(buf', 1, index) = SubSeq(buf, 1, index)
  <2>1. 1 \in Nat /\ index \in Nat /\ 1 <= 1 /\ index <= Len(buf)
    BY <1>2
  <2> QED
    BY <1>2, <1>3, <2>1, MatchesCut, Zenon
<1>7. stage # "static" => Len(buf') >= index + StaticHeaderSize
    BY <1>1, <1>2, <1>3 DEF TunnelInv, StaticHeaderSize
<1>8. RoutingInv' /\ TunnelInv'
    BY <1>1, <1>2, <1>6, <1>7 DEF RoutingInv, TunnelInv
<1> QED
    BY <1>1, <1>2, <1>3, <1>5, <1>8, NoDecision DEF HandshakeInv

\* The numbers of a handshake, when its static part has been read.
LEMMA HandshakeNumbers ==
    ASSUME TypeOK, Len(buf) >= index + StaticHeaderSize
    PROVE  /\ index \in Nat /\ Len(buf) \in Nat
           /\ flags \in Bytes /\ name_len \in Nat /\ fake_http_request_size \in Nat
           /\ name_index = index + StaticHeaderSize
           /\ suffix_index = name_index + name_len + fake_http_request_size
           /\ handshake_size = suffix_index + Len(HeaderSuffix)
           /\ Len(HeaderSuffix) \in Nat
<1>1. /\ index \in Nat /\ Len(buf) \in Nat /\ Bytes \subseteq Nat
      /\ \A k \in 1 .. Len(buf) : buf[k] \in Bytes
      /\ Len(HeaderSuffix) \in Nat
    BY RulesAssumption DEF TypeOK
<1>2. \A k \in {1, 2, 3} : index + k \in 1 .. Len(buf)
    BY <1>1 DEF StaticHeaderSize
<1>3. flags \in Bytes /\ name_len \in Nat /\ fake_http_request_size \in Nat
    BY <1>1, <1>2 DEF flags, name_len, fake_http_request_size
<1> QED
    BY <1>1, <1>3 DEF name_index, suffix_index, handshake_size

\* What begins with a handshake, if it fits the rule that has been found, has
\* everything that is waited for and that is checked.
LEMMA HandshakeSuffices ==
    ASSUME TypeOK, TunnelInv, stage \in {"static", "request"},
           NEW s \in Seq(Bytes), Matches(buf, s), BeginsWithHandshake(s)
    PROVE  /\ Len(s) >= Needed
           /\ stage = "request" /\ ~Short => Valid
<1>1. PICK i \in Rules :
          LET n == Len(routing_rules[i].header)
              name == n + StaticHeaderSize
              suffix == name + s[n + 2] + s[n + 3]
          IN  /\ routing_rules[i].protocol = "hiddenlink"
              /\ Matches(routing_rules[i].header, s)
              /\ Len(s) >= name /\ Len(s) >= suffix + Len(HeaderSuffix)
              /\ s[n + 1] \in ValidFlags
              /\ ValidName(SubSeq(s, name + 1, name + s[n + 2]))
              /\ SubSeq(s, suffix + 1, suffix + Len(HeaderSuffix)) = HeaderSuffix
    BY HandshakeParts
<1>2. /\ buf \in Seq(Bytes) /\ index \in 0 .. Len(buf) /\ Len(buf) \in Nat
      /\ Len(buf) <= Len(s) /\ \A k \in 1 .. Len(buf) : buf[k] = s[k]
    BY MatchesBytes DEF TypeOK
<1>3. PICK j \in Rules : routing_rules[j].header = SubSeq(buf, 1, index)
    BY DEF TunnelInv, IsTunnelHeader
<1>4. Len(routing_rules[j].header) = index /\ routing_rules[j].header \in Seq(Bytes)
    BY <1>2, <1>3, Cut
<1>5. Matches(routing_rules[j].header, buf)
  <2>1. /\ SubSeq(buf, index + 1, Len(buf)) \in Seq(Bytes)
        /\ routing_rules[j].header \o SubSeq(buf, index + 1, Len(buf)) = buf
    BY <1>2, <1>3, Cut
  <2>2. Matches(routing_rules[j].header,
                routing_rules[j].header \o SubSeq(buf, index + 1, Len(buf)))
    BY <1>4, <2>1, MatchesConcat
  <2> QED
    BY <2>1, <2>2, Zenon
<1>6. Matches(routing_rules[j].header, s)
    BY <1>2, <1>4, <1>5, MatchesTransitive
<1>7. routing_rules[i] = routing_rules[j]
    BY <1>1, <1>6, OneRule
<1>8. /\ Len(s) >= index + StaticHeaderSize
      /\ Len(s) >= index + StaticHeaderSize + s[index + 2] + s[index + 3] + Len(HeaderSuffix)
      /\ s[index + 1] \in ValidFlags
      /\ ValidName(SubSeq(s, index + StaticHeaderSize + 1, index + StaticHeaderSize + s[index + 2]))
      /\ LET suffix == index + StaticHeaderSize + s[index + 2] + s[index + 3]
         IN  SubSeq(s, suffix + 1, suffix + Len(HeaderSuffix)) = HeaderSuffix
    BY <1>1, <1>4, <1>7
<1>9. CASE stage = "static"
    BY <1>8, <1>9 DEF Needed
<1>10. CASE stage = "request"
  <2>1. Len(buf) >= index + StaticHeaderSize
    BY <1>10 DEF TunnelInv
  <2>2. flags = s[index + 1] /\ name_len = s[index + 2] /\ fake_http_request_size = s[index + 3]
    <3>1. \A k \in {1, 2, 3} : index + k \in 1 .. Len(buf)
      BY <1>2, <2>1 DEF StaticHeaderSize
    <3> QED
      BY <1>2, <3>1 DEF flags, name_len, fake_http_request_size
  <2>3. /\ index \in Nat /\ Len(buf) \in Nat /\ name_len \in Nat /\ fake_http_request_size \in Nat
        /\ name_index = index + StaticHeaderSize
        /\ suffix_index = name_index + name_len + fake_http_request_size
        /\ handshake_size = suffix_index + Len(HeaderSuffix)
        /\ Len(HeaderSuffix) \in Nat
    BY <2>1, HandshakeNumbers
  <2>4. Len(s) >= Needed
    BY <1>8, <1>10, <2>2, <2>3 DEF Needed
  <2>5. ASSUME ~Short
        PROVE  Valid
    <3>1. Len(buf) >= handshake_size
      BY <1>10, <2>3, <2>5 DEF Short, Needed
    <3>2. /\ suffix_index \in Nat /\ suffix_index + Len(HeaderSuffix) <= Len(buf)
          /\ name_index \in Nat /\ name_index + name_len <= Len(buf)
      BY <2>3, <3>1 DEF StaticHeaderSize
    <3>3. \A m, n \in Nat : 1 <= m /\ n <= Len(buf) => SubSeq(buf, m, n) = SubSeq(s, m, n)
      BY <1>2, MatchesCut
    <3>4. /\ SubSeq(buf, suffix_index + 1, suffix_index + Len(HeaderSuffix))
                 = SubSeq(s, suffix_index + 1, suffix_index + Len(HeaderSuffix))
          /\ SubSeq(buf, name_index + 1, name_index + name_len)
                 = SubSeq(s, name_index + 1, name_index + name_len)
      <4>0. name_len \in Nat /\ Len(HeaderSuffix) \in Nat
        BY <2>3
      <4>1. /\ suffix_index + 1 \in Nat /\ suffix_index + Len(HeaderSuffix) \in Nat
            /\ name_index + 1 \in Nat /\ name_index + name_len \in Nat
            /\ 1 <= suffix_index + 1 /\ 1 <= name_index + 1
        BY <3>2, <4>0
      <4> QED
        BY <3>2, <3>3, <4>1
    <3>5. flags \in ValidFlags
      BY <1>8, <2>2
    <3>6. /\ suffix_index = index + StaticHeaderSize + s[index + 2] + s[index + 3]
          /\ name_index = index + StaticHeaderSize
      BY <2>2, <2>3
    <3>7. SuffixIs(buf)
      BY <1>8, <3>4, <3>6, Zenon DEF SuffixIs
    <3>8. ValidName(NameIs(buf))
      BY <1>8, <2>2, <3>4, <3>6, Zenon DEF NameIs
    <3> QED
      BY <3>5, <3>7, <3>8 DEF Valid
  <2> QED
    BY <2>4, <2>5
<1> QED
    BY <1>9, <1>10

\* The other steps read nothing.
LEMMA OtherStepsInv ==
    ASSUME HandshakeInv,
           \/ SkipRouting \/ HeaderEnds \/ HandshakeEnds \/ ReadStatic \/ Refuse
           \/ AcceptHandshake \/ Respond \/ Drop
    PROVE  HandshakeInv'
<1>1. /\ TypeOK /\ ReadInv /\ UNCHANGED <<input, rest, buf, index>> /\ <<>> \in Seq(Bytes)
      /\ stage # "decided"
    BY DEF HandshakeInv, SkipRouting, HeaderEnds, HandshakeEnds, Short, ReadStatic, Refuse,
           AcceptHandshake, Respond, Drop
<1>2. /\ stream' = stream /\ other' = other /\ ReadInv'
      /\ buf \in Seq(Bytes) /\ rest \in Seq(Bytes) /\ stream \in Seq(Bytes)
      /\ decision = "none"
    BY <1>1 DEF input, ReadInv, TypeOK
<1>3. CASE SkipRouting
  <2>1. Decide("http", <<>>) /\ stage = "routing" /\ other
    BY <1>3 DEF SkipRouting
  <2>2. buf = <<>>
    BY <2>1 DEF HandshakeInv, RoutingInv
  <2>3. Protocol(stream) = "http" /\ <<>> \o rest' = stream
    BY <1>1, <1>2, <2>1, <2>2 DEF Protocol, ReadInv
  <2>4. TypeOK'
    BY <1>1, <2>1, DecisionTypes
  <2> QED
    BY <1>1, <1>2, <2>1, <2>3, <2>4, DecideKeeps
<1>4. CASE HeaderEnds
  <2>1. Decide("http", buf) /\ stage = "routing" /\ rest = <<>>
    BY <1>4 DEF HeaderEnds, AtEnd
  <2>2. buf = stream /\ buf \o rest' = stream
    BY <1>1, <1>2, <2>1 DEF ReadInv
  <2>3. Protocol(stream) = "http"
    <3>1. Rule(stream) = 0
      BY <2>1, <2>2 DEF HandshakeInv, RoutingInv
    <3>2. Matches(stream, stream)
      BY <1>2, MatchesBytes
    <3> QED
      BY <1>2, <3>1, <3>2, NoRuleFits
  <2>4. TypeOK'
    BY <1>1, <1>2, <2>1, DecisionTypes
  <2> QED
    BY <1>1, <1>2, <2>1, <2>2, <2>3, <2>4, DecideKeeps
<1>5. CASE HandshakeEnds \/ Refuse \/ Drop
  <2>1. Decide("closed", <<>>)
    BY <1>5 DEF HandshakeEnds, Refuse, Drop
  <2>2. TypeOK'
    BY <1>1, <2>1, DecisionTypes
  <2> QED
    BY <1>1, <1>2, <2>1, <2>2, DecideKeeps
<1>6. CASE ReadStatic \/ AcceptHandshake
  <2>1. /\ stage \in {"static", "request"} /\ ~Short
        /\ UNCHANGED <<decision, preread>>
        /\ \/ stage = "static" /\ stage' = "request"
           \/ stage = "request" /\ stage' = "responding" /\ Valid
    BY <1>6 DEF ReadStatic, AcceptHandshake
  <2>2. /\ TunnelInv /\ index \in Nat /\ Len(buf) \in Nat /\ Len(HeaderSuffix) \in Nat
    BY RulesAssumption DEF HandshakeInv, TypeOK
  <2>3. /\ Len(buf) >= index + StaticHeaderSize
        /\ stage' = "responding" => Len(buf) >= handshake_size
    <3>1. CASE stage = "static"
      BY <2>1, <2>2, <3>1 DEF Short, Needed, StaticHeaderSize
    <3>2. CASE stage = "request"
      <4>1. Len(buf) >= index + StaticHeaderSize
        BY <2>2, <3>2 DEF TunnelInv
      <4>2. handshake_size \in Nat
        BY <1>1, <2>2, <4>1, HandshakeNumbers DEF StaticHeaderSize
      <4> QED
        BY <2>1, <2>2, <3>2, <4>1, <4>2 DEF Short, Needed
    <3> QED
      BY <2>1, <3>1, <3>2
  <2>4. handshake_size' = handshake_size /\ Valid' = Valid
    BY <1>1 DEF handshake_size, suffix_index, name_index, name_len, fake_http_request_size,
                Valid, SuffixIs, NameIs, flags
  <2>5. RoutingInv' /\ TunnelInv'
    BY <1>1, <1>2, <2>1, <2>2, <2>3, <2>4 DEF RoutingInv, TunnelInv
  <2>6. TypeOK'
    BY <1>1, <1>2, <2>1 DEF TypeOK, input
  <2> QED
    BY <1>2, <2>1, <2>5, <2>6, NoDecision DEF HandshakeInv
<1>7. CASE Respond
  <2> DEFINE data == SubSeq(buf, handshake_size + 1, Len(buf))
  <2>1. stage = "responding" /\ Decide("hiddenlink", data)
    BY <1>7 DEF Respond
  <2>2. /\ ~other /\ Len(buf) >= handshake_size /\ Valid
        /\ Len(buf) >= index + StaticHeaderSize
        /\ IsTunnelHeader(SubSeq(buf, 1, index))
    BY <2>1 DEF HandshakeInv, TunnelInv
  <2>3. /\ index \in Nat /\ Len(buf) \in Nat
        /\ flags \in Bytes /\ name_len \in Nat /\ fake_http_request_size \in Nat
        /\ name_index = index + StaticHeaderSize
        /\ suffix_index = name_index + name_len + fake_http_request_size
        /\ handshake_size = suffix_index + Len(HeaderSuffix)
        /\ Len(HeaderSuffix) \in Nat
    BY <1>1, <2>2, HandshakeNumbers
  <2>4. handshake_size \in 0 .. Len(buf) /\ index \in 0 .. Len(buf)
    BY <2>2, <2>3 DEF StaticHeaderSize
  <2> DEFINE h == SubSeq(buf, 1, handshake_size)
  <2>5. h \in Seq(Bytes) /\ data \in Seq(Bytes) /\ h \o data = buf
    BY <1>2, <2>4, Cut
  <2>6. h \in Handshakes
    <3>1. PICK i \in Rules : /\ routing_rules[i].protocol = "hiddenlink"
                            /\ routing_rules[i].header = SubSeq(buf, 1, index)
      BY <2>2 DEF IsTunnelHeader
    <3> DEFINE name_end == name_index + name_len
    <3>2. /\ name_index \in Nat /\ name_end \in Nat /\ suffix_index \in Nat /\ handshake_size \in Nat
          /\ name_index = index + 3
          /\ name_index <= Len(buf) /\ handshake_size <= Len(buf)
          /\ suffix_index = name_end + fake_http_request_size
      BY <2>2, <2>3 DEF StaticHeaderSize
    <3>3. /\ flags = buf[index + 1] /\ name_len = buf[index + 2]
          /\ fake_http_request_size = buf[index + 3]
      BY DEF flags, name_len, fake_http_request_size
    <3>4. PartsEnd(buf, index, name_index, name_end, suffix_index, handshake_size)
      BY <2>3, <3>2, <3>3 DEF PartsEnd
    <3>5. IsChecked(buf, i, index, name_index, name_end, suffix_index, handshake_size)
      BY <2>2, <2>3, <3>1, <3>3 DEF IsChecked, Valid, NameIs, SuffixIs
    <3> HIDE DEF name_end
    <3> QED
      BY <1>2, <2>3, <3>1, <3>2, <3>4, <3>5, CheckedIsHandshake, Zenon
  <2> HIDE DEF h, data
  <2>7. stream = h \o (data \o rest)
    <3>1. h \in Seq(Bytes) /\ data \in Seq(Bytes) /\ rest \in Seq(Bytes)
      BY <1>2, <2>5
    <3>2. (h \o data) \o rest = h \o (data \o rest)
      BY <3>1
    <3> QED
      BY <1>1, <2>5, <3>2, Zenon DEF ReadInv
  <2>8. Protocol(stream) = "hiddenlink"
    <3>1. PICK i \in Rules : /\ routing_rules[i].protocol = "hiddenlink"
                            /\ routing_rules[i].header = SubSeq(buf, 1, index)
      BY <2>2 DEF IsTunnelHeader
    <3>2. /\ SubSeq(buf, 1, index) \in Seq(Bytes)
          /\ SubSeq(buf, index + 1, Len(buf)) \in Seq(Bytes)
          /\ SubSeq(buf, 1, index) \o SubSeq(buf, index + 1, Len(buf)) = buf
      BY <1>2, <2>4, Cut
    <3>3. Matches(SubSeq(buf, 1, index), buf)
      BY <3>2, MatchesConcat
    <3>4. Matches(buf, stream)
      BY <1>1, ReadIsPrefix
    <3>5. Matches(routing_rules[i].header, stream)
      BY <1>2, <3>1, <3>2, <3>3, <3>4, MatchesTransitive
    <3> QED
      BY <1>2, <2>2, <3>1, <3>5, ProtocolOfRule
  <2>9. stage' = "decided" /\ decision' = "hiddenlink" /\ preread' = data /\ rest' = rest
    BY <1>1, <2>1 DEF Decide
  <2>10. PassedIsHandshake'
    BY <1>2, <2>6, <2>7, <2>8, <2>9 DEF PassedIsHandshake, IsHandshake, Protocol
  <2>11. RoutingInv' /\ TunnelInv' /\ RoutedByContent'
    BY <2>9 DEF RoutingInv, TunnelInv, RoutedByContent
  <2>12. TypeOK'
    BY <1>1, <2>1, <2>5, DecisionTypes
  <2> QED
    BY <1>2, <2>10, <2>11, <2>12 DEF HandshakeInv
<1> QED
    BY <1>3, <1>4, <1>5, <1>6, <1>7

LEMMA HandshakeStep ==
    ASSUME HandshakeInv, [Next]_vars
    PROVE  HandshakeInv'
<1>1. CASE UNCHANGED vars
    BY <1>1 DEF vars, input, HandshakeInv, TypeOK, ReadInv, RoutingInv, TunnelInv, RoutedByContent,
                PassedIsHandshake, Protocol, Valid, SuffixIs, NameIs, flags, name_len,
                fake_http_request_size, name_index, suffix_index, handshake_size
<1> QED
    BY <1>1, ReadHeaderInv, ReadHandshakeInv, OtherStepsInv DEF Next

-----------------------------------------------------------------------------
(* The theorems about the handshake *)

\* Whatever pieces a stream comes in: what has been read is its beginning, the
\* rule found is the one it fits, and what was verified is there.
THEOREM HandshakeInvariance == Spec => []HandshakeInv
<1>1. HandshakeInv /\ [Next]_vars => HandshakeInv'
    BY HandshakeStep
<1> QED
    BY HandshakeInit, <1>1, PTL DEF Spec

\* The decision of the router is that of the whole stream, and nothing of the
\* stream is lost.
THEOREM StreamsRoutedByContent == Spec => []RoutedByContent
<1>1. HandshakeInv => RoutedByContent
    BY DEF HandshakeInv
<1> QED
    BY <1>1, HandshakeInvariance, PTL

\* A tunnel's connection has sent a handshake, behind which the packets begin.
THEOREM TunnelsHaveHandshakes == Spec => []PassedIsHandshake
<1>1. HandshakeInv => PassedIsHandshake
    BY DEF HandshakeInv
<1> QED
    BY <1>1, HandshakeInvariance, PTL

\* What is refused, or ends too early, is no handshake.
THEOREM RefusedHasNone == Spec => RefusedIsNone
<1> DEFINE A == Refuse \/ HandshakeEnds => ~other /\ ~BeginsWithHandshake(stream)
<1>1. ASSUME HandshakeInv PROVE A
  <2>1. SUFFICES ASSUME Refuse \/ HandshakeEnds, BeginsWithHandshake(stream) \/ other
                 PROVE  FALSE
    OBVIOUS
  <2>2. TypeOK /\ ReadInv /\ TunnelInv /\ stage \in {"static", "request"}
    BY <1>1, <2>1 DEF HandshakeInv, Refuse, HandshakeEnds, Short
  <2>3. ~other /\ BeginsWithHandshake(stream)
    BY <2>1, <2>2 DEF TunnelInv
  <2>4. Matches(buf, stream) /\ buf \in Seq(Bytes) /\ stream \in Seq(Bytes)
    BY <2>2, ReadIsPrefix
  <2>5. Len(stream) >= Needed /\ (stage = "request" /\ ~Short => Valid)
    BY <2>2, <2>3, <2>4, HandshakeSuffices
  <2>6. CASE Refuse
    BY <2>5, <2>6 DEF Refuse
  <2>7. CASE HandshakeEnds
    <3>1. rest = <<>> /\ Len(buf) < Needed
      BY <2>7 DEF HandshakeEnds, AtEnd, Short
    <3>2. buf = stream
      BY <2>2, <2>4, <3>1 DEF ReadInv
    <3>3. Needed \in Nat
      <4>1. Len(buf) >= index + StaticHeaderSize => handshake_size \in Nat
        BY <2>2, HandshakeNumbers DEF StaticHeaderSize
      <4> QED
        BY <2>2, <4>1 DEF Needed, TunnelInv, TypeOK, StaticHeaderSize
    <3> QED
      BY <2>4, <2>5, <3>1, <3>2, <3>3
  <2> QED
    BY <2>1, <2>6, <2>7
<1>2. HandshakeInv => [A]_vars
    BY <1>1
<1> HIDE DEF A
<1>3. Spec => [][A]_vars
    BY <1>2, HandshakeInvariance, PTL DEF Spec
<1> QED
    BY <1>3 DEF A, RefusedIsNone

\* The server waits only for bytes without which it cannot decide.
THEOREM WaitsAreNeeded == Spec => []NoNeedlessWait
<1>1. ASSUME HandshakeInv PROVE NoNeedlessWait
  <2>1. TypeOK /\ buf \in Seq(Bytes)
    BY <1>1 DEF HandshakeInv, TypeOK
  <2>2. ASSUME stage = "routing", buf # <<>>
        PROVE  \E i \in DOMAIN routing_rules : IsStrictPrefix(buf, routing_rules[i].header)
    <3>1. Rule(buf) = 0 /\ PartialMatch(buf)
      BY <1>1, <2>2 DEF HandshakeInv, RoutingInv
    <3>2. PICK i \in Rules : Matches(buf, routing_rules[i].header)
      BY <3>1 DEF PartialMatch, Rules
    <3>3. ~Matches(routing_rules[i].header, buf)
      BY <3>1, RuleFits
    <3>4. buf # routing_rules[i].header
      BY <3>2, <3>3, Zenon
    <3> QED
      BY <3>2, <3>4 DEF Matches, IsStrictPrefix, Rules
  <2>3. ASSUME Short, BeginsWithHandshake(buf)
        PROVE  FALSE
    <3>1. Matches(buf, buf)
      BY <2>1, MatchesBytes
    <3>2. TunnelInv /\ stage \in {"static", "request"} /\ Len(buf) < Needed
      BY <1>1, <2>3 DEF HandshakeInv, Short
    <3>3. Len(buf) >= Needed
      BY <2>1, <2>3, <3>1, <3>2, HandshakeSuffices
    <3>4. Needed \in Nat
      <4>1. Len(buf) >= index + StaticHeaderSize => handshake_size \in Nat
        BY <2>1, HandshakeNumbers DEF StaticHeaderSize
      <4> QED
        BY <2>1, <3>2, <4>1 DEF Needed, TunnelInv, TypeOK, StaticHeaderSize
    <3> QED
      BY <2>1, <3>2, <3>3, <3>4
  <2> QED
    BY <2>2, <2>3 DEF NoNeedlessWait
<1> QED
    BY <1>1, HandshakeInvariance, PTL
=============================================================================
