--------------------------- MODULE ControllerProofs ---------------------------
(***************************************************************************)
(* The names of transports and connections, and the choice of a transport, *)
(* for all configurations, with any number of transports and connections.  *)
(***************************************************************************)
EXTENDS Controller, FiniteSetTheorems, SequenceTheorems, TLAPS

\* Where a connection is found in the registry.
IsAt(c, n) == registry[c[1]][n] = c

\* Nothing is sent before all transports are made, and nothing else remembers
\* what has been ready.
PhaseInv ==
    /\ phase = "receiving" => asked = 0 /\ steady = {}
    /\ phase # "receiving" => Started
    /\ phase \in {"asking", "selecting"} => at >= 1
    /\ phase = "selecting" => at \in Made

\* A connection that has been ready since recv() is still to be asked, or has
\* been found ready.
AheadInv ==
    \A c \in steady :
        /\ phase # "receiving" => at <= c[1]
        /\ phase = "asking" /\ at = c[1] =>
               \E n \in asked + 1 .. Len(registry[at]) : IsAt(c, n)
        /\ phase = "selecting" /\ at = c[1] =>
               \/ found # <<>>
               \/ \E n \in asked + 1 .. Len(registry[at]) : IsAt(c, n)

\* names of new()
NamesInv == \A i, j \in Made : i # j => Name(i) # Name(j)

ControllerInv == TypeOK /\ PhaseInv /\ AheadInv /\ NamesInv /\ RefusedForAName

-----------------------------------------------------------------------------
(* Names *)

\* The transports of a kind up to some place are finitely many.
LEMMA KindsAreFinite ==
    ASSUME NEW n \in Nat, NEW kind
    PROVE  /\ IsFiniteSet(OfKind(kind, n))
           /\ Cardinality(OfKind(kind, n)) \in Nat
<1>1. IsFiniteSet(1 .. n)
    BY FS_Interval
<1>2. OfKind(kind, n) \in SUBSET (1 .. n)
    BY DEF OfKind
<1> QED
    BY <1>1, <1>2, FS_Subset, FS_CardinalityType

\* Two transports of one kind get numbers.
LEMMA TwoAreNumbered ==
    ASSUME NEW n \in Nat, NEW i \in 1 .. n, NEW j \in 1 .. n, i # j,
           config[i].kind = config[j].kind
    PROVE  Cardinality(OfKind(config[i].kind, n)) > 1
<1> DEFINE S == OfKind(config[i].kind, n)
<1>1. IsFiniteSet(S) /\ Cardinality(S) \in Nat
    BY KindsAreFinite
<1>2. i \in S /\ j \in S
    BY DEF OfKind
<1>3. Cardinality(S) # 0
    BY <1>1, <1>2, FS_EmptySet
<1>4. Cardinality(S) # 1
  <2>1. SUFFICES ASSUME NEW x, S = {x}
                 PROVE  FALSE
    BY <1>1, FS_Singleton
  <2> HIDE DEF S
  <2> QED
    BY <1>2, <2>1
<1> HIDE DEF S
<1>5. Cardinality(S) > 1
    BY <1>1, <1>3, <1>4
<1> QED
    BY <1>5 DEF S

\* The numbers of one kind grow.
LEMMA NumbersGrow ==
    ASSUME NEW n \in Nat, NEW i \in 1 .. n, NEW j \in 1 .. n, j < i,
           config[i].kind = config[j].kind
    PROVE  Cardinality(OfKind(config[j].kind, j)) # Cardinality(OfKind(config[i].kind, i))
<1> DEFINE S == OfKind(config[i].kind, i)
           T == OfKind(config[j].kind, j)
<1>1. IsFiniteSet(S) /\ IsFiniteSet(T)
    BY KindsAreFinite
<1>2. T \in SUBSET S
    BY DEF OfKind
<1>3. i \in S /\ i \notin T
    BY DEF OfKind
<1> HIDE DEF S, T
<1>4. Cardinality(T) # Cardinality(S)
    BY <1>1, <1>2, <1>3, FS_Subset
<1> QED
    BY <1>4 DEF S, T

\* What a name looks like.
LEMMA NameForms ==
    ASSUME TypeOK, NEW i \in DOMAIN config
    PROVE  /\ config[i].name # None => Name(i) = <<config[i].name>>
           /\ config[i].name = None /\ Cardinality(OfKind(config[i].kind, Len(config))) > 1 =>
                  Name(i) = <<config[i].kind, Cardinality(OfKind(config[i].kind, i))>>
           /\ config[i].name = None /\ ~(Cardinality(OfKind(config[i].kind, Len(config))) > 1) =>
                  Name(i) = <<config[i].kind>>
    BY DEF Name, AutoName

LEMMA ConfigTypes ==
    ASSUME TypeOK
    PROVE  /\ Len(config) \in Nat
           /\ DOMAIN config = 1 .. Len(config)
           /\ \A i \in DOMAIN config :
                  /\ config[i].kind \in Kinds
                  /\ config[i].name \in Names \cup {None}
                  /\ config[i].connections \in Nat \ {0}
<1> DEFINE Line == [kind : Kinds, name : Names \cup {None}, connections : Nat \ {0}]
<1>1. config \in Seq(Line)
    BY ConfigsAssumption DEF TypeOK
<1>2. Len(config) \in Nat /\ DOMAIN config = 1 .. Len(config)
    BY <1>1
<1>3. \A i \in DOMAIN config : config[i] \in Line
  <2> HIDE DEF Line
  <2> QED
    BY <1>1
<1>4. \A l \in Line : /\ l.kind \in Kinds
                     /\ l.name \in Names \cup {None}
                     /\ l.connections \in Nat \ {0}
    OBVIOUS
<1> HIDE DEF Line
<1> QED
    BY <1>2, <1>3, <1>4

\* Names agree only if they are given.
LEMMA NamesCollide ==
    ASSUME TypeOK, NEW i \in DOMAIN config, NEW j \in DOMAIN config, j < i,
           Name(i) = Name(j)
    PROVE  \/ config[i].name # None /\ config[j].name # None /\ config[i].name = config[j].name
           \/ config[i].name # None /\ config[i].name \in Kinds
           \/ config[j].name # None /\ config[j].name \in Kinds
<1> DEFINE Many(k) == Cardinality(OfKind(config[k].kind, Len(config))) > 1
           Number(k) == Cardinality(OfKind(config[k].kind, k))
<1>1. /\ Len(config) \in Nat
      /\ i \in 1 .. Len(config) /\ j \in 1 .. Len(config)
      /\ config[i].kind \in Kinds /\ config[j].kind \in Kinds
    BY ConfigTypes
<1>2. config[i].kind = config[j].kind => Many(i) /\ Many(j)
  <2>1. ASSUME config[i].kind = config[j].kind
        PROVE  Many(i)
    BY <1>1, <2>1, TwoAreNumbered
  <2> QED
    BY <2>1
<1>3. config[i].kind = config[j].kind => Number(i) # Number(j)
    BY <1>1, NumbersGrow
<1>4. \A k \in {i, j} :
          /\ config[k].name # None => Name(k) = <<config[k].name>>
          /\ config[k].name = None /\ Many(k) => Name(k) = <<config[k].kind, Number(k)>>
          /\ config[k].name = None /\ ~Many(k) => Name(k) = <<config[k].kind>>
    BY NameForms
<1> HIDE DEF Many, Number
<1>5. CASE config[i].name # None /\ config[j].name # None
    BY <1>4, <1>5
<1>6. CASE config[i].name # None /\ config[j].name = None
    BY <1>1, <1>4, <1>6
<1>7. CASE config[i].name = None /\ config[j].name # None
    BY <1>1, <1>4, <1>7
<1>8. CASE config[i].name = None /\ config[j].name = None
    BY <1>2, <1>3, <1>4, <1>8
<1> QED
    BY <1>5, <1>6, <1>7, <1>8

\* Every made transport is one of the configuration.
LEMMA MadeTypes ==
    ASSUME TypeOK
    PROVE  /\ Len(registry) \in Nat
           /\ Made = 1 .. Len(registry)
           /\ Made \subseteq DOMAIN config
           /\ \A t \in Made : registry[t] \in Seq(Nat \X Nat)
<1>1. /\ registry \in Seq(Seq(Nat \X Nat)) /\ Len(registry) <= Len(config)
      /\ Len(config) \in Nat /\ DOMAIN config = 1 .. Len(config)
    BY ConfigTypes DEF TypeOK
<1>2. Len(registry) \in Nat /\ Made = 1 .. Len(registry)
    BY <1>1 DEF Made
<1>3. \A t \in Made : registry[t] \in Seq(Nat \X Nat)
    BY <1>1 DEF Made
<1> QED
    BY <1>1, <1>2, <1>3

\* new() fails only because of a given name.
LEMMA RefusalHasReason ==
    ASSUME TypeOK, NEW i \in DOMAIN config, IsRefused(i),
           \A j \in Made : j < i
    PROVE  \E k \in Named :
               \/ config[k].name \in Kinds \cup {"Blackhole"}
               \/ \E j \in Named \ {k} : config[k].name = config[j].name
<1>1. CASE config[i].name = "Blackhole"
    BY <1>1, ConfigsAssumption DEF Named
<1>2. CASE \E j \in Made : Name(j) = Name(i)
  <2>1. PICK j \in Made : Name(j) = Name(i)
    BY <1>2
  <2>2. j \in DOMAIN config /\ j < i /\ i # j
    BY <2>1, MadeTypes, ConfigTypes
  <2>3. \/ config[i].name # None /\ config[j].name # None /\ config[i].name = config[j].name
        \/ config[i].name # None /\ config[i].name \in Kinds
        \/ config[j].name # None /\ config[j].name \in Kinds
    BY <2>1, <2>2, NamesCollide
  <2> QED
    BY <2>2, <2>3 DEF Named
<1> QED
    BY <1>1, <1>2 DEF IsRefused

\* A name is a sequence of one or two elements.
LEMMA NameTypes ==
    ASSUME TypeOK, NEW i \in DOMAIN config
    PROVE  Name(i) \in Seq(Names \cup {None} \cup Kinds \cup Nat)
<1>1. /\ i \in Nat
      /\ config[i].kind \in Kinds /\ config[i].name \in Names \cup {None}
    BY ConfigTypes
<1>2. Cardinality(OfKind(config[i].kind, i)) \in Nat
    BY <1>1, KindsAreFinite
<1>3. \/ Name(i) = <<config[i].name>>
      \/ Name(i) = <<config[i].kind>>
      \/ Name(i) = <<config[i].kind, Cardinality(OfKind(config[i].kind, i))>>
    BY NameForms
<1> DEFINE Parts == Names \cup {None} \cup Kinds \cup Nat
<1>4. \A x, y \in Parts : <<x>> \in Seq(Parts) /\ <<x, y>> \in Seq(Parts)
  <2> HIDE DEF Parts
  <2> QED
    OBVIOUS
<1>5. /\ config[i].name \in Parts /\ config[i].kind \in Parts
      /\ Cardinality(OfKind(config[i].kind, i)) \in Parts
    BY <1>1, <1>2
<1>6. Name(i) \in Seq(Parts)
  <2> HIDE DEF Parts
  <2> QED
    BY <1>3, <1>4, <1>5
<1> QED
    BY <1>6

\* Two connections of one transport: it has more than one.
LEMMA SeveralNumbers ==
    ASSUME NEW number \in Nat, NEW m \in 1 .. number, NEW n \in 1 .. number, m # n
    PROVE  number > 1
OBVIOUS

LEMMA NumberTypes ==
    ASSUME NEW number \in Nat, NEW m \in 1 .. number
    PROVE  m \in Nat
OBVIOUS

\* Connections have the names of their transports, or these and a number.
LEMMA ConnectionNames ==
    ASSUME TypeOK, NamesInv
    PROVE  ConnectionNamesDistinct
<1> DEFINE Parts == Names \cup {None} \cup Kinds \cup Nat
<1>1. ASSUME \A i \in Named : config[i].name \notin Kinds,
             NEW s \in Made, NEW t \in Made,
             config[s].kind = "HTTP client", config[t].kind = "HTTP client",
             NEW m \in Nat, NEW n \in Nat,
             s # t \/ (m # n /\ config[s].connections > 1)
      PROVE  ConnectionName(s, m) # ConnectionName(t, n)
  <2>1. s \in DOMAIN config /\ t \in DOMAIN config
    BY MadeTypes
  <2>2. /\ config[s].connections \in Nat \ {0} /\ config[t].connections \in Nat \ {0}
        /\ Len(config) \in Nat /\ DOMAIN config = 1 .. Len(config)
    BY <2>1, ConfigTypes
  <2>3. /\ Name(s) \in Seq(Parts) /\ Name(t) \in Seq(Parts)
        /\ m \in Parts /\ n \in Parts
    BY <2>1, <2>2, NameTypes
  <2>4. /\ Append(Name(s), m) = Append(Name(t), n) => Name(s) = Name(t) /\ m = n
        /\ Len(Name(s)) >= 1 => Append(Name(s), m)[1] = Name(s)[1]
        /\ Len(Name(t)) >= 1 => Append(Name(t), n)[1] = Name(t)[1]
        /\ Len(Append(Name(s), m)) = Len(Name(s)) + 1
        /\ Len(Append(Name(t), n)) = Len(Name(t)) + 1
        /\ Len(Name(s)) \in Nat /\ Len(Name(t)) \in Nat
    <3> HIDE DEF Parts
    <3>1. Append(Name(s), m) = Append(Name(t), n) => Name(s) = Name(t) /\ m = n
      BY <2>3, AppendInjective
    <3> QED
      BY <2>3, <3>1
  <2>5. CASE s = t
    <3>1. m # n /\ config[s].connections > 1
      BY <1>1, <2>5
    <3> QED
      BY <2>4, <2>5, <3>1 DEF ConnectionName
  <2>6. CASE s # t
    <3> DEFINE Form(k) == \/ /\ config[k].name # None
                             /\ Len(Name(k)) = 1 /\ Name(k)[1] = config[k].name
                          \/ Len(Name(k)) = 2 /\ Name(k)[1] = "HTTP client"
    <3>1. Cardinality(OfKind("HTTP client", Len(config))) > 1
      BY <1>1, <2>1, <2>2, <2>6, TwoAreNumbered
    <3>2. Form(s) /\ Form(t)
      <4>1. ASSUME NEW k \in DOMAIN config, config[k].kind = "HTTP client"
            PROVE  Form(k)
        <5>1. CASE config[k].name # None
          <6>1. Name(k) = <<config[k].name>>
            BY <5>1, NameForms
          <6>2. Len(<<config[k].name>>) = 1 /\ <<config[k].name>>[1] = config[k].name
            OBVIOUS
          <6> QED
            BY <5>1, <6>1, <6>2
        <5>2. CASE config[k].name = None
          <6>1. Name(k) = <<"HTTP client", Cardinality(OfKind("HTTP client", k))>>
            BY <3>1, <4>1, <5>2, NameForms
          <6>2. \A number : Len(<<"HTTP client", number>>) = 2 /\ <<"HTTP client", number>>[1] = "HTTP client"
            OBVIOUS
          <6> QED
            BY <6>1, <6>2
        <5> QED
          BY <5>1, <5>2
      <4> QED
        BY <1>1, <2>1, <4>1
    <3>3. Name(s) # Name(t)
      BY <2>6 DEF NamesInv
    <3>4. \A k \in {s, t} : config[k].name # None => config[k].name # "HTTP client"
      BY <1>1, <2>1 DEF Named, Kinds
    <3>5. Append(Name(s), m) # Append(Name(t), n)
      BY <2>4, <3>3
    <3>6. Append(Name(s), m) # Name(t)
      <4>1. SUFFICES ASSUME Append(Name(s), m) = Name(t)
                     PROVE  FALSE
        OBVIOUS
      <4>2. Len(Name(t)) = Len(Name(s)) + 1
        BY <2>4, <4>1
      <4>3. Len(Name(s)) = 1 /\ Len(Name(t)) = 2
        <5>1. Len(Name(s)) \in {1, 2}
          BY <3>2
        <5>2. Len(Name(t)) \in {1, 2}
          BY <3>2
        <5> QED
          BY <4>2, <5>1, <5>2
      <4>4. Len(Name(s)) # 2 /\ Len(Name(t)) # 1 /\ Len(Name(s)) >= 1
        BY <4>3
      <4>5. Name(s)[1] = config[s].name /\ config[s].name # None
        BY <3>2, <4>4, Zenon
      <4>6. Name(t)[1] = "HTTP client"
        BY <3>2, <4>4, Zenon
      <4> QED
        BY <2>4, <3>4, <4>1, <4>4, <4>5, <4>6, Zenon
    <3>7. Name(s) # Append(Name(t), n)
      <4>1. SUFFICES ASSUME Name(s) = Append(Name(t), n)
                     PROVE  FALSE
        OBVIOUS
      <4>2. Len(Name(s)) = Len(Name(t)) + 1
        BY <2>4, <4>1
      <4>3. Len(Name(t)) = 1 /\ Len(Name(s)) = 2
        <5>1. Len(Name(t)) \in {1, 2}
          BY <3>2
        <5>2. Len(Name(s)) \in {1, 2}
          BY <3>2
        <5> QED
          BY <4>2, <5>1, <5>2
      <4>4. Len(Name(t)) # 2 /\ Len(Name(s)) # 1 /\ Len(Name(t)) >= 1
        BY <4>3
      <4>5. Name(t)[1] = config[t].name /\ config[t].name # None
        BY <3>2, <4>4, Zenon
      <4>6. Name(s)[1] = "HTTP client"
        BY <3>2, <4>4, Zenon
      <4> QED
        BY <2>4, <3>4, <4>1, <4>4, <4>5, <4>6, Zenon
    <3> QED
      BY <3>3, <3>5, <3>6, <3>7 DEF ConnectionName
  <2> QED
    BY <2>5, <2>6
<1> DEFINE Clients == {t \in Made : config[t].kind = "HTTP client"}
<1>2. ASSUME \A i \in Named : config[i].name \notin Kinds,
             NEW s \in Clients, NEW t \in Clients,
             NEW c \in ConnectionsOf(s), NEW d \in ConnectionsOf(t), c # d
      PROVE  ConnectionName(c[1], c[2]) # ConnectionName(d[1], d[2])
  <2>1. \A i \in {s, t} : config[i].connections \in Nat
    BY ConfigTypes, MadeTypes
  <2>3. PICK m : m \in 1 .. config[s].connections /\ c = <<s, m>>
    BY DEF ConnectionsOf
  <2>4. PICK n : n \in 1 .. config[t].connections /\ d = <<t, n>>
    BY DEF ConnectionsOf
  <2>5. m \in Nat /\ n \in Nat
    BY <2>1, <2>3, <2>4, NumberTypes
  <2>6. s = t => m # n
    BY <1>2, <2>3, <2>4
  <2>7. s = t => config[s].connections > 1
    BY <2>1, <2>3, <2>4, <2>6, SeveralNumbers
  <2>8. ConnectionName(s, m) # ConnectionName(t, n)
    BY <1>1, <1>2, <2>5, <2>6, <2>7
  <2>9. c[1] = s /\ c[2] = m /\ d[1] = t /\ d[2] = n
    BY <2>3, <2>4
  <2> QED
    BY <2>8, <2>9
<1> QED
    BY <1>2 DEF ConnectionNamesDistinct

-----------------------------------------------------------------------------
(* The registry *)

LEMMA ConnectionsAreFinite ==
    ASSUME TypeOK, NEW t \in DOMAIN config
    PROVE  IsFiniteSet(ConnectionsOf(t))
<1> DEFINE N == config[t].connections
           Of == [id \in 1 .. N |-> <<t, id>>]
<1>1. N \in Nat
    BY ConfigTypes
<1>2. IsFiniteSet(1 .. N)
    BY <1>1, FS_Interval
<1>3. Of \in Surjection(1 .. N, ConnectionsOf(t))
    BY DEF ConnectionsOf, Surjection
<1> QED
    BY <1>2, <1>3, FS_Surjection

\* An order of a set has every member once.
LEMMA OrdersHaveAll ==
    ASSUME NEW S, IsFiniteSet(S), NEW order \in SetToSeqs(S)
    PROVE  /\ order \in Seq(S)
           /\ Len(order) \in Nat /\ DOMAIN order = 1 .. Len(order)
           /\ ToSet(order) = S
           /\ IsInjective(order)
<1> DEFINE N == Cardinality(S)
<1>1. N \in Nat
    BY FS_CardinalityType
<1>2. order \in [1 .. N -> S] /\ \A i, j \in 1 .. N : i # j => order[i] # order[j]
    BY DEF SetToSeqs
<1>3. IsFiniteSet(1 .. N) /\ Cardinality(1 .. N) = N
    BY <1>1, FS_Interval
<1> HIDE DEF N
<1>4. IsInjective(order)
    BY <1>2 DEF IsInjective
<1>5. order \in Injection(1 .. N, S)
    BY <1>2, <1>4 DEF Injection
<1>6. order \in Surjection(1 .. N, S)
    BY <1>3, <1>5, FS_Injection DEF N
<1>7. ToSet(order) = S
    BY <1>2, <1>6 DEF ToSet, Surjection
<1>8. order \in Seq(S)
    BY <1>1, <1>2
<1> QED
    BY <1>4, <1>7, <1>8

\* What is ready is in the registry of its transport.
LEMMA ReadyIsRegistered ==
    ASSUME TypeOK, NEW c \in ready
    PROVE  /\ c[1] \in Made
           /\ c \in ToSet(registry[c[1]])
           /\ \E n \in 1 .. Len(registry[c[1]]) : IsAt(c, n)
<1>1. PICK t \in Made : c \in ToSet(registry[t])
    BY DEF TypeOK, Connections
<1>2. c[1] = t
    BY <1>1 DEF TypeOK, ConnectionsOf
<1>3. PICK n \in DOMAIN registry[t] : registry[t][n] = c
    BY <1>1 DEF ToSet
<1>4. DOMAIN registry[t] = 1 .. Len(registry[t])
    BY MadeTypes
<1> QED
    BY <1>1, <1>2, <1>3, <1>4 DEF IsAt

\* A connection that is asked is in the registry.
LEMMA AskedTypes ==
    ASSUME TypeOK, PhaseInv, NEW p \in {"asking", "selecting"}, Asks(p)
    PROVE  /\ at \in Made
           /\ asked \in Nat /\ Len(registry[at]) \in Nat
           /\ asked + 1 \in 1 .. Len(registry[at])
           /\ Asked \in Nat \X Nat
<1>1. Started /\ at >= 1 /\ at <= Len(config) /\ at \in Nat
    BY ConfigTypes DEF PhaseInv, Asks, TypeOK
<1>2. at \in Made
    BY <1>1, MadeTypes DEF Started
<1>3. registry[at] \in Seq(Nat \X Nat)
    BY <1>2, MadeTypes
<1>4. asked \in Nat /\ asked < Len(registry[at])
    BY DEF Asks, TypeOK
<1>5. Len(registry[at]) \in Nat /\ asked + 1 \in 1 .. Len(registry[at])
    BY <1>3, <1>4
<1> QED
    BY <1>2, <1>3, <1>4, <1>5 DEF Asked

-----------------------------------------------------------------------------
(* The steps *)

\* What is in the registries does not matter to names.
LEMMA NamesStay ==
    ASSUME NamesInv, RefusedForAName, UNCHANGED <<config, refused>>, Made' = Made
    PROVE  NamesInv' /\ RefusedForAName'
<1>1. \A i : Name(i)' = Name(i)
    BY DEF Name, AutoName, OfKind
<1>2. NamesInv'
    BY <1>1 DEF NamesInv
<1>3. RefusedForAName'
    BY DEF RefusedForAName, Named
<1> QED
    BY <1>2, <1>3

LEMMA InitInv == Init => ControllerInv
<1> SUFFICES ASSUME Init PROVE ControllerInv
    OBVIOUS
<1>1. registry \in Seq(Seq(Nat \X Nat)) /\ Len(registry) = 0 /\ DOMAIN registry = {}
    BY DEF Init
<1>2. Made = {} /\ ready = {} /\ steady = {}
    BY <1>1 DEF Init, Made
<1>3. Len(config) \in Nat
  <2> DEFINE Line == [kind : Kinds, name : Names \cup {None}, connections : Nat \ {0}]
  <2>1. config \in Seq(Line)
    BY ConfigsAssumption DEF Init
  <2> HIDE DEF Line
  <2> QED
    BY <2>1
<1>4. TypeOK
  <2>1. at \in 0 .. Len(config) + 1 /\ Len(registry) <= Len(config)
    BY <1>1, <1>3 DEF Init
  <2>2. found \in Seq(Nat \X Nat) /\ asked \in Nat
    BY DEF Init
  <2> QED
    BY <1>1, <1>2, <2>1, <2>2, Zenon DEF TypeOK, Init
<1>5. PhaseInv /\ AheadInv /\ NamesInv /\ RefusedForAName
    BY <1>2 DEF PhaseInv, AheadInv, NamesInv, RefusedForAName, Init
<1> QED
    BY <1>4, <1>5 DEF ControllerInv

LEMMA MakeTransportInv ==
    ASSUME ControllerInv, MakeTransport
    PROVE  ControllerInv'
<1> DEFINE i == Len(registry) + 1
           all == IF config[i].kind = "HTTP server" THEN <<>>
                  ELSE [id \in 1 .. config[i].connections |-> <<i, id>>]
<1>0. TypeOK
    BY DEF ControllerInv
<1>1. /\ Len(registry) \in Nat /\ Made = 1 .. Len(registry)
      /\ registry \in Seq(Seq(Nat \X Nat)) /\ Len(registry) <= Len(config)
      /\ Len(config) \in Nat /\ DOMAIN config = 1 .. Len(config)
  <2>1. registry \in Seq(Seq(Nat \X Nat)) /\ Len(registry) <= Len(config)
    BY <1>0 DEF TypeOK
  <2> QED
    BY <1>0, <2>1, MadeTypes, ConfigTypes
<1>2. i \in Nat /\ i \in DOMAIN config /\ i \notin Made
  <2>1. Len(registry) # Len(config)
    BY DEF MakeTransport, Started
  <2>2. i \in Nat /\ i \in 1 .. Len(config) /\ i \notin 1 .. Len(registry)
    BY <1>1, <2>1
  <2> QED
    BY <1>1, <2>2
<1>3. config[i].connections \in Nat
    BY <1>2, ConfigTypes DEF ControllerInv
<1>4. registry' = Append(registry, all)
    BY DEF MakeTransport
<1>5. /\ all \in Seq(Nat \X Nat)
      /\ IsInjective(all)
      /\ ToSet(all) \subseteq ConnectionsOf(i)
  <2>1. CASE config[i].kind = "HTTP server"
    <3>1. all = <<>>
      BY <2>1
    <3>2. <<>> \in Seq(Nat \X Nat) /\ DOMAIN <<>> = {}
      OBVIOUS
    <3> HIDE DEF all
    <3> QED
      BY <3>1, <3>2 DEF IsInjective, ToSet
  <2>2. CASE config[i].kind # "HTTP server"
    <3> DEFINE N == config[i].connections
    <3>1. all = [id \in 1 .. N |-> <<i, id>>] /\ N \in Nat
      BY <1>3, <2>2
    <3>2. ToSet(all) \subseteq ConnectionsOf(i)
      BY <3>1 DEF ToSet, ConnectionsOf
    <3> HIDE DEF all, N, i
    <3>3. all \in Seq(Nat \X Nat)
      BY <1>2, <3>1
    <3>4. IsInjective(all)
      BY <3>1 DEF IsInjective
    <3> QED
      BY <3>2, <3>3, <3>4
  <2> QED
    BY <2>1, <2>2
<1> HIDE DEF all
<1>6. /\ Made' = Made \cup {i}
      /\ registry' \in Seq(Seq(Nat \X Nat))
      /\ Len(registry') = i
      /\ registry'[i] = all
      /\ \A t \in Made : registry'[t] = registry[t]
    BY <1>1, <1>4, <1>5 DEF Made
<1>7. UNCHANGED <<config, refused, ready, phase, packet, at, asked, found, target, steady>>
    BY DEF MakeTransport, handleVars
<1>8. \A t : ConnectionsOf(t)' = ConnectionsOf(t)
    BY <1>7 DEF ConnectionsOf
<1>9. TypeOK'
  <2>1. \A t \in Made' : IsInjective(registry'[t]) /\ ToSet(registry'[t]) \subseteq ConnectionsOf(t)
    BY <1>5, <1>6 DEF ControllerInv, TypeOK
  <2>2. ready' \subseteq Connections'
    BY <1>6, <1>7 DEF ControllerInv, TypeOK, Connections
  <2>3. Len(registry') <= Len(config')
    BY <1>1, <1>2, <1>6, <1>7
  <2> QED
    BY <1>6, <1>7, <1>8, <2>1, <2>2, <2>3 DEF ControllerInv, TypeOK
<1>10. phase = "receiving" /\ steady = {}
    BY DEF MakeTransport, ControllerInv, PhaseInv
<1>11. PhaseInv' /\ AheadInv'
    BY <1>7, <1>10 DEF ControllerInv, PhaseInv, AheadInv
<1>12. NamesInv'
  <2>1. \A j : Name(j)' = Name(j)
    BY <1>7 DEF Name, AutoName, OfKind
  <2>2. \A j \in Made : Name(j) # Name(i)
    BY DEF MakeTransport, IsRefused
  <2> QED
    BY <1>6, <2>1, <2>2 DEF ControllerInv, NamesInv
<1>13. RefusedForAName'
    BY <1>7 DEF ControllerInv, RefusedForAName, Named
<1> QED
    BY <1>9, <1>11, <1>12, <1>13 DEF ControllerInv

LEMMA RefuseConfigInv ==
    ASSUME ControllerInv, RefuseConfig
    PROVE  ControllerInv'
<1> DEFINE i == Len(registry) + 1
<1>1. /\ Len(registry) \in Nat /\ Made = 1 .. Len(registry) /\ Len(registry) <= Len(config)
      /\ Len(config) \in Nat /\ DOMAIN config = 1 .. Len(config)
    BY MadeTypes, ConfigTypes DEF ControllerInv, TypeOK
<1>2. i \in DOMAIN config /\ \A j \in Made : j < i
    BY <1>1 DEF RefuseConfig, Started
<1>3. UNCHANGED <<config, registry, ready, phase, packet, at, asked, found, target, steady>>
    BY DEF RefuseConfig, handleVars, readyVars
<1>4. \A j : Name(j)' = Name(j)
    BY <1>3 DEF Name, AutoName, OfKind
<1>5. TypeOK'
    BY <1>3 DEF ControllerInv, TypeOK, RefuseConfig, Made, Connections, ConnectionsOf
<1>6. PhaseInv' /\ AheadInv'
    BY <1>3 DEF ControllerInv, PhaseInv, AheadInv, IsAt, Started, Made
<1>7. NamesInv'
    BY <1>3, <1>4 DEF ControllerInv, NamesInv, Made
<1>8. RefusedForAName'
  <2>1. IsRefused(i) /\ TypeOK
    BY DEF RefuseConfig, ControllerInv
  <2>2. \E k \in Named :
            \/ config[k].name \in Kinds \cup {"Blackhole"}
            \/ \E j \in Named \ {k} : config[k].name = config[j].name
    BY <1>2, <2>1, RefusalHasReason
  <2> QED
    BY <1>3, <2>2 DEF RefusedForAName, Named
<1> QED
    BY <1>5, <1>6, <1>7, <1>8 DEF ControllerInv

\* What handle() leaves alone.
LEMMA HandleKeeps ==
    ASSUME TypeOK, NamesInv, RefusedForAName,
           UNCHANGED <<config, refused, registry, ready>>
    PROVE  /\ /\ phase' \in {"receiving", "asking", "selecting", "sending"}
              /\ at' \in 0 .. Len(config) + 1
              /\ asked' \in Nat
              /\ found' \in Seq(Nat \X Nat)
              /\ steady' \subseteq ready
              => TypeOK'
           /\ NamesInv' /\ RefusedForAName'
           /\ Made' = Made
<1>1. Made' = Made
    BY DEF Made
<1>2. Connections' = Connections /\ \A t : ConnectionsOf(t)' = ConnectionsOf(t)
    BY <1>1 DEF Connections, ConnectionsOf
<1> QED
    BY <1>1, <1>2, NamesStay, Zenon DEF TypeOK

LEMMA DoneInv ==
    ASSUME ControllerInv, Done
    PROVE  ControllerInv'
<1>1. UNCHANGED <<config, refused, registry, ready>>
    BY DEF Done, newVars, readyVars
<1>2. phase' = "receiving" /\ at' = 0 /\ asked' = 0 /\ found' = <<>> /\ steady' = {}
    BY DEF Done
<1>3. at' \in 0 .. Len(config) + 1 /\ found' \in Seq(Nat \X Nat)
  <2>1. Len(config) \in Nat
    BY ConfigTypes DEF ControllerInv
  <2> QED
    BY <1>2, <2>1
<1>4. TypeOK' /\ NamesInv' /\ RefusedForAName'
    BY <1>1, <1>2, <1>3, HandleKeeps DEF ControllerInv
<1>5. PhaseInv' /\ AheadInv'
    BY <1>2 DEF PhaseInv, AheadInv
<1> QED
    BY <1>4, <1>5 DEF ControllerInv

LEMMA ReceiveInv ==
    ASSUME ControllerInv, Receive
    PROVE  ControllerInv'
<1>1. UNCHANGED <<config, refused, registry, ready, asked, found>>
    BY DEF Receive, newVars, readyVars
<1>2. Started /\ phase' = "asking" /\ at' = 1 /\ steady' = ready /\ asked = 0
    BY DEF Receive, ControllerInv, PhaseInv
<1>3. TypeOK /\ Len(config) \in Nat
    BY ConfigTypes DEF ControllerInv
<1>4. at' \in 0 .. Len(config) + 1 /\ asked' \in Nat /\ found' \in Seq(Nat \X Nat)
  <2>1. found \in Seq(Nat \X Nat)
    BY <1>3 DEF TypeOK
  <2> QED
    BY <1>1, <1>2, <1>3, <2>1
<1>5. TypeOK' /\ NamesInv' /\ RefusedForAName' /\ Made' = Made
    BY <1>1, <1>2, <1>4, HandleKeeps DEF ControllerInv
<1>6. PhaseInv'
    BY <1>1, <1>2, <1>5 DEF PhaseInv, Started
<1>7. AheadInv'
  <2>1. ASSUME NEW c \in ready
        PROVE  /\ 1 <= c[1]
               /\ c[1] = 1 => \E n \in asked + 1 .. Len(registry[1]) : IsAt(c, n)
    <3>1. c[1] \in Made /\ \E n \in 1 .. Len(registry[c[1]]) : IsAt(c, n)
      BY <1>3, ReadyIsRegistered
    <3>2. Made = 1 .. Len(registry) /\ Len(registry) \in Nat
      BY <1>3, MadeTypes
    <3> QED
      BY <1>2, <3>1, <3>2
  <2> QED
    BY <1>1, <1>2, <2>1 DEF AheadInv, IsAt
<1> QED
    BY <1>5, <1>6, <1>7 DEF ControllerInv

LEMMA AskConnectionInv ==
    ASSUME ControllerInv, AskConnection
    PROVE  ControllerInv'
<1>1. UNCHANGED <<config, refused, registry, ready, phase, at, found, steady>>
    BY DEF AskConnection, newVars, readyVars
<1>2. Asks("asking") /\ phase = "asking" /\ asked' = asked + 1 /\ Asked \notin ready
    BY DEF AskConnection, Asks
<1>3. /\ at \in Made /\ asked \in Nat
      /\ Len(registry[at]) \in Nat /\ asked + 1 \in 1 .. Len(registry[at])
    BY <1>2, AskedTypes DEF ControllerInv
<1>4. TypeOK /\ steady \subseteq ready
    BY DEF ControllerInv, TypeOK
<1>5. TypeOK' /\ NamesInv' /\ RefusedForAName' /\ Made' = Made
  <2>1. /\ phase' \in {"receiving", "asking", "selecting", "sending"}
        /\ at' \in 0 .. Len(config) + 1
        /\ found' \in Seq(Nat \X Nat)
        /\ steady' \subseteq ready
    BY <1>1, <1>4 DEF TypeOK
  <2>2. asked' \in Nat
    BY <1>2, <1>3
  <2> QED
    BY <1>1, <2>1, <2>2, HandleKeeps DEF ControllerInv
<1>6. PhaseInv'
    BY <1>1, <1>2, <1>5 DEF ControllerInv, PhaseInv, Started
<1>7. AheadInv'
  <2>1. ASSUME NEW c \in steady, at = c[1]
        PROVE  \E n \in asked + 2 .. Len(registry[at]) : IsAt(c, n)
    <3>1. PICK n \in asked + 1 .. Len(registry[at]) : IsAt(c, n)
      BY <1>2, <2>1 DEF ControllerInv, AheadInv
    <3>2. n # asked + 1
      BY <1>2, <1>4, <2>1, <3>1 DEF IsAt, Asked
    <3>3. n \in asked + 2 .. Len(registry[at])
      BY <1>3, <3>1, <3>2
    <3> QED
      BY <3>1, <3>3
  <2>2. \A c \in steady : at <= c[1]
    BY <1>2 DEF ControllerInv, AheadInv
  <2>3. asked' + 1 = asked + 2
    BY <1>2, <1>3
  <2> QED
    BY <1>1, <1>2, <2>1, <2>2, <2>3 DEF AheadInv, IsAt
<1> QED
    BY <1>5, <1>6, <1>7 DEF ControllerInv

LEMMA SelectTransportInv ==
    ASSUME ControllerInv, SelectTransport
    PROVE  ControllerInv'
<1>1. UNCHANGED <<config, refused, registry, ready, at, found, steady>>
    BY DEF SelectTransport, newVars, readyVars
<1>2. Asks("asking") /\ phase = "asking" /\ asked' = 0 /\ phase' \in {"selecting", "sending"}
    BY DEF SelectTransport, Asks
<1>3. at \in Made
    BY <1>2, AskedTypes DEF ControllerInv
<1>4. TypeOK /\ steady \subseteq ready /\ Started
    BY <1>2 DEF ControllerInv, TypeOK, PhaseInv
<1>5. TypeOK' /\ NamesInv' /\ RefusedForAName' /\ Made' = Made
  <2>1. /\ phase' \in {"receiving", "asking", "selecting", "sending"}
        /\ at' \in 0 .. Len(config) + 1
        /\ asked' \in Nat
        /\ found' \in Seq(Nat \X Nat)
        /\ steady' \subseteq ready
    BY <1>1, <1>2, <1>4 DEF TypeOK
  <2> QED
    BY <1>1, <2>1, HandleKeeps DEF ControllerInv
<1>6. PhaseInv'
    BY <1>1, <1>2, <1>3, <1>4, <1>5 DEF ControllerInv, PhaseInv, Started
<1>7. AheadInv'
  <2>1. ASSUME NEW c \in steady, at = c[1]
        PROVE  \E n \in 0 + 1 .. Len(registry[at]) : IsAt(c, n)
    <3>1. \E n \in 1 .. Len(registry[c[1]]) : IsAt(c, n)
      BY <1>4, ReadyIsRegistered
    <3> QED
      BY <2>1, <3>1
  <2>2. \A c \in steady : at <= c[1]
    BY <1>2 DEF ControllerInv, AheadInv
  <2> QED
    BY <1>1, <1>2, <2>1, <2>2 DEF AheadInv, IsAt
<1> QED
    BY <1>5, <1>6, <1>7 DEF ControllerInv

LEMMA NextTransportInv ==
    ASSUME ControllerInv, NextTransport
    PROVE  ControllerInv'
<1>1. UNCHANGED <<config, refused, registry, ready, phase, found, steady>>
    BY DEF NextTransport, newVars, readyVars
<1>2. /\ phase = "asking" /\ at <= Len(config) /\ asked = Len(registry[at])
      /\ at' = at + 1 /\ asked' = 0
    BY DEF NextTransport
<1>3. TypeOK /\ steady \subseteq ready /\ Started /\ at >= 1
    BY <1>2 DEF ControllerInv, TypeOK, PhaseInv
<1>4. Len(config) \in Nat /\ at \in Nat
    BY <1>3, ConfigTypes DEF TypeOK
<1>5. at' \in 0 .. Len(config) + 1 /\ at' >= 1
    BY <1>2, <1>3, <1>4
<1>6. TypeOK' /\ NamesInv' /\ RefusedForAName' /\ Made' = Made
  <2>1. /\ phase' \in {"receiving", "asking", "selecting", "sending"}
        /\ asked' \in Nat
        /\ found' \in Seq(Nat \X Nat)
        /\ steady' \subseteq ready
    BY <1>1, <1>2, <1>3 DEF TypeOK
  <2> QED
    BY <1>1, <1>5, <2>1, HandleKeeps DEF ControllerInv
<1>7. PhaseInv'
    BY <1>1, <1>2, <1>3, <1>5, <1>6 DEF PhaseInv, Started
<1>8. AheadInv'
  <2>1. ASSUME NEW c \in steady
        PROVE  /\ at + 1 <= c[1]
               /\ \E n \in 0 + 1 .. Len(registry[c[1]]) : IsAt(c, n)
    <3>1. c[1] \in Made /\ \E n \in 1 .. Len(registry[c[1]]) : IsAt(c, n)
      BY <1>3, ReadyIsRegistered
    <3>2. c[1] \in Nat
      BY <1>3, <3>1, MadeTypes
    <3>3. at <= c[1]
      BY <1>2 DEF ControllerInv, AheadInv
    <3>4. at # c[1]
      <4>1. SUFFICES ASSUME at = c[1] PROVE FALSE
        OBVIOUS
      <4>2. \E n \in asked + 1 .. Len(registry[at]) : TRUE
        BY <1>2, <4>1 DEF ControllerInv, AheadInv
      <4>3. asked \in Nat /\ asked = Len(registry[at])
        BY <1>2, <1>3 DEF TypeOK
      <4> QED
        BY <4>2, <4>3
    <3>5. at + 1 <= c[1]
      BY <1>4, <3>2, <3>3, <3>4
    <3> QED
      BY <3>1, <3>5
  <2> QED
    BY <1>1, <1>2, <2>1 DEF AheadInv, IsAt
<1> QED
    BY <1>6, <1>7, <1>8 DEF ControllerInv

LEMMA AppendTypes ==
    ASSUME NEW S, NEW s \in Seq(S), NEW x \in S
    PROVE  Append(s, x) \in Seq(S) /\ Append(s, x) # <<>>
<1>1. Append(s, x) \in Seq(S) /\ Len(Append(s, x)) = Len(s) + 1 /\ Len(s) \in Nat
    OBVIOUS
<1>2. Len(<<>>) = 0
    OBVIOUS
<1> QED
    BY <1>1, <1>2

LEMMA SelectAsksInv ==
    ASSUME ControllerInv, SelectAsks
    PROVE  ControllerInv'
<1>1. UNCHANGED <<config, refused, registry, ready, phase, at, steady>>
    BY DEF SelectAsks, newVars, readyVars
<1>2. /\ Asks("selecting") /\ phase = "selecting" /\ asked' = asked + 1
      /\ found' = IF Asked \in ready THEN Append(found, Asked) ELSE found
    BY DEF SelectAsks, Asks
<1>3. /\ at \in Made /\ asked \in Nat /\ Asked \in Nat \X Nat
      /\ Len(registry[at]) \in Nat /\ asked + 1 \in 1 .. Len(registry[at])
    BY <1>2, AskedTypes DEF ControllerInv
<1>4. TypeOK /\ steady \subseteq ready /\ found \in Seq(Nat \X Nat)
    BY DEF ControllerInv, TypeOK
<1>5. /\ Append(found, Asked) \in Seq(Nat \X Nat)
      /\ Append(found, Asked) # <<>>
    BY <1>3, <1>4, AppendTypes
<1>6. TypeOK' /\ NamesInv' /\ RefusedForAName' /\ Made' = Made
  <2>1. /\ phase' \in {"receiving", "asking", "selecting", "sending"}
        /\ at' \in 0 .. Len(config) + 1
        /\ steady' \subseteq ready
    BY <1>1, <1>4 DEF TypeOK
  <2>2. asked' \in Nat /\ found' \in Seq(Nat \X Nat)
    BY <1>2, <1>3, <1>4, <1>5
  <2> QED
    BY <1>1, <2>1, <2>2, HandleKeeps DEF ControllerInv
<1>7. PhaseInv'
    BY <1>1, <1>2, <1>6 DEF ControllerInv, PhaseInv, Started
<1>8. AheadInv'
  <2>1. ASSUME NEW c \in steady, at = c[1]
        PROVE  found' # <<>> \/ \E n \in asked + 2 .. Len(registry[at]) : IsAt(c, n)
    <3>1. CASE found # <<>>
      BY <1>2, <1>5, <3>1
    <3>2. CASE found = <<>>
      <4>1. PICK n \in asked + 1 .. Len(registry[at]) : IsAt(c, n)
        BY <1>2, <2>1, <3>2 DEF ControllerInv, AheadInv
      <4>2. CASE n = asked + 1
        <5>1. Asked = c
          BY <2>1, <4>1, <4>2 DEF IsAt, Asked
        <5> QED
          BY <1>2, <1>4, <1>5, <5>1
      <4>3. CASE n # asked + 1
        <5>1. n \in asked + 2 .. Len(registry[at])
          BY <1>3, <4>1, <4>3
        <5> QED
          BY <4>1, <5>1
      <4> QED
        BY <4>2, <4>3
    <3> QED
      BY <3>1, <3>2
  <2>2. \A c \in steady : at <= c[1]
    BY <1>2 DEF ControllerInv, AheadInv
  <2>3. asked' + 1 = asked + 2
    BY <1>2, <1>3
  <2> QED
    BY <1>1, <1>2, <2>1, <2>2, <2>3 DEF AheadInv, IsAt
<1> QED
    BY <1>6, <1>7, <1>8 DEF ControllerInv

LEMMA SelectInv ==
    ASSUME ControllerInv, Select
    PROVE  ControllerInv'
<1>1. UNCHANGED <<config, refused, registry, ready, at, steady>>
    BY DEF Select, newVars, readyVars
<1>2. phase = "selecting" /\ phase' = "sending" /\ found' = <<>> /\ asked' = 0
    BY DEF Select, AllAsked
<1>3. TypeOK' /\ NamesInv' /\ RefusedForAName' /\ Made' = Made
  <2>1. /\ phase' \in {"receiving", "asking", "selecting", "sending"}
        /\ at' \in 0 .. Len(config) + 1
        /\ asked' \in Nat
        /\ steady' \subseteq ready
    BY <1>1, <1>2 DEF ControllerInv, TypeOK
  <2>2. found' \in Seq(Nat \X Nat)
    BY <1>2
  <2> QED
    BY <1>1, <2>1, <2>2, HandleKeeps DEF ControllerInv
<1>4. PhaseInv'
    BY <1>1, <1>2, <1>3 DEF ControllerInv, PhaseInv, Started
<1>5. AheadInv'
    BY <1>1, <1>2 DEF ControllerInv, AheadInv
<1> QED
    BY <1>3, <1>4, <1>5 DEF ControllerInv

LEMMA ReadinessInv ==
    ASSUME ControllerInv, NEW c \in Connections, BecomesReady(c) \/ CeasesToBeReady(c)
    PROVE  ControllerInv'
<1>1. UNCHANGED <<config, refused, registry, phase, at, asked, found>>
    BY DEF BecomesReady, CeasesToBeReady, Changes, newVars, handleVars
<1>2. /\ ready' \subseteq ready \cup {c}
      /\ steady' \subseteq steady
      /\ steady \subseteq ready => steady' \subseteq ready'
    BY DEF BecomesReady, CeasesToBeReady
<1>3. Connections' = Connections /\ Made' = Made
    BY <1>1 DEF Connections, Made
<1>4. \A t : ConnectionsOf(t)' = ConnectionsOf(t)
    BY <1>1 DEF ConnectionsOf
<1>5. TypeOK'
  <2>1. ready' \subseteq Connections' /\ steady' \subseteq ready'
    BY <1>2, <1>3 DEF ControllerInv, TypeOK
  <2> QED
    BY <1>1, <1>3, <1>4, <2>1, Zenon DEF ControllerInv, TypeOK
<1>6. PhaseInv'
    BY <1>1, <1>2, <1>3 DEF ControllerInv, PhaseInv, Started
<1>7. AheadInv'
    BY <1>1, <1>2 DEF ControllerInv, AheadInv, IsAt
<1>8. NamesInv' /\ RefusedForAName'
    BY <1>1, <1>3, NamesStay DEF ControllerInv
<1> QED
    BY <1>5, <1>6, <1>7, <1>8 DEF ControllerInv

LEMMA RegistryChangesInv ==
    ASSUME ControllerInv, NEW t \in Made, RegistryChanges(t)
    PROVE  ControllerInv'
<1>1. UNCHANGED <<config, refused, phase, at, asked, found>>
    BY DEF RegistryChanges, Changes, newVars, handleVars
<1>2. PICK c \in ConnectionsOf(t) :
          LET members == IF c \in ToSet(registry[t]) THEN ToSet(registry[t]) \ {c}
                         ELSE ToSet(registry[t]) \cup {c}
          IN  /\ \E order \in SetToSeqs(members) : registry' = [registry EXCEPT ![t] = order]
              /\ ready' = ready \ {c}
              /\ steady' = steady \ {c}
    BY DEF RegistryChanges
<1> DEFINE members == IF c \in ToSet(registry[t]) THEN ToSet(registry[t]) \ {c}
                      ELSE ToSet(registry[t]) \cup {c}
<1>3. PICK order \in SetToSeqs(members) : registry' = [registry EXCEPT ![t] = order]
    BY <1>2
<1>4. ready' = ready \ {c} /\ steady' = steady \ {c} /\ TypeOK
    BY <1>2 DEF ControllerInv
<1>5. t \in DOMAIN config /\ registry \in Seq(Seq(Nat \X Nat)) /\ Made = 1 .. Len(registry)
    BY <1>4, MadeTypes DEF TypeOK
<1>6. ConnectionsOf(t) \in SUBSET (Nat \X Nat)
  <2>1. t \in Nat /\ config[t].connections \in Nat
    BY <1>4, <1>5, ConfigTypes, MadeTypes
  <2> QED
    BY <2>1, NumberTypes DEF ConnectionsOf
<1>7. members \subseteq ConnectionsOf(t) /\ ToSet(registry[t]) \ {c} \subseteq members
    BY <1>4 DEF TypeOK
<1>8. IsFiniteSet(members)
    BY <1>4, <1>5, <1>7, ConnectionsAreFinite, FS_Subset
<1> HIDE DEF members
<1>9. /\ order \in Seq(members) /\ Len(order) \in Nat /\ DOMAIN order = 1 .. Len(order)
      /\ ToSet(order) = members /\ IsInjective(order)
    BY <1>3, <1>8, OrdersHaveAll
<1>10. order \in Seq(Nat \X Nat)
    BY <1>6, <1>7, <1>9
<1>11. /\ registry' \in Seq(Seq(Nat \X Nat))
       /\ Len(registry') = Len(registry) /\ Made' = Made
       /\ registry'[t] = order
       /\ \A u \in Made \ {t} : registry'[u] = registry[u]
    BY <1>3, <1>5, <1>10 DEF Made
<1>12. \A u : ConnectionsOf(u)' = ConnectionsOf(u)
    BY <1>1 DEF ConnectionsOf
<1>13. TypeOK'
  <2>1. \A u \in Made' : IsInjective(registry'[u]) /\ ToSet(registry'[u]) \subseteq ConnectionsOf(u)
    <3>1. \A u \in Made \ {t} : IsInjective(registry'[u]) /\ ToSet(registry'[u]) \subseteq ConnectionsOf(u)
      BY <1>4, <1>11 DEF TypeOK
    <3>2. IsInjective(registry'[t]) /\ ToSet(registry'[t]) \subseteq ConnectionsOf(t)
      BY <1>7, <1>9, <1>11
    <3> QED
      BY <1>11, <3>1, <3>2, Zenon
  <2>2. ready' \subseteq Connections'
    <3>1. ASSUME NEW d \in ready, d # c
          PROVE  \E u \in Made : d \in ToSet(registry'[u])
      <4>1. d[1] \in Made /\ d \in ToSet(registry[d[1]])
        BY <1>4, ReadyIsRegistered
      <4>2. CASE d[1] = t
        BY <1>7, <1>9, <1>11, <3>1, <4>1, <4>2
      <4>3. CASE d[1] # t
        BY <1>11, <4>1, <4>3
      <4> QED
        BY <4>2, <4>3
    <3> QED
      BY <1>4, <1>11, <3>1 DEF Connections
  <2>3. steady' \subseteq ready' /\ Len(registry') <= Len(config')
    BY <1>1, <1>4, <1>11 DEF TypeOK
  <2> QED
    BY <1>1, <1>4, <1>11, <1>12, <2>1, <2>2, <2>3, Zenon DEF TypeOK
<1>14. PhaseInv'
    BY <1>1, <1>4, <1>11 DEF ControllerInv, PhaseInv, Started
<1>15. AheadInv'
  <2>1. ASSUME NEW d \in steady, d # c
        PROVE  /\ phase # "receiving" => at <= d[1]
               /\ phase = "asking" /\ at = d[1] =>
                      \E n \in asked + 1 .. Len(registry'[at]) : registry'[d[1]][n] = d
               /\ phase = "selecting" /\ at = d[1] =>
                      \/ found # <<>>
                      \/ \E n \in asked + 1 .. Len(registry'[at]) : registry'[d[1]][n] = d
    <3>1. d \in ready /\ d[1] \in Made /\ d \in ToSet(registry[d[1]])
      BY <1>4, ReadyIsRegistered DEF TypeOK
    <3>2. CASE d[1] # t
      <4>1. registry'[d[1]] = registry[d[1]]
        BY <1>11, <3>1, <3>2
      <4> QED
        BY <4>1 DEF ControllerInv, AheadInv, IsAt
    <3>3. CASE d[1] = t
      <4>1. PICK n \in DOMAIN order : order[n] = d
        BY <1>7, <1>9, <2>1, <3>1, <3>3 DEF ToSet
      <4>2. phase \in {"asking", "selecting"} /\ at = t => asked = 0
        <5>1. asked \in Nat
          BY <1>4 DEF TypeOK
        <5>2. phase \in {"asking", "selecting"} /\ at = t => ~(asked > 0)
          BY DEF RegistryChanges, IsLocked
        <5> QED
          BY <5>1, <5>2
      <4>4. n \in 0 + 1 .. Len(order)
        BY <1>9, <4>1
      <4>5. phase # "receiving" => at <= d[1]
        BY DEF ControllerInv, AheadInv
      <4> QED
        BY <1>11, <3>3, <4>1, <4>2, <4>4, <4>5
    <3> QED
      BY <3>2, <3>3
  <2> QED
    BY <1>1, <1>4, <2>1 DEF AheadInv, IsAt
<1>16. NamesInv' /\ RefusedForAName'
    BY <1>1, <1>11, NamesStay DEF ControllerInv
<1> QED
    BY <1>13, <1>14, <1>15, <1>16 DEF ControllerInv

-----------------------------------------------------------------------------
(* The theorems *)

\* Every step of new(), of handle() and of the connections keeps the invariant.
LEMMA StepInv ==
    ASSUME ControllerInv, [Next]_vars
    PROVE  ControllerInv'
<1>1. CASE MakeTransport
    BY <1>1, MakeTransportInv
<1>2. CASE RefuseConfig
    BY <1>2, RefuseConfigInv
<1>3. ASSUME NEW c \in Connections, BecomesReady(c) \/ CeasesToBeReady(c)
      PROVE  ControllerInv'
    BY <1>3, ReadinessInv
<1>4. ASSUME NEW t \in Made, RegistryChanges(t)
      PROVE  ControllerInv'
    BY <1>4, RegistryChangesInv
<1>5. CASE Receive
    BY <1>5, ReceiveInv
<1>6. CASE AskConnection
    BY <1>6, AskConnectionInv
<1>7. CASE SelectTransport
    BY <1>7, SelectTransportInv
<1>8. CASE NextTransport
    BY <1>8, NextTransportInv
<1>9. CASE SelectAsks
    BY <1>9, SelectAsksInv
<1>10. CASE Select
    BY <1>10, SelectInv
<1>11. CASE Blackhole \/ SelectFails \/ SendEnds
    BY <1>11, DoneInv DEF Blackhole, SelectFails, SendEnds
<1>12. CASE UNCHANGED vars
  <2>1. /\ UNCHANGED <<config, refused, registry, ready>>
        /\ UNCHANGED <<phase, at, asked, found, steady>>
    BY <1>12 DEF vars, newVars, readyVars, handleVars
  <2>2. TypeOK' /\ NamesInv' /\ RefusedForAName' /\ Made' = Made
    BY <2>1, HandleKeeps DEF ControllerInv, TypeOK
  <2>3. PhaseInv' /\ AheadInv'
    BY <2>1, <2>2 DEF ControllerInv, PhaseInv, AheadInv, IsAt, Started
  <2> QED
    BY <2>2, <2>3 DEF ControllerInv
<1> QED
    BY <1>1, <1>2, <1>3, <1>4, <1>5, <1>6, <1>7, <1>8, <1>9, <1>10, <1>11, <1>12 DEF Next

\* For every configuration, whichever connections become ready or cease to be
\* while handle() asks them.
THEOREM ControllerInvariance == Spec => []ControllerInv
<1>1. ControllerInv /\ [Next]_vars => ControllerInv'
    BY StepInv
<1> QED
    BY InitInv, <1>1, PTL DEF Spec

\* new() refuses a configuration only because of a name that is given in it.
THEOREM RefusalsHaveReasons == Spec => []RefusedForAName
<1>1. ControllerInv => RefusedForAName
    BY DEF ControllerInv
<1> QED
    BY <1>1, ControllerInvariance, PTL

\* The connections of all HTTP clients of a configuration have different names,
\* whatever the numbers of clients and of their connections.
THEOREM ConnectionNamesDiffer == Spec => []ConnectionNamesDistinct
<1>1. ControllerInv => ConnectionNamesDistinct
    BY ConnectionNames DEF ControllerInv
<1> QED
    BY <1>1, ControllerInvariance, PTL

\* A packet is given to no transport after that of a connection which stays
\* ready, and this transport finds a connection for it.
THEOREM SteadyIsServed == Spec => []SteadyNotPassedOver
<1>1. ASSUME ControllerInv PROVE SteadyNotPassedOver
  <2>1. ASSUME NEW c \in steady, phase # "receiving"
        PROVE  at <= c[1]
    BY <1>1, <2>1 DEF ControllerInv, AheadInv
  <2>2. ASSUME NEW c \in steady, AllAsked, at = c[1], found = <<>>
        PROVE  FALSE
    <3>1. \E n \in asked + 1 .. Len(registry[at]) : TRUE
      BY <1>1, <2>2 DEF ControllerInv, AheadInv, AllAsked
    <3>2. asked \in Nat /\ asked = Len(registry[at])
      BY <1>1, <2>2 DEF ControllerInv, TypeOK, AllAsked
    <3> QED
      BY <3>1, <3>2
  <2> QED
    BY <2>1, <2>2 DEF SteadyNotPassedOver
<1> QED
    BY <1>1, ControllerInvariance, PTL

-----------------------------------------------------------------------------
(* The connection of a flow *)

FlowsAndInvalid == Flows \cup {Invalid}

Routes == [FlowsAndInvalid -> (Nat \X Nat) \cup {None}]

\* What select() returns for a flow when all that is ready has been found.
ConnectionOfFlow(t, f) ==
    LET all == InOrderOf(registry[t], ReadyOf(t))
    IN  all[(IF f = Invalid THEN 0 ELSE hash[t][f] % Len(all)) + 1]

RouteTypes ==
    /\ hash \in Seq(Hashes) /\ Len(hash) = Len(registry)
    /\ route \in Seq(Routes) /\ Len(route) = Len(registry)
    /\ phase # "receiving" => packet.flow \in FlowsAndInvalid

\* What is remembered of a flow is what select() would return for it now.
RouteCurrent ==
    \A t \in Made : \A f \in FlowsAndInvalid :
        route[t][f] # None => route[t][f] = ConnectionOfFlow(t, f)

RouteInv == RouteTypes /\ RouteCurrent

\* select() finds the place of a packet's connection among those it has found.
LEMMA IndexInRange ==
    ASSUME TypeOK, RouteTypes, phase = "selecting", at \in Made, found # <<>>
    PROVE  /\ Index + 1 \in 1 .. Len(found)
           /\ found[Index + 1] \in Nat \X Nat
<1>1. found \in Seq(Nat \X Nat) /\ Len(found) \in Nat /\ Len(found) > 0
  <2>1. found \in Seq(Nat \X Nat)
    BY DEF TypeOK
  <2> QED
    BY <2>1
<1>2. hash[at] \in [Flows -> Nat]
    BY HashesAssumption, MadeTypes DEF RouteTypes
<1>3. packet.flow # Invalid => hash[at][packet.flow] \in Nat
    BY <1>2 DEF RouteTypes, FlowsAndInvalid
<1>4. \A h, n \in Nat : n > 0 => h % n \in 0 .. n - 1
    OBVIOUS
<1>5. Index \in 0 .. Len(found) - 1
    BY <1>1, <1>3, <1>4 DEF Index
<1>6. Index + 1 \in 1 .. Len(found)
    BY <1>1, <1>5
<1> QED
    BY <1>1, <1>6

\* The connections of one transport are not those of another.
LEMMA ConnectionsApart ==
    ASSUME NEW t, NEW u, t # u, NEW c \in ConnectionsOf(t)
    PROVE  c \notin ConnectionsOf(u) /\ c[1] = t
BY DEF ConnectionsOf

\* A step that changes nothing of a transport leaves the connections of its flows.
LEMMA FlowsStay ==
    ASSUME NEW t, NEW f,
           registry'[t] = registry[t], ReadyOf(t)' = ReadyOf(t),
           f # Invalid => hash'[t] = hash[t]
    PROVE  ConnectionOfFlow(t, f)' = ConnectionOfFlow(t, f)
BY DEF ConnectionOfFlow

\* Nothing is remembered of the flows of a transport that changes, and the
\* others stay as they are.
LEMMA ChangesKeepRoutes ==
    ASSUME TypeOK, RouteInv, NEW t \in Made, Changes(t),
           Len(registry') = Len(registry), Made' = Made,
           \A u \in Made \ {t} : registry'[u] = registry[u] /\ ReadyOf(u)' = ReadyOf(u)
    PROVE  RouteInv'
<1>1. UNCHANGED <<config, hash, phase, packet>> /\ route' = [route EXCEPT ![t] = NoRoute]
    BY DEF Changes, newVars, handleVars
<1>2. NoRoute \in Routes /\ Made = 1 .. Len(registry)
    BY MadeTypes DEF NoRoute, Routes, FlowsAndInvalid
<1>3. /\ route \in Seq(Routes) /\ Len(route) = Len(registry)
      /\ hash \in Seq(Hashes) /\ Len(hash) = Len(registry)
    BY DEF RouteInv, RouteTypes
<1>4. route' \in Seq(Routes) /\ Len(route') = Len(route)
  <2> HIDE DEF Routes
  <2> QED
    BY <1>1, <1>2, <1>3
<1>5. RouteTypes'
    BY <1>1, <1>3, <1>4 DEF RouteInv, RouteTypes
<1>6. ASSUME NEW u \in Made, NEW f \in FlowsAndInvalid, route'[u][f] # None
      PROVE  route'[u][f] = ConnectionOfFlow(u, f)'
  <2>1. CASE u = t
    <3>1. route'[u] = NoRoute
      BY <1>1, <1>2, <1>3, <2>1
    <3> QED
      BY <1>6, <3>1 DEF NoRoute, FlowsAndInvalid
  <2>2. CASE u # t
    <3>1. route'[u] = route[u]
      BY <1>1, <1>2, <1>3, <2>2
    <3>2. ConnectionOfFlow(u, f)' = ConnectionOfFlow(u, f)
      BY <1>1, <2>2, FlowsStay
    <3> QED
      BY <1>6, <3>1, <3>2 DEF RouteInv, RouteCurrent
  <2> QED
    BY <2>1, <2>2
<1> QED
    BY <1>5, <1>6 DEF RouteInv, RouteCurrent, FlowsAndInvalid

LEMMA ReadinessKeepsRoutes ==
    ASSUME ControllerInv, RouteInv, NEW c \in Connections,
           BecomesReady(c) \/ CeasesToBeReady(c)
    PROVE  RouteInv'
<1>1. PICK t \in Made : c \in ToSet(registry[t])
    BY DEF Connections
<1>2. TypeOK /\ c \in ConnectionsOf(t)
    BY <1>1 DEF ControllerInv, TypeOK
<1>3. c[1] = t
    BY <1>2 DEF ConnectionsOf
<1>4. Changes(t) /\ registry' = registry /\ (ready' = ready \cup {c} \/ ready' = ready \ {c})
    BY <1>3 DEF BecomesReady, CeasesToBeReady
<1>5. config' = config
    BY <1>4 DEF Changes, newVars
<1>6. ASSUME NEW u \in Made \ {t}
      PROVE  ReadyOf(u)' = ReadyOf(u)
  <2>1. c \notin ConnectionsOf(u) /\ ConnectionsOf(u)' = ConnectionsOf(u)
    BY <1>2, <1>5, ConnectionsApart DEF ConnectionsOf
  <2> QED
    BY <1>4, <2>1 DEF ReadyOf
<1> QED
    BY <1>2, <1>4, <1>6, ChangesKeepRoutes DEF Made

LEMMA RegistryKeepsRoutes ==
    ASSUME ControllerInv, RouteInv, NEW t \in Made, RegistryChanges(t)
    PROVE  RouteInv'
<1>1. PICK c \in ConnectionsOf(t) :
          /\ \E order : registry' = [registry EXCEPT ![t] = order]
          /\ ready' = ready \ {c}
    BY DEF RegistryChanges
<1>2. TypeOK /\ Changes(t) /\ config' = config
    BY DEF ControllerInv, RegistryChanges, Changes, newVars
<1>3. /\ Made' = Made /\ \A u \in Made \ {t} : registry'[u] = registry[u]
      /\ Len(registry') = Len(registry)
  <2>1. registry \in Seq(Seq(Nat \X Nat)) /\ Made = 1 .. Len(registry)
    BY <1>2, MadeTypes DEF TypeOK
  <2> QED
    BY <1>1, <2>1 DEF Made
<1>4. ASSUME NEW u \in Made \ {t}
      PROVE  ReadyOf(u)' = ReadyOf(u)
  <2>1. c \notin ConnectionsOf(u) /\ ConnectionsOf(u)' = ConnectionsOf(u)
    BY <1>2, ConnectionsApart DEF ConnectionsOf
  <2> QED
    BY <1>1, <2>1 DEF ReadyOf
<1> QED
    BY <1>2, <1>3, <1>4, ChangesKeepRoutes

\* A new transport has no packets yet.
LEMMA MakingKeepsRoutes ==
    ASSUME ControllerInv, RouteInv, MakeTransport
    PROVE  RouteInv'
<1>1. /\ \E one : registry' = Append(registry, one)
      /\ \E h \in Hashes : hash' = Append(hash, h)
    BY DEF MakeTransport
<1>2. /\ route' = Append(route, NoRoute)
      /\ UNCHANGED <<config, ready, phase, packet>>
    BY DEF MakeTransport, handleVars
<1>3. /\ registry \in Seq(Seq(Nat \X Nat)) /\ Made = 1 .. Len(registry) /\ Len(registry) \in Nat
      /\ route \in Seq(Routes) /\ Len(route) = Len(registry)
      /\ hash \in Seq(Hashes) /\ Len(hash) = Len(registry)
    BY MadeTypes DEF ControllerInv, TypeOK, RouteInv, RouteTypes
<1>4. NoRoute \in Routes
    BY DEF NoRoute, Routes, FlowsAndInvalid
<1>5. /\ hash' \in Seq(Hashes) /\ Len(hash') = Len(hash) + 1
      /\ route' \in Seq(Routes) /\ Len(route') = Len(route) + 1
  <2> HIDE DEF Routes
  <2> QED
    BY <1>1, <1>2, <1>3, <1>4
<1>6. Len(registry') = Len(registry) + 1 /\ Made' = Made \cup {Len(registry) + 1}
    BY <1>1, <1>3 DEF Made
<1>7. /\ \A u \in Made : registry'[u] = registry[u] /\ hash'[u] = hash[u] /\ route'[u] = route[u]
      /\ route'[Len(registry) + 1] = NoRoute
    BY <1>1, <1>2, <1>3
<1>8. RouteTypes'
    BY <1>2, <1>3, <1>5, <1>6 DEF RouteInv, RouteTypes
<1>9. ASSUME NEW u \in Made', NEW f \in FlowsAndInvalid, route'[u][f] # None
      PROVE  route'[u][f] = ConnectionOfFlow(u, f)'
  <2>1. u # Len(registry) + 1
    BY <1>7, <1>9 DEF NoRoute, FlowsAndInvalid
  <2>2. u \in Made
    BY <1>6, <2>1
  <2>3. ReadyOf(u)' = ReadyOf(u)
    BY <1>2 DEF ReadyOf, ConnectionsOf
  <2>4. ConnectionOfFlow(u, f)' = ConnectionOfFlow(u, f)
    BY <1>7, <2>2, <2>3, FlowsStay
  <2> QED
    BY <1>7, <1>9, <2>2, <2>4 DEF RouteInv, RouteCurrent
<1> QED
    BY <1>8, <1>9 DEF RouteInv, RouteCurrent, FlowsAndInvalid

\* What select() returns for a flow is what it has remembered of it, if what it
\* has found is what is ready.
LEMMA SelectKeepsRoutes ==
    ASSUME ControllerInv, RouteInv, Select
    PROVE  /\ RouteInv'
           /\ IsCurrent => target' = ConnectionOfFlow(at, packet.flow)
<1>1. /\ UNCHANGED <<config, registry, ready, hash, packet, at>>
      /\ phase = "selecting" /\ phase' = "sending" /\ found # <<>>
      /\ target' = found[Index + 1]
      /\ route' = IF IsCurrent THEN [route EXCEPT ![at][packet.flow] = target'] ELSE route
    BY DEF Select, AllAsked, newVars, readyVars
<1>2. /\ at \in Made /\ Made = 1 .. Len(registry) /\ Made' = Made
      /\ packet.flow \in FlowsAndInvalid
      /\ route \in Seq(Routes) /\ Len(route) = Len(registry)
    BY <1>1, MadeTypes DEF ControllerInv, PhaseInv, RouteInv, RouteTypes, Made
<1>3. target' \in Nat \X Nat
    BY <1>1, <1>2, IndexInRange DEF ControllerInv, RouteInv
<1>4. IsCurrent => target' = ConnectionOfFlow(at, packet.flow)
    BY <1>1 DEF IsCurrent, ConnectionOfFlow, Index
<1>5. \A u, f : ConnectionOfFlow(u, f)' = ConnectionOfFlow(u, f)
  <2>1. \A u : ReadyOf(u)' = ReadyOf(u)
    BY <1>1 DEF ReadyOf, ConnectionsOf
  <2> QED
    BY <1>1, <2>1, FlowsStay
<1>6. CASE ~IsCurrent
  <2>1. route' = route
    BY <1>1, <1>6
  <2>2. RouteTypes'
    BY <1>1, <1>2, <2>1 DEF RouteInv, RouteTypes
  <2>3. RouteCurrent'
    BY <1>2, <1>5, <2>1 DEF RouteInv, RouteCurrent, FlowsAndInvalid
  <2> QED
    BY <1>6, <2>2, <2>3 DEF RouteInv
<1>7. CASE IsCurrent
  <2> DEFINE new == [route[at] EXCEPT ![packet.flow] = target']
  <2>1. route[at] \in Routes
    BY <1>2
  <2>2. new \in Routes
    BY <1>3, <2>1 DEF Routes
  <2>3. route' = [route EXCEPT ![at] = new]
    BY <1>1, <1>7
  <2>4. \A f \in FlowsAndInvalid : new[f] = IF f = packet.flow THEN target' ELSE route[at][f]
    BY <2>1 DEF Routes
  <2> HIDE DEF new
  <2>5. /\ route' \in Seq(Routes) /\ Len(route') = Len(route)
        /\ \A u \in Made : route'[u] = IF u = at THEN new ELSE route[u]
    BY <1>2, <2>2, <2>3
  <2>6. RouteTypes'
    BY <1>1, <1>2, <2>5 DEF RouteInv, RouteTypes
  <2>7. ASSUME NEW u \in Made, NEW f \in FlowsAndInvalid, route'[u][f] # None
        PROVE  route'[u][f] = ConnectionOfFlow(u, f)
    <3>1. CASE u = at /\ f = packet.flow
      BY <1>4, <1>7, <2>4, <2>5, <3>1
    <3>2. CASE ~(u = at /\ f = packet.flow)
      <4>1. route'[u][f] = route[u][f]
        BY <2>4, <2>5, <3>2
      <4> QED
        BY <2>7, <4>1 DEF RouteInv, RouteCurrent
    <3> QED
      BY <3>1, <3>2
  <2>8. RouteCurrent'
    BY <1>2, <1>5, <2>7 DEF RouteCurrent, FlowsAndInvalid
  <2> QED
    BY <1>4, <1>7, <2>6, <2>8 DEF RouteInv
<1> QED
    BY <1>4, <1>6, <1>7

\* The other steps change nothing that select() depends on.
LEMMA OthersKeepRoutes ==
    ASSUME RouteInv, UNCHANGED <<config, registry, ready, hash, route>>,
           phase' # "receiving" => packet'.flow \in FlowsAndInvalid
    PROVE  RouteInv'
<1>1. \A u : ReadyOf(u)' = ReadyOf(u)
    BY DEF ReadyOf, ConnectionsOf
<1>2. \A u, f : ConnectionOfFlow(u, f)' = ConnectionOfFlow(u, f)
    BY <1>1, FlowsStay
<1>3. RouteTypes'
    BY DEF RouteInv, RouteTypes, FlowsAndInvalid
<1>4. RouteCurrent'
    BY <1>2 DEF RouteInv, RouteCurrent, FlowsAndInvalid, Made
<1> QED
    BY <1>3, <1>4 DEF RouteInv

LEMMA RouteStep ==
    ASSUME ControllerInv, RouteInv, [Next]_vars
    PROVE  /\ RouteInv'
           /\ AllAsked /\ phase' = "sending" /\ IsCurrent =>
                  /\ target' = ConnectionOfFlow(at, packet.flow)
                  /\ at \in Made /\ packet.flow \in FlowsAndInvalid
<1>1. CASE MakeTransport
    BY <1>1, MakingKeepsRoutes DEF MakeTransport, AllAsked, handleVars
<1>2. CASE RefuseConfig
    BY <1>2, OthersKeepRoutes DEF RefuseConfig, RouteInv, RouteTypes, AllAsked, handleVars, readyVars
<1>3. ASSUME NEW c \in Connections, BecomesReady(c) \/ CeasesToBeReady(c)
      PROVE  RouteInv' /\ phase' = phase
    BY <1>3, ReadinessKeepsRoutes DEF BecomesReady, CeasesToBeReady, Changes, handleVars
<1>4. ASSUME NEW t \in Made, RegistryChanges(t)
      PROVE  RouteInv' /\ phase' = phase
    BY <1>4, RegistryKeepsRoutes DEF RegistryChanges, Changes, handleVars
<1>5. CASE Receive
  <2>1. packet'.flow \in FlowsAndInvalid /\ phase' = "asking"
    BY <1>5 DEF Receive, FlowsAndInvalid
  <2> QED
    BY <1>5, <2>1, OthersKeepRoutes DEF Receive, newVars, readyVars
<1>6. CASE AskConnection
    BY <1>6, OthersKeepRoutes
       DEF AskConnection, Asks, newVars, readyVars, RouteInv, RouteTypes, AllAsked
<1>7. CASE SelectTransport
    BY <1>7, OthersKeepRoutes
       DEF SelectTransport, Asks, newVars, readyVars, RouteInv, RouteTypes, AllAsked
<1>8. CASE NextTransport
    BY <1>8, OthersKeepRoutes
       DEF NextTransport, newVars, readyVars, RouteInv, RouteTypes, AllAsked
<1>9. CASE SelectAsks
    BY <1>9, OthersKeepRoutes
       DEF SelectAsks, Asks, newVars, readyVars, RouteInv, RouteTypes, AllAsked
<1>10. CASE Select
  <2>1. at \in Made /\ packet.flow \in FlowsAndInvalid
    BY <1>10 DEF Select, AllAsked, ControllerInv, PhaseInv, RouteInv, RouteTypes
  <2> QED
    BY <1>10, <2>1, SelectKeepsRoutes
<1>11. CASE Blackhole \/ SelectFails \/ SendEnds
  <2>1. Done
    BY <1>11 DEF Blackhole, SelectFails, SendEnds
  <2> QED
    BY <2>1, OthersKeepRoutes DEF Done, newVars, readyVars
<1>12. CASE UNCHANGED vars
    BY <1>12, OthersKeepRoutes
       DEF vars, newVars, readyVars, handleVars, RouteInv, RouteTypes, AllAsked
<1>13. CASE \E c \in Connections : BecomesReady(c) \/ CeasesToBeReady(c)
  <2>1. RouteInv' /\ phase' = phase
    BY <1>3, <1>13
  <2> QED
    BY <2>1 DEF AllAsked
<1>14. CASE \E t \in Made : RegistryChanges(t)
  <2>1. RouteInv' /\ phase' = phase
    BY <1>4, <1>14
  <2> QED
    BY <2>1 DEF AllAsked
<1> QED
    BY <1>1, <1>2, <1>5, <1>6, <1>7, <1>8, <1>9, <1>10, <1>11, <1>12, <1>13, <1>14, Zenon DEF Next

\* What select() has returned for a flow is what it returns for it while the
\* transport's connections and their readiness are the same.
THEOREM RoutesInvariance == Spec => []RouteInv
<1>1. Init => RouteInv
  <2>1. <<>> \in Seq(Hashes) /\ <<>> \in Seq(Routes) /\ DOMAIN <<>> = {}
    OBVIOUS
  <2> QED
    BY <2>1 DEF Init, RouteInv, RouteTypes, RouteCurrent, Made
<1>2. ControllerInv /\ RouteInv /\ [Next]_vars => RouteInv'
    BY RouteStep
<1> QED
    BY <1>1, <1>2, ControllerInvariance, PTL DEF Spec

\* The packets of a flow go through one connection, for any hashes, numbers of
\* connections and orders of a server's registry, while these stay as they are.
THEOREM FlowsStick == Spec => FlowSticks
<1> DEFINE A == AllAsked /\ phase' = "sending" /\ IsCurrent /\ route[at][packet.flow] # None
                    => target' = route[at][packet.flow]
<1>1. ASSUME ControllerInv, RouteInv, [Next]_vars
      PROVE  A
    BY <1>1, RouteStep DEF RouteInv, RouteCurrent
<1>2. ControllerInv /\ RouteInv /\ [Next]_vars => [A]_vars
    BY <1>1
<1> HIDE DEF A
<1>3. Spec => [][A]_vars
    BY <1>2, ControllerInvariance, RoutesInvariance, PTL DEF Spec
<1> QED
    BY <1>3 DEF A, FlowSticks
===============================================================================
