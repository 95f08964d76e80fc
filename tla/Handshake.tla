------------------------------- MODULE Handshake -------------------------------
(***************************************************************************)
(* What an HTTP server connection does with the first bytes that come      *)
(* through it (router.rs, server_connection.rs): it finds out whether they *)
(* belong to a tunnel, reads the hiddenlink handshake, and hands over what *)
(* it has read too much.  The bytes come in pieces of any size.            *)
(*                                                                         *)
(* Bytes are numbers, and the size of the fake HTTP request is one of them *)
(* here, where it is two in the code.                                      *)
(***************************************************************************)
EXTENDS Naturals, Sequences, SequencesExt, FiniteSetsExt

CONSTANTS
    Bytes,         \* what a stream consists of
    Streams,       \* bound: what a client may write
    routing_rules, \* a sequence of [protocol, header], of hiddenlink and Trojan
    HeaderSuffix,  \* HEADER_SUFFIX
    ValidFlags,    \* the bytes that are connection flags
    Letters        \* the bytes that a name may begin and end with

StaticHeaderSize == 3  \* flags, the length of the name, the size of the payload

Matches(header, data) == Len(header) <= Len(data) /\ IsPrefix(header, data)

\* The header of hiddenlink begins like an HTTP request, those of Trojan are
\* hexadecimal digests: none is the beginning of another one.
ASSUME RulesAssumption ==
    /\ Bytes \subseteq Nat
    /\ Streams \subseteq Seq(Bytes)
    /\ HeaderSuffix \in Seq(Bytes)
    /\ ValidFlags \subseteq Bytes
    /\ routing_rules \in
           Seq([protocol : {"hiddenlink", "trojan"}, header : Seq(Bytes) \ {<<>>}])
    /\ \A i, j \in DOMAIN routing_rules :
           Matches(routing_rules[i].header, routing_rules[j].header) =>
               routing_rules[i] = routing_rules[j]

VARIABLES
    stream,    \* what the client has written
    rest,      \* the bytes that have not been read
    ending,    \* what comes after them: the end of the stream, or nothing yet
    other,     \* another protocol than HTTP/1.1 has been negotiated by ALPN
    stage,     \* "routing", "static", "request", "responding" or "decided"
    buf,       \* the bytes that have been read
    index,     \* where the hiddenlink handshake begins
    decision,  \* the RoutingDecision, or that the connection is "closed"
    preread    \* preread_data of the decision

input == <<stream, ending, other>>
vars == <<input, rest, stage, buf, index, decision, preread>>

Decisions == {"none", "http", "trojan", "hiddenlink", "closed"}

TypeOK ==
    /\ stream \in Seq(Bytes) /\ rest \in Seq(Bytes) /\ buf \in Seq(Bytes)
    /\ ending \in {"eof", "open"}
    /\ other \in BOOLEAN
    /\ stage \in {"routing", "static", "request", "responding", "decided"}
    /\ index \in 0..Len(buf)
    /\ decision \in Decisions
    /\ preread \in Seq(Bytes)
    /\ decision # "none" <=> stage = "decided"

Init ==
    /\ stream \in Streams
    /\ rest = stream
    /\ ending \in {"eof", "open"}
    /\ other \in BOOLEAN
    /\ stage = "routing"
    /\ buf = <<>>
    /\ index = 0
    /\ decision = "none"
    /\ preread = <<>>

-----------------------------------------------------------------------------

Decide(what, data) ==
    /\ stage' = "decided"
    /\ decision' = what
    /\ preread' = data

\* A read gives some of the bytes that follow.
ReadBuf ==
    \E size \in 1..Len(rest) :
        /\ buf' = buf \o SubSeq(rest, 1, size)
        /\ rest' = SubSeq(rest, size + 1, Len(rest))

AtEnd == rest = <<>> /\ ending = "eof"

-----------------------------------------------------------------------------
(* process_routing_decision() and route() *)

\* The rule whose header has been read, or 0.
Rule(data) ==
    LET rules == {i \in DOMAIN routing_rules : Matches(routing_rules[i].header, data)}
    IN  IF rules = {} THEN 0 ELSE Min(rules)

\* Mistaken: a header must come in one piece.
PartialMatch_Never(data) == FALSE

PartialMatch(data) ==
    \E i \in DOMAIN routing_rules : Matches(data, routing_rules[i].header)

\* HTTP/2 is not looked into.
SkipRouting ==
    /\ stage = "routing"
    /\ other
    /\ Decide("http", <<>>)
    /\ UNCHANGED <<input, rest, buf, index>>

\* What the bytes that have been read so far lead to.
Route(data) ==
    CASE Rule(data) # 0 /\ routing_rules[Rule(data)].protocol = "hiddenlink" ->
             /\ stage' = "static"
             /\ index' = Len(routing_rules[Rule(data)].header)
             /\ UNCHANGED <<decision, preread>>
      [] Rule(data) # 0 /\ routing_rules[Rule(data)].protocol = "trojan" ->
             Decide("trojan", data) /\ UNCHANGED index
      [] Rule(data) = 0 /\ PartialMatch(data) ->
             UNCHANGED <<stage, index, decision, preread>>
      [] OTHER -> Decide("http", data) /\ UNCHANGED index

ReadHeader ==
    /\ stage = "routing"
    /\ ~other
    /\ ReadBuf
    /\ Route(buf')
    /\ UNCHANGED input

HeaderEnds ==
    /\ stage = "routing"
    /\ ~other
    /\ AtEnd
    /\ Decide("http", buf)
    /\ UNCHANGED <<input, rest, buf, index>>

-----------------------------------------------------------------------------
(* process_hiddenlink_handshake() *)

flags == buf[index + 1]
name_len == buf[index + 2]
fake_http_request_size == buf[index + 3]
name_index == index + StaticHeaderSize

\* Mistaken: there is no payload.
suffix_index_NoPayload == name_index + name_len

suffix_index == name_index + name_len + fake_http_request_size

\* Mistaken: the static header is counted twice.
handshake_size_Twice == suffix_index + StaticHeaderSize + Len(HeaderSuffix)

handshake_size == suffix_index + Len(HeaderSuffix)

\* How many bytes the current loop waits for.
Needed == IF stage = "static" THEN index + StaticHeaderSize ELSE handshake_size

Short == stage \in {"static", "request"} /\ Len(buf) < Needed

ReadHandshake ==
    /\ Short
    /\ ReadBuf
    /\ UNCHANGED <<input, stage, index, decision, preread>>

\* "Got an unexpected EOF"
HandshakeEnds ==
    /\ Short
    /\ AtEnd
    /\ Decide("closed", <<>>)
    /\ UNCHANGED <<input, rest, buf, index>>

ReadStatic ==
    /\ stage = "static"
    /\ ~Short
    /\ stage' = "request"
    /\ UNCHANGED <<input, rest, buf, index, decision, preread>>

SuffixIs(data) == SubSeq(data, suffix_index + 1, suffix_index + Len(HeaderSuffix)) = HeaderSuffix
NameIs(data) == SubSeq(data, name_index + 1, name_index + name_len)

\* A name is not empty and has no space at its ends.
ValidName(name) == name # <<>> /\ name[1] \in Letters /\ name[Len(name)] \in Letters

Valid ==
    /\ SuffixIs(buf)
    /\ flags \in ValidFlags
    /\ ValidName(NameIs(buf))

Refuse ==
    /\ stage = "request"
    /\ ~Short
    /\ ~Valid
    /\ Decide("closed", <<>>)
    /\ UNCHANGED <<input, rest, buf, index>>

AcceptHandshake ==
    /\ stage = "request"
    /\ ~Short
    /\ Valid
    /\ stage' = "responding"
    /\ UNCHANGED <<input, rest, buf, index, decision, preread>>

\* Mistaken: what has been read behind the handshake is forgotten.
Respond_Forgets ==
    /\ stage = "responding"
    /\ Decide("hiddenlink", <<>>)
    /\ UNCHANGED <<input, rest, buf, index>>

\* The response has been written, and the socket is configured.
Respond ==
    /\ stage = "responding"
    /\ Decide("hiddenlink", SubSeq(buf, handshake_size + 1, Len(buf)))
    /\ UNCHANGED <<input, rest, buf, index>>

\* The connection breaks, or CONNECTION_TIMEOUT passes: see handle().
Drop ==
    /\ stage # "decided"
    /\ Decide("closed", <<>>)
    /\ UNCHANGED <<input, rest, buf, index>>

-----------------------------------------------------------------------------

Next ==
    \/ SkipRouting \/ ReadHeader \/ HeaderEnds
    \/ ReadHandshake \/ HandshakeEnds \/ ReadStatic \/ Refuse \/ AcceptHandshake \/ Respond
    \/ Drop

Spec == Init /\ [][Next]_vars

-----------------------------------------------------------------------------
(* What the stream means, whatever pieces it comes in *)

\* The protocol of a stream that begins with the given bytes.
Protocol(s) ==
    IF other THEN "http"
    ELSE LET rules == {i \in DOMAIN routing_rules : Matches(routing_rules[i].header, s)}
         IN  IF rules = {} THEN "http" ELSE routing_rules[CHOOSE i \in rules : TRUE].protocol

\* What a byte can be the length of.
Strings == UNION {[1..n -> Bytes] : n \in Bytes}

HandshakeOf(i, f, name, payload) ==
    routing_rules[i].header \o <<f, Len(name), Len(payload)>> \o name \o payload \o HeaderSuffix

\* Whatever a hiddenlink client may begin with.
Handshakes ==
    {HandshakeOf(i, f, name, payload) :
        i \in {j \in DOMAIN routing_rules : routing_rules[j].protocol = "hiddenlink"},
        f \in ValidFlags, name \in {n \in Strings : ValidName(n)}, payload \in Strings}

\* A stream that consists of a hiddenlink handshake and something else.
IsHandshake(s, else) == \E h \in Handshakes : s = h \o else

BeginsWithHandshake(s) == \E h \in Handshakes : Matches(h, s)

-----------------------------------------------------------------------------
(* Properties *)

\* A stream goes where its first bytes belong, in whatever pieces they have
\* come and wherever they end, and the upstream server gets all of it.
RoutedByContent ==
    decision \in {"http", "trojan"} =>
        /\ decision = Protocol(stream)
        /\ preread \o rest = stream

\* Who becomes a hiddenlink connection has sent a handshake, and the bytes
\* behind it, the first packets, are where the packet reader finds them.
PassedIsHandshake ==
    decision = "hiddenlink" => Protocol(stream) = "hiddenlink" /\ IsHandshake(stream, preread \o rest)

\* No handshake is refused because of the pieces it has come in.
RefusedIsNone ==
    [][Refuse \/ HandshakeEnds => ~other /\ ~BeginsWithHandshake(stream)]_vars

\* The server does not wait for bytes that it does not need, which a client
\* that waits for the answer will never send.
NoNeedlessWait ==
    /\ stage = "routing" /\ buf # <<>> =>
           \E i \in DOMAIN routing_rules : IsStrictPrefix(buf, routing_rules[i].header)
    /\ Short => ~BeginsWithHandshake(buf)
=============================================================================
