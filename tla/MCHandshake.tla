----------------------------- MODULE MCHandshake -----------------------------
(* An instance of Handshake for TLC. *)
EXTENDS Handshake

\* Two passwords of Trojan, one of which begins like the secret of hiddenlink.
MCRules == <<
    [protocol |-> "hiddenlink", header |-> <<1, 2>>],
    [protocol |-> "trojan", header |-> <<1, 0>>],
    [protocol |-> "trojan", header |-> <<2, 0>>] >>

UpTo(length) == UNION {[1..n -> Bytes] : n \in 0..length}

\* Whatever is short, or begins like a handshake of hiddenlink: long enough for
\* one with a name, a payload and something behind it.
MCStreams == UpTo(3) \cup {<<1, 2>> \o s : s \in UpTo(7)}
MCSuffix == <<2>>
=============================================================================
