---------------------------- MODULE MCPacketReader ----------------------------
(* An instance of PacketReader for TLC. *)
EXTENDS PacketReader

CONSTANT MaxMessages  \* bound: messages in a stream

\* Packets of the least and of the greatest size, fake responses that fit and
\* that do not, packets of impossible sizes and something else.
MCMessages ==
    [kind : {"packet"}, size : {2, 3, 4}]
        \cup [kind : {"fake"}, size : {3, 5}]
        \cup {[kind |-> "other", size |-> 2]}

EndsOf(ms) == [i \in 0..Len(ms) |-> MapThenSumSet(LAMBDA j : ms[j].size, 1..i)]

MCStreams ==
    {[messages |-> ms, ends |-> EndsOf(ms)] :
        ms \in UNION {[1..n -> MCMessages] : n \in 0..MaxMessages}}
=============================================================================
