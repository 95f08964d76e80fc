------------------------------ MODULE PacketPipes ------------------------------
(***************************************************************************)
(* What the HTTP transports promise about packets whose send() has         *)
(* succeeded: every connection is a pair of pipes; what has been put into  *)
(* a pipe comes out of it once and in order, also after its end, unless    *)
(* the network breaks the connection or a second connection that has       *)
(* followed it is given up too.                                            *)
(***************************************************************************)
EXTENDS Naturals, Sequences

CONSTANTS
    Conns,   \* the connections
    Packets

VARIABLES
    pipe,   \* what is in the pipes of a connection
    ended,  \* the ends of pipes that nothing is put into any more
    lost,   \* the connections that the network has broken
    age     \* 0: not given up; 1: given up; 2: its successor too, or unused

pipeVars == <<pipe, ended, lost, age>>

Directions == {"up", "down"}
Ends == Conns \X Directions

PipesInit ==
    /\ pipe = [e \in Ends |-> <<>>]
    /\ ended = Ends
    /\ lost = {}
    /\ age = [c \in Conns |-> 2]

\* A new connection: the name may have been that of an earlier one.
Open(c) ==
    /\ \A d \in Directions : pipe[<<c, d>>] = <<>> /\ <<c, d>> \in ended
    /\ age[c] = 2
    /\ ended' = ended \ ({c} \X Directions)
    /\ lost' = lost \ {c}
    /\ age' = [age EXCEPT ![c] = 0]
    /\ UNCHANGED pipe

Put(e) ==
    /\ e \notin ended
    /\ \E p \in Packets : pipe' = [pipe EXCEPT ![e] = Append(@, p)]
    /\ UNCHANGED <<ended, lost, age>>

Deliver(e) ==
    /\ pipe[e] # <<>>
    /\ pipe' = [pipe EXCEPT ![e] = Tail(@)]
    /\ UNCHANGED <<ended, lost, age>>

End(e) ==
    /\ e \notin ended
    /\ ended' = ended \cup {e}
    /\ UNCHANGED <<pipe, lost, age>>

\* The pipes of the given connections are emptied and ended.
Emptied(cs) ==
    /\ pipe' = [e \in Ends |-> IF e[1] \in cs THEN <<>> ELSE pipe[e]]
    /\ ended' = ended \cup (cs \X Directions)

\* The network breaks it.  Nobody needs it then.
Break(c) ==
    /\ Emptied({c})
    /\ lost' = lost \cup {c}
    /\ age' \in {age, [age EXCEPT ![c] = 2]}

\* The newest connection is given up, or it has ended.  What has been given up
\* before may be cut.
GiveUp(c) ==
    /\ age[c] = 0
    /\ \E a \in {1, 2} :
           /\ a = 2 => {c} \X Directions \subseteq ended
           /\ age' = [x \in Conns |-> IF x = c THEN a ELSE 2]
    /\ \E cut \in SUBSET {x \in Conns : age[x] = 1} : Emptied(cut)
    /\ UNCHANGED lost

PipesNext ==
    \/ \E c \in Conns : Open(c) \/ Break(c) \/ GiveUp(c)
    \/ \E e \in Ends : Put(e) \/ Deliver(e) \/ End(e)

PipesSafety == PipesInit /\ [][PipesNext]_pipeVars

\* What is in a pipe and is not lost comes out of it.
PipesSpec == PipesSafety /\ \A e \in Ends : WF_pipeVars(Deliver(e))
=============================================================================
