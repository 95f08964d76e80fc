--------------------------- MODULE HttpTunnelProofs ---------------------------
(***************************************************************************)
(* HttpTunnel keeps the promise of PacketPipes (its safety part), for any  *)
(* connections, packets and bounds.  PacketReader takes the packets out of *)
(* any stream as they were put there, in whatever pieces it comes.         *)
(***************************************************************************)
EXTENDS HttpTunnel, PacketReader, SequenceTheorems, WellFoundedInduction, TLAPS

\* Where the handler's connections may be.
HandlerInv ==
    /\ attempt # None => current = None /\ reader[attempt] = "none" /\ shut[attempt] = "open"
    /\ attempt # None => attempt \notin {previous, slot, sending}
    /\ current # None => current # previous /\ slot \in {None, current}
    /\ current # None /\ reader[current] = "reading" => slot = current
    /\ slot # None => slot \in {current, previous} /\ reader[slot] = "reading" /\ shut[slot] = "open"

\* What a task that has ended has left behind.
TaskOf(c) ==
    /\ reader[c] # "closing"
    /\ reader[c] = "reading" => c \in {current, previous}
    /\ shut[c] = "open" => c \in {attempt, slot}
    /\ reader[c] = "none" /\ c # attempt /\ status[c] = "up" => task[c] \in {"removing", "none"}
    /\ reader[c] = "none" /\ c # attempt => wire[Down(c)] = <<>> /\ Down(c) \notin fins
    /\ task[c] \notin {"answered", "handling"} =>
           /\ wire[Up(c)] = <<>> /\ Up(c) \notin fins
           /\ status[c] = "up" => shut[c] = "shut"

TaskInv == \A c \in Conns : TaskOf(c)

\* What is on the wire.
WireOf(c) ==
    /\ status[c] # "up" => /\ wire[Up(c)] = <<>> /\ wire[Down(c)] = <<>>
                           /\ Up(c) \notin fins /\ Down(c) \notin fins
    /\ Up(c) \in fins => shut[c] = "shut"
    /\ Down(c) \in fins => task[c] \in {"removing", "none"}
    /\ status[c] = "broken" => faults > 0
    /\ status[c] = "cut" => c \notin {attempt, current, previous}

WireInv == \A c \in Conns : WireOf(c)

RefusedInv ==
    \/ refused = 0
    \/ refused = 1 /\ (sending # None /\ sending # slot => status[sending] # "up")

SlotInv == faults = 0 /\ (current # None \/ previous # None) => slot # None

TunnelInv == TunnelTypeOK /\ HandlerInv /\ TaskInv /\ WireInv /\ RefusedInv /\ SlotInv

USE TunnelAssumption

-----------------------------------------------------------------------------

\* An end is one of the two of its connection.
LEMMA EndsOfConns ==
    /\ \A c \in Conns : /\ Up(c) \in Ends /\ Up(c)[1] = c /\ Up(c)[2] = "up"
                        /\ Down(c) \in Ends /\ Down(c)[1] = c /\ Down(c)[2] = "down"
    /\ \A e \in Ends : e[1] \in Conns /\ (e = Up(e[1]) \/ e = Down(e[1]))
    /\ \A c, d \in Conns : /\ Up(c) # Down(d)
                           /\ Up(c) = Up(d) <=> c = d
                           /\ Down(c) = Down(d) <=> c = d
  BY DEF Ends, Up, Down

\* What becomes of a wire whose packets are lost.
LEMMA Lost ==
    ASSUME NEW cs \in SUBSET Conns, NEW why \in {"up", "broken", "cut"}, TunnelTypeOK, Lose(cs, why)
    PROVE  /\ wire' \in [Ends -> Seq(Packets)] /\ fins' \subseteq Ends
           /\ status' \in [Conns -> {"up", "broken", "cut"}]
           /\ \A c \in Conns :
                  /\ wire'[Up(c)] = IF c \in cs THEN <<>> ELSE wire[Up(c)]
                  /\ wire'[Down(c)] = IF c \in cs THEN <<>> ELSE wire[Down(c)]
                  /\ Up(c) \in fins' <=> Up(c) \in fins /\ c \notin cs
                  /\ Down(c) \in fins' <=> Down(c) \in fins /\ c \notin cs
                  /\ status'[c] = IF c \in cs THEN why ELSE status[c]
<1>1. wire' \in [Ends -> Seq(Packets)] /\ fins' \subseteq Ends
  BY DEF Lose, TunnelTypeOK
<1>2. status' \in [Conns -> {"up", "broken", "cut"}]
  BY DEF Lose, TunnelTypeOK
<1>3. \A c \in Conns :
          /\ wire'[Up(c)] = IF c \in cs THEN <<>> ELSE wire[Up(c)]
          /\ wire'[Down(c)] = IF c \in cs THEN <<>> ELSE wire[Down(c)]
          /\ status'[c] = IF c \in cs THEN why ELSE status[c]
  BY EndsOfConns DEF Lose
<1>4. \A c \in Conns : /\ Up(c) \in cs \X {"up", "down"} <=> c \in cs
                       /\ Down(c) \in cs \X {"up", "down"} <=> c \in cs
  BY DEF Up, Down
<1> QED
  BY <1>1, <1>2, <1>3, <1>4 DEF Lose


\* What is left of a connection whose task is aborted.
LEMMA Killing ==
    ASSUME NEW c \in Conns \cup {None}, TunnelTypeOK, Killed(c)
    PROVE  /\ wire' \in [Ends -> Seq(Packets)] /\ fins' \subseteq Ends
           /\ status' \in [Conns -> {"up", "broken", "cut"}]
           /\ reader' \in [Conns -> {"none", "reading", "closing"}]
           /\ shut' \in [Conns -> {"open", "shutting", "shut"}]
           /\ c = None \/ (c # None /\ reader[c] = "none") => UNCHANGED <<wire, fins, status, reader, shut>>
           /\ \A d \in Conns :
                 IF d = c /\ reader[c] # "none"
                 THEN /\ wire'[Up(d)] = <<>> /\ wire'[Down(d)] = <<>>
                      /\ Up(d) \notin fins' /\ Down(d) \notin fins'
                      /\ status'[d] = IF status[d] = "up" THEN "cut" ELSE status[d]
                      /\ reader'[d] = "none" /\ shut'[d] = "shut"
                 ELSE /\ wire'[Up(d)] = wire[Up(d)] /\ wire'[Down(d)] = wire[Down(d)]
                      /\ Up(d) \in fins' <=> Up(d) \in fins
                      /\ Down(d) \in fins' <=> Down(d) \in fins
                      /\ status'[d] = status[d]
                      /\ reader'[d] = reader[d] /\ shut'[d] = shut[d]
<1>1. CASE c # None /\ reader[c] # "none"
  <2> DEFINE why == IF status[c] = "up" THEN "cut" ELSE status[c]
  <2>1. c \in Conns /\ {c} \in SUBSET Conns /\ why \in {"up", "broken", "cut"}
    BY <1>1 DEF TunnelTypeOK
  <2>2. /\ Lose({c}, why)
        /\ reader' = [reader EXCEPT ![c] = "none"]
        /\ shut' = [shut EXCEPT ![c] = "shut"]
    BY <1>1 DEF Killed
  <2> HIDE DEF why
  <2>3. /\ wire' \in [Ends -> Seq(Packets)] /\ fins' \subseteq Ends
        /\ status' \in [Conns -> {"up", "broken", "cut"}]
        /\ \A d \in Conns :
               /\ wire'[Up(d)] = IF d = c THEN <<>> ELSE wire[Up(d)]
               /\ wire'[Down(d)] = IF d = c THEN <<>> ELSE wire[Down(d)]
               /\ Up(d) \in fins' <=> Up(d) \in fins /\ d # c
               /\ Down(d) \in fins' <=> Down(d) \in fins /\ d # c
               /\ status'[d] = IF d = c THEN why ELSE status[d]
    BY <2>1, <2>2, Lost
  <2>4. /\ reader' \in [Conns -> {"none", "reading", "closing"}]
        /\ shut' \in [Conns -> {"open", "shutting", "shut"}]
        /\ \A d \in Conns : /\ reader'[d] = IF d = c THEN "none" ELSE reader[d]
                            /\ shut'[d] = IF d = c THEN "shut" ELSE shut[d]
    BY <2>1, <2>2 DEF TunnelTypeOK
  <2> QED
    BY <1>1, <2>3, <2>4 DEF why
<1>2. CASE ~(c # None /\ reader[c] # "none")
  <2>1. UNCHANGED <<wire, fins, status, reader, shut>>
    BY <1>2 DEF Killed
  <2> QED
    BY <1>2, <2>1 DEF TunnelTypeOK
<1> QED
  BY <1>1, <1>2

LEMMA BreaksStep ==
    ASSUME TunnelInv, NEW c \in Conns, Breaks(c)
    PROVE  TunnelInv'
<1>0. TunnelTypeOK /\ {c} \in SUBSET Conns /\ c \in Conns /\ Lose({c}, "broken")
  BY DEF TunnelInv, TunnelTypeOK, Breaks
<1>00. /\ wire' \in [Ends -> Seq(Packets)] /\ fins' \subseteq Ends
       /\ status' \in [Conns -> {"up", "broken", "cut"}]
       /\ \A d \in Conns :
              /\ wire'[Up(d)] = IF d = c THEN <<>> ELSE wire[Up(d)]
              /\ wire'[Down(d)] = IF d = c THEN <<>> ELSE wire[Down(d)]
              /\ Up(d) \in fins' <=> Up(d) \in fins /\ d # c
              /\ Down(d) \in fins' <=> Down(d) \in fins /\ d # c
              /\ status'[d] = IF d = c THEN "broken" ELSE status[d]
  BY <1>0, Lost
<1>1. TunnelTypeOK'
  BY <1>0, <1>00 DEF Breaks, Fault, TunnelInv, TunnelTypeOK, clientVars, handlerVars, serverVars
<1>2. HandlerInv'
  BY <1>00 DEF Breaks, Fault, TunnelInv, TunnelTypeOK, HandlerInv, clientVars, handlerVars,
               serverVars
<1>3. TaskInv'
  <2> SUFFICES ASSUME NEW d \in Conns PROVE TaskOf(d)'
    BY DEF TaskInv
  <2>0. TaskOf(d) /\ WireOf(d)
    BY DEF TunnelInv, TaskInv, WireInv
  <2>1. CASE d = c
    BY <1>0, <1>00, <2>0, <2>1 DEF Breaks, Fault, TaskOf, WireOf, TunnelInv, TunnelTypeOK,
                                   HandlerInv, clientVars, handlerVars, serverVars
  <2>2. CASE d # c
    BY <1>0, <1>00, <2>0, <2>2 DEF Breaks, Fault, TaskOf, WireOf, TunnelInv, TunnelTypeOK,
                                   HandlerInv, clientVars, handlerVars, serverVars
  <2> QED
    BY <2>1, <2>2
<1>4. WireInv'
  <2> SUFFICES ASSUME NEW d \in Conns PROVE WireOf(d)'
    BY DEF WireInv
  <2>0. TaskOf(d) /\ WireOf(d)
    BY DEF TunnelInv, TaskInv, WireInv
  <2>1. CASE d = c
    BY <1>0, <1>00, <2>0, <2>1 DEF Breaks, Fault, TaskOf, WireOf, TunnelInv, TunnelTypeOK,
                                   HandlerInv, clientVars, handlerVars, serverVars
  <2>2. CASE d # c
    BY <1>0, <1>00, <2>0, <2>2 DEF Breaks, Fault, TaskOf, WireOf, TunnelInv, TunnelTypeOK,
                                   HandlerInv, clientVars, handlerVars, serverVars
  <2> QED
    BY <2>1, <2>2
<1>5. RefusedInv'
  BY <1>00 DEF Breaks, Fault, TunnelInv, TunnelTypeOK, RefusedInv, clientVars, handlerVars,
               serverVars
<1>6. SlotInv'
  BY <1>00 DEF Breaks, Fault, TunnelInv, TunnelTypeOK, SlotInv, clientVars, handlerVars,
               serverVars
<1> QED
  BY <1>1, <1>2, <1>3, <1>4, <1>5, <1>6 DEF TunnelInv

LEMMA AnsweredStep ==
    ASSUME TunnelInv, NEW c \in Conns, Answered(c)
    PROVE  TunnelInv'
<1>1. TunnelTypeOK'
  BY DEF Answered, Unused, TunnelInv, TunnelTypeOK
<1>2. HandlerInv'
  BY DEF Answered, Unused, TunnelInv, TunnelTypeOK, HandlerInv
<1>3. TaskInv'
  <2> SUFFICES ASSUME NEW d \in Conns PROVE TaskOf(d)'
    BY DEF TaskInv
  <2>0. TaskOf(d) /\ WireOf(d)
    BY DEF TunnelInv, TaskInv, WireInv
  <2>1. CASE d = c
    BY <2>0, <2>1 DEF Answered, Unused, TaskOf, WireOf, TunnelInv, TunnelTypeOK, HandlerInv
  <2>2. CASE d # c
    BY <2>0, <2>2 DEF Answered, Unused, TaskOf, WireOf, TunnelInv, TunnelTypeOK, HandlerInv
  <2> QED
    BY <2>1, <2>2
<1>4. WireInv'
  <2> SUFFICES ASSUME NEW d \in Conns PROVE WireOf(d)'
    BY DEF WireInv
  <2>0. TaskOf(d) /\ WireOf(d)
    BY DEF TunnelInv, TaskInv, WireInv
  <2>1. CASE d = c
    BY <2>0, <2>1 DEF Answered, Unused, TaskOf, WireOf, TunnelInv, TunnelTypeOK, HandlerInv
  <2>2. CASE d # c
    BY <2>0, <2>2 DEF Answered, Unused, TaskOf, WireOf, TunnelInv, TunnelTypeOK, HandlerInv
  <2> QED
    BY <2>1, <2>2
<1>5. RefusedInv'
  BY DEF Answered, Unused, TunnelInv, TunnelTypeOK, RefusedInv
<1>6. SlotInv'
  BY DEF Answered, Unused, TunnelInv, TunnelTypeOK, SlotInv
<1> QED
  BY <1>1, <1>2, <1>3, <1>4, <1>5, <1>6 DEF TunnelInv

LEMMA AttemptFailsStep ==
    ASSUME TunnelInv, AttemptFails
    PROVE  TunnelInv'
<1>1. TunnelTypeOK'
  BY DEF AttemptFails, TunnelInv, TunnelTypeOK, serverVars, wireVars
<1>2. HandlerInv'
  BY DEF AttemptFails, TunnelInv, TunnelTypeOK, HandlerInv, serverVars, wireVars
<1>3. TaskInv'
  BY DEF AttemptFails, TunnelInv, TunnelTypeOK, HandlerInv, TaskInv, TaskOf, WireInv, WireOf,
         serverVars, wireVars
<1>4. WireInv'
  BY DEF AttemptFails, TunnelInv, TunnelTypeOK, WireInv, WireOf, serverVars, wireVars
<1>5. RefusedInv'
  BY DEF AttemptFails, TunnelInv, TunnelTypeOK, RefusedInv, serverVars, wireVars
<1>6. SlotInv'
  BY DEF AttemptFails, TunnelInv, TunnelTypeOK, SlotInv, serverVars, wireVars
<1> QED
  BY <1>1, <1>2, <1>3, <1>4, <1>5, <1>6 DEF TunnelInv

LEMMA AttemptTimesOutStep ==
    ASSUME TunnelInv, AttemptTimesOut
    PROVE  TunnelInv'
<1>0. TunnelTypeOK /\ {attempt} \in SUBSET Conns /\ attempt \in Conns /\ Lose({attempt}, "broken")
  BY DEF TunnelInv, TunnelTypeOK, AttemptTimesOut
<1>00. /\ wire' \in [Ends -> Seq(Packets)] /\ fins' \subseteq Ends
       /\ status' \in [Conns -> {"up", "broken", "cut"}]
       /\ \A d \in Conns :
              /\ wire'[Up(d)] = IF d = attempt THEN <<>> ELSE wire[Up(d)]
              /\ wire'[Down(d)] = IF d = attempt THEN <<>> ELSE wire[Down(d)]
              /\ Up(d) \in fins' <=> Up(d) \in fins /\ d # attempt
              /\ Down(d) \in fins' <=> Down(d) \in fins /\ d # attempt
              /\ status'[d] = IF d = attempt THEN "broken" ELSE status[d]
  BY <1>0, Lost
<1>1. TunnelTypeOK'
  BY <1>0, <1>00 DEF AttemptTimesOut, Fault, TunnelInv, TunnelTypeOK, serverVars
<1>2. HandlerInv'
  BY <1>00 DEF AttemptTimesOut, Fault, TunnelInv, TunnelTypeOK, HandlerInv, serverVars
<1>3. TaskInv'
  <2> SUFFICES ASSUME NEW d \in Conns PROVE TaskOf(d)'
    BY DEF TaskInv
  <2>0. TaskOf(d) /\ WireOf(d)
    BY DEF TunnelInv, TaskInv, WireInv
  <2>1. CASE d = attempt
    BY <1>0, <1>00, <2>0, <2>1 DEF AttemptTimesOut, Fault, TaskOf, WireOf, TunnelInv,
                                   TunnelTypeOK, HandlerInv, serverVars
  <2>2. CASE d # attempt
    BY <1>0, <1>00, <2>0, <2>2 DEF AttemptTimesOut, Fault, TaskOf, WireOf, TunnelInv,
                                   TunnelTypeOK, HandlerInv, serverVars
  <2> QED
    BY <2>1, <2>2
<1>4. WireInv'
  <2> SUFFICES ASSUME NEW d \in Conns PROVE WireOf(d)'
    BY DEF WireInv
  <2>0. TaskOf(d) /\ WireOf(d)
    BY DEF TunnelInv, TaskInv, WireInv
  <2>1. CASE d = attempt
    BY <1>0, <1>00, <2>0, <2>1 DEF AttemptTimesOut, Fault, TaskOf, WireOf, TunnelInv,
                                   TunnelTypeOK, HandlerInv, serverVars
  <2>2. CASE d # attempt
    BY <1>0, <1>00, <2>0, <2>2 DEF AttemptTimesOut, Fault, TaskOf, WireOf, TunnelInv,
                                   TunnelTypeOK, HandlerInv, serverVars
  <2> QED
    BY <2>1, <2>2
<1>5. RefusedInv'
  BY <1>00 DEF AttemptTimesOut, Fault, TunnelInv, TunnelTypeOK, RefusedInv, serverVars
<1>6. SlotInv'
  BY <1>00 DEF AttemptTimesOut, Fault, TunnelInv, TunnelTypeOK, SlotInv, serverVars
<1> QED
  BY <1>1, <1>2, <1>3, <1>4, <1>5, <1>6 DEF TunnelInv

LEMMA ConnectedStep ==
    ASSUME TunnelInv, Connected
    PROVE  TunnelInv'
<1>1. TunnelTypeOK'
  BY DEF Connected, TunnelInv, TunnelTypeOK, serverVars, wireVars
<1>2. HandlerInv'
  BY DEF Connected, TunnelInv, TunnelTypeOK, HandlerInv, serverVars, wireVars
<1>3. TaskInv'
  BY DEF Connected, TunnelInv, TunnelTypeOK, HandlerInv, TaskInv, TaskOf, serverVars, wireVars
<1>4. WireInv'
  BY DEF Connected, TunnelInv, TunnelTypeOK, HandlerInv, WireInv, WireOf, serverVars, wireVars
<1>5. RefusedInv'
  BY DEF Connected, TunnelInv, TunnelTypeOK, RefusedInv, serverVars, wireVars
<1>6. SlotInv'
  BY DEF Connected, TunnelInv, TunnelTypeOK, SlotInv, serverVars, wireVars
<1> QED
  BY <1>1, <1>2, <1>3, <1>4, <1>5, <1>6 DEF TunnelInv

LEMMA TtlExpiresStep ==
    ASSUME TunnelInv, TtlExpires
    PROVE  TunnelInv'
<1>0. TunnelTypeOK /\ previous \in Conns \cup {None} /\ Killed(previous)
  BY DEF TunnelInv, TunnelTypeOK, TtlExpires
<1>00. /\ wire' \in [Ends -> Seq(Packets)] /\ fins' \subseteq Ends
      /\ status' \in [Conns -> {"up", "broken", "cut"}]
      /\ reader' \in [Conns -> {"none", "reading", "closing"}]
      /\ shut' \in [Conns -> {"open", "shutting", "shut"}]
      /\ \A d \in Conns :
             IF d = previous /\ reader[previous] # "none"
             THEN /\ wire'[Up(d)] = <<>> /\ wire'[Down(d)] = <<>>
                  /\ Up(d) \notin fins' /\ Down(d) \notin fins'
                  /\ status'[d] = IF status[d] = "up" THEN "cut" ELSE status[d]
                  /\ reader'[d] = "none" /\ shut'[d] = "shut"
             ELSE /\ wire'[Up(d)] = wire[Up(d)] /\ wire'[Down(d)] = wire[Down(d)]
                  /\ Up(d) \in fins' <=> Up(d) \in fins
                  /\ Down(d) \in fins' <=> Down(d) \in fins
                  /\ status'[d] = status[d]
                  /\ reader'[d] = reader[d] /\ shut'[d] = shut[d]
  BY <1>0, Killing
<1>1. TunnelTypeOK'
  BY <1>0, <1>00 DEF TtlExpires, Waiting, TunnelInv, TunnelTypeOK, serverVars
<1>2. HandlerInv'
  BY <1>00 DEF TtlExpires, Waiting, TunnelInv, TunnelTypeOK, HandlerInv, serverVars
<1>3. TaskInv'
  <2> SUFFICES ASSUME NEW d \in Conns PROVE TaskOf(d)'
    BY DEF TaskInv
  <2>0. TaskOf(d) /\ WireOf(d)
    BY DEF TunnelInv, TaskInv, WireInv
  <2>1. CASE d = previous
    BY <1>0, <1>00, <2>0, <2>1 DEF TtlExpires, Waiting, TaskOf, WireOf, TunnelInv, TunnelTypeOK,
                                   HandlerInv, serverVars
  <2>2. CASE d # previous
    BY <1>0, <1>00, <2>0, <2>2 DEF TtlExpires, Waiting, TaskOf, WireOf, TunnelInv, TunnelTypeOK,
                                   HandlerInv, serverVars
  <2> QED
    BY <2>1, <2>2
<1>4. WireInv'
  <2> SUFFICES ASSUME NEW d \in Conns PROVE WireOf(d)'
    BY DEF WireInv
  <2>0. TaskOf(d) /\ WireOf(d)
    BY DEF TunnelInv, TaskInv, WireInv
  <2>1. CASE d = previous
    BY <1>0, <1>00, <2>0, <2>1 DEF TtlExpires, Waiting, TaskOf, WireOf, TunnelInv, TunnelTypeOK,
                                   HandlerInv, serverVars
  <2>2. CASE d # previous
    BY <1>0, <1>00, <2>0, <2>2 DEF TtlExpires, Waiting, TaskOf, WireOf, TunnelInv, TunnelTypeOK,
                                   HandlerInv, serverVars
  <2> QED
    BY <2>1, <2>2
<1>5. RefusedInv'
  BY <1>00 DEF TtlExpires, Waiting, TunnelInv, TunnelTypeOK, RefusedInv, serverVars
<1>6. SlotInv'
  BY <1>00 DEF TtlExpires, Waiting, TunnelInv, TunnelTypeOK, SlotInv, serverVars
<1> QED
  BY <1>1, <1>2, <1>3, <1>4, <1>5, <1>6 DEF TunnelInv

LEMMA ConnectionEndedStep ==
    ASSUME TunnelInv, ConnectionEnded
    PROVE  TunnelInv'
<1>0. TunnelTypeOK /\ previous \in Conns \cup {None} /\ Killed(previous)
  BY DEF TunnelInv, TunnelTypeOK, ConnectionEnded
<1>00. /\ wire' \in [Ends -> Seq(Packets)] /\ fins' \subseteq Ends
      /\ status' \in [Conns -> {"up", "broken", "cut"}]
      /\ reader' \in [Conns -> {"none", "reading", "closing"}]
      /\ shut' \in [Conns -> {"open", "shutting", "shut"}]
      /\ \A d \in Conns :
             IF d = previous /\ reader[previous] # "none"
             THEN /\ wire'[Up(d)] = <<>> /\ wire'[Down(d)] = <<>>
                  /\ Up(d) \notin fins' /\ Down(d) \notin fins'
                  /\ status'[d] = IF status[d] = "up" THEN "cut" ELSE status[d]
                  /\ reader'[d] = "none" /\ shut'[d] = "shut"
             ELSE /\ wire'[Up(d)] = wire[Up(d)] /\ wire'[Down(d)] = wire[Down(d)]
                  /\ Up(d) \in fins' <=> Up(d) \in fins
                  /\ Down(d) \in fins' <=> Down(d) \in fins
                  /\ status'[d] = status[d]
                  /\ reader'[d] = reader[d] /\ shut'[d] = shut[d]
  BY <1>0, Killing
<1>1. TunnelTypeOK'
  BY <1>0, <1>00 DEF ConnectionEnded, Waiting, TunnelInv, TunnelTypeOK, serverVars
<1>2. HandlerInv'
  BY <1>00 DEF ConnectionEnded, Waiting, TunnelInv, TunnelTypeOK, HandlerInv, serverVars
<1>3. TaskInv'
  <2> SUFFICES ASSUME NEW d \in Conns PROVE TaskOf(d)'
    BY DEF TaskInv
  <2>0. TaskOf(d) /\ WireOf(d)
    BY DEF TunnelInv, TaskInv, WireInv
  <2>1. CASE d = previous
    BY <1>0, <1>00, <2>0, <2>1 DEF ConnectionEnded, Waiting, TaskOf, WireOf, TunnelInv,
                                   TunnelTypeOK, HandlerInv, serverVars
  <2>2. CASE d # previous
    BY <1>0, <1>00, <2>0, <2>2 DEF ConnectionEnded, Waiting, TaskOf, WireOf, TunnelInv,
                                   TunnelTypeOK, HandlerInv, serverVars
  <2> QED
    BY <2>1, <2>2
<1>4. WireInv'
  <2> SUFFICES ASSUME NEW d \in Conns PROVE WireOf(d)'
    BY DEF WireInv
  <2>0. TaskOf(d) /\ WireOf(d)
    BY DEF TunnelInv, TaskInv, WireInv
  <2>1. CASE d = previous
    BY <1>0, <1>00, <2>0, <2>1 DEF ConnectionEnded, Waiting, TaskOf, WireOf, TunnelInv,
                                   TunnelTypeOK, HandlerInv, serverVars
  <2>2. CASE d # previous
    BY <1>0, <1>00, <2>0, <2>2 DEF ConnectionEnded, Waiting, TaskOf, WireOf, TunnelInv,
                                   TunnelTypeOK, HandlerInv, serverVars
  <2> QED
    BY <2>1, <2>2
<1>5. RefusedInv'
  BY <1>00 DEF ConnectionEnded, Waiting, TunnelInv, TunnelTypeOK, RefusedInv, serverVars
<1>6. SlotInv'
  BY <1>00 DEF ConnectionEnded, Waiting, TunnelInv, TunnelTypeOK, SlotInv, serverVars
<1> QED
  BY <1>1, <1>2, <1>3, <1>4, <1>5, <1>6 DEF TunnelInv

LEMMA ClientReadsStep ==
    ASSUME TunnelInv, NEW c \in Conns, ClientReads(c)
    PROVE  TunnelInv'
<1>1. TunnelTypeOK'
  BY DEF ClientReads, TunnelInv, TunnelTypeOK, clientVars, handlerVars, serverVars, Ends, Up,
         Down
<1>2. HandlerInv'
  BY DEF ClientReads, TunnelInv, TunnelTypeOK, HandlerInv, clientVars, handlerVars, serverVars
<1>3. TaskInv'
  BY DEF ClientReads, TunnelInv, TunnelTypeOK, TaskInv, TaskOf, clientVars, handlerVars,
         serverVars
<1>4. WireInv'
  BY DEF ClientReads, TunnelInv, TunnelTypeOK, WireInv, WireOf, clientVars, handlerVars,
         serverVars
<1>5. RefusedInv'
  BY DEF ClientReads, TunnelInv, TunnelTypeOK, RefusedInv, clientVars, handlerVars, serverVars
<1>6. SlotInv'
  BY DEF ClientReads, TunnelInv, TunnelTypeOK, SlotInv, clientVars, handlerVars, serverVars
<1> QED
  BY <1>1, <1>2, <1>3, <1>4, <1>5, <1>6 DEF TunnelInv

LEMMA ClientReadsEndStep ==
    ASSUME TunnelInv, NEW c \in Conns, ClientReadsEnd(c)
    PROVE  TunnelInv'
<1>1. TunnelTypeOK'
  <2>1. CASE slot = c
    BY <2>1 DEF ClientReadsEnd, TunnelInv, TunnelTypeOK, handlerVars, serverVars
  <2>2. CASE slot # c
    BY <2>2 DEF ClientReadsEnd, TunnelInv, TunnelTypeOK, handlerVars, serverVars
  <2> QED
    BY <2>1, <2>2
<1>2. HandlerInv'
  BY DEF ClientReadsEnd, TunnelInv, TunnelTypeOK, HandlerInv, handlerVars, serverVars
<1>3. TaskInv'
  BY DEF ClientReadsEnd, TunnelInv, TunnelTypeOK, HandlerInv, TaskInv, TaskOf, WireInv, WireOf,
         handlerVars, serverVars
<1>4. WireInv'
  BY DEF ClientReadsEnd, TunnelInv, TunnelTypeOK, HandlerInv, WireInv, WireOf, handlerVars,
         serverVars
<1>5. RefusedInv'
  BY DEF ClientReadsEnd, TunnelInv, TunnelTypeOK, HandlerInv, RefusedInv, TaskInv, TaskOf,
         WireInv, WireOf, handlerVars, serverVars
<1>6. SlotInv'
  BY DEF ClientReadsEnd, TunnelInv, TunnelTypeOK, HandlerInv, SlotInv, WireInv, WireOf, TaskInv,
         TaskOf, handlerVars, serverVars
<1> QED
  BY <1>1, <1>2, <1>3, <1>4, <1>5, <1>6 DEF TunnelInv

LEMMA ClientReadFailsStep ==
    ASSUME TunnelInv, NEW c \in Conns, ClientReadFails(c)
    PROVE  TunnelInv'
<1>1. TunnelTypeOK'
  BY DEF ClientReadFails, TunnelInv, TunnelTypeOK, handlerVars, serverVars, wireVars
<1>2. HandlerInv'
  BY DEF ClientReadFails, TunnelInv, TunnelTypeOK, HandlerInv, handlerVars, serverVars, wireVars
<1>3. TaskInv'
  BY DEF ClientReadFails, TunnelInv, TunnelTypeOK, HandlerInv, TaskInv, TaskOf, WireInv, WireOf,
         handlerVars, serverVars, wireVars
<1>4. WireInv'
  BY DEF ClientReadFails, TunnelInv, TunnelTypeOK, WireInv, WireOf, handlerVars, serverVars,
         wireVars
<1>5. RefusedInv'
  BY DEF ClientReadFails, TunnelInv, TunnelTypeOK, RefusedInv, handlerVars, serverVars, wireVars
<1>6. SlotInv'
  BY DEF ClientReadFails, TunnelInv, TunnelTypeOK, HandlerInv, SlotInv, WireInv, WireOf,
         handlerVars, serverVars, wireVars
<1> QED
  BY <1>1, <1>2, <1>3, <1>4, <1>5, <1>6 DEF TunnelInv

LEMMA ClientShutsDownStep ==
    ASSUME TunnelInv, NEW c \in Conns, ClientShutsDown(c)
    PROVE  TunnelInv'
<1>1. TunnelTypeOK'
  BY DEF ClientShutsDown, TunnelInv, TunnelTypeOK, handlerVars, serverVars, Ends, Up, Down
<1>2. HandlerInv'
  BY DEF ClientShutsDown, TunnelInv, TunnelTypeOK, HandlerInv, handlerVars, serverVars
<1>3. TaskInv'
  BY EndsOfConns DEF ClientShutsDown, TunnelInv, TunnelTypeOK, HandlerInv, TaskInv, TaskOf,
                     handlerVars, serverVars
<1>4. WireInv'
  BY EndsOfConns DEF ClientShutsDown, TunnelInv, TunnelTypeOK, HandlerInv, WireInv, WireOf,
                     handlerVars, serverVars
<1>5. RefusedInv'
  BY DEF ClientShutsDown, TunnelInv, TunnelTypeOK, RefusedInv, handlerVars, serverVars
<1>6. SlotInv'
  BY DEF ClientShutsDown, TunnelInv, TunnelTypeOK, SlotInv, handlerVars, serverVars
<1> QED
  BY <1>1, <1>2, <1>3, <1>4, <1>5, <1>6 DEF TunnelInv

LEMMA ClientFetchesStep ==
    ASSUME TunnelInv, ClientFetches
    PROVE  TunnelInv'
<1>1. TunnelTypeOK'
  BY DEF ClientFetches, TunnelInv, TunnelTypeOK, handlerVars, serverVars, wireVars
<1>2. HandlerInv'
  BY DEF ClientFetches, TunnelInv, TunnelTypeOK, HandlerInv, handlerVars, serverVars, wireVars
<1>3. TaskInv'
  BY DEF ClientFetches, TunnelInv, TunnelTypeOK, TaskInv, TaskOf, handlerVars, serverVars,
         wireVars
<1>4. WireInv'
  BY DEF ClientFetches, TunnelInv, TunnelTypeOK, WireInv, WireOf, handlerVars, serverVars,
         wireVars
<1>5. RefusedInv'
  BY DEF ClientFetches, TunnelInv, TunnelTypeOK, RefusedInv, handlerVars, serverVars, wireVars
<1>6. SlotInv'
  BY DEF ClientFetches, TunnelInv, TunnelTypeOK, SlotInv, handlerVars, serverVars, wireVars
<1> QED
  BY <1>1, <1>2, <1>3, <1>4, <1>5, <1>6 DEF TunnelInv

LEMMA ClientWritesStep ==
    ASSUME TunnelInv, ClientWrites
    PROVE  TunnelInv'
<1>1. TunnelTypeOK'
  BY DEF ClientWrites, TunnelInv, TunnelTypeOK, handlerVars, serverVars, Ends, Up, Down
<1>2. HandlerInv'
  BY DEF ClientWrites, TunnelInv, TunnelTypeOK, HandlerInv, handlerVars, serverVars
<1>3. TaskInv'
  BY EndsOfConns DEF ClientWrites, TunnelInv, TunnelTypeOK, TaskInv, TaskOf, handlerVars,
                     serverVars
<1>4. WireInv'
  BY EndsOfConns DEF ClientWrites, TunnelInv, TunnelTypeOK, WireInv, WireOf, handlerVars,
                     serverVars
<1>5. RefusedInv'
  BY DEF ClientWrites, TunnelInv, TunnelTypeOK, RefusedInv, handlerVars, serverVars
<1>6. SlotInv'
  BY DEF ClientWrites, TunnelInv, TunnelTypeOK, SlotInv, handlerVars, serverVars
<1> QED
  BY <1>1, <1>2, <1>3, <1>4, <1>5, <1>6 DEF TunnelInv

LEMMA ClientIsRefusedStep ==
    ASSUME TunnelInv, ClientIsRefused
    PROVE  TunnelInv'
<1>1. TunnelTypeOK'
  BY DEF ClientIsRefused, TunnelInv, TunnelTypeOK, handlerVars, serverVars, wireVars
<1>2. HandlerInv'
  BY DEF ClientIsRefused, TunnelInv, TunnelTypeOK, HandlerInv, handlerVars, serverVars, wireVars
<1>3. TaskInv'
  BY DEF ClientIsRefused, TunnelInv, TunnelTypeOK, TaskInv, TaskOf, handlerVars, serverVars,
         wireVars
<1>4. WireInv'
  BY DEF ClientIsRefused, TunnelInv, TunnelTypeOK, WireInv, WireOf, handlerVars, serverVars,
         wireVars
<1>5. RefusedInv'
  BY DEF ClientIsRefused, TunnelInv, TunnelTypeOK, HandlerInv, RefusedInv, handlerVars,
         serverVars, wireVars
<1>6. SlotInv'
  BY DEF ClientIsRefused, TunnelInv, TunnelTypeOK, SlotInv, handlerVars, serverVars, wireVars
<1> QED
  BY <1>1, <1>2, <1>3, <1>4, <1>5, <1>6 DEF TunnelInv

LEMMA RegistersStep ==
    ASSUME TunnelInv, NEW c \in Conns, Registers(c)
    PROVE  TunnelInv'
<1>1. TunnelTypeOK'
  BY DEF Registers, TunnelInv, TunnelTypeOK, clientVars, handlerVars, wireVars
<1>2. HandlerInv'
  BY DEF Registers, TunnelInv, TunnelTypeOK, HandlerInv, clientVars, handlerVars, wireVars
<1>3. TaskInv'
  BY DEF Registers, TunnelInv, TunnelTypeOK, TaskInv, TaskOf, clientVars, handlerVars, wireVars
<1>4. WireInv'
  BY DEF Registers, TunnelInv, TunnelTypeOK, WireInv, WireOf, clientVars, handlerVars, wireVars
<1>5. RefusedInv'
  BY DEF Registers, TunnelInv, TunnelTypeOK, RefusedInv, clientVars, handlerVars, wireVars
<1>6. SlotInv'
  BY DEF Registers, TunnelInv, TunnelTypeOK, SlotInv, clientVars, handlerVars, wireVars
<1> QED
  BY <1>1, <1>2, <1>3, <1>4, <1>5, <1>6 DEF TunnelInv

LEMMA ServerReadsStep ==
    ASSUME TunnelInv, NEW c \in Conns, ServerReads(c)
    PROVE  TunnelInv'
<1>1. TunnelTypeOK'
  BY DEF ServerReads, TunnelInv, TunnelTypeOK, clientVars, handlerVars, serverVars, Ends, Up,
         Down
<1>2. HandlerInv'
  BY DEF ServerReads, TunnelInv, TunnelTypeOK, HandlerInv, clientVars, handlerVars, serverVars
<1>3. TaskInv'
  BY DEF ServerReads, TunnelInv, TunnelTypeOK, TaskInv, TaskOf, clientVars, handlerVars,
         serverVars
<1>4. WireInv'
  BY DEF ServerReads, TunnelInv, TunnelTypeOK, WireInv, WireOf, clientVars, handlerVars,
         serverVars
<1>5. RefusedInv'
  BY DEF ServerReads, TunnelInv, TunnelTypeOK, RefusedInv, clientVars, handlerVars, serverVars
<1>6. SlotInv'
  BY DEF ServerReads, TunnelInv, TunnelTypeOK, SlotInv, clientVars, handlerVars, serverVars
<1> QED
  BY <1>1, <1>2, <1>3, <1>4, <1>5, <1>6 DEF TunnelInv

LEMMA ServerReadsEndStep ==
    ASSUME TunnelInv, NEW c \in Conns, ServerReadsEnd(c)
    PROVE  TunnelInv'
<1>1. TunnelTypeOK'
  BY DEF ServerReadsEnd, TunnelInv, TunnelTypeOK, clientVars, handlerVars
<1>2. HandlerInv'
  BY DEF ServerReadsEnd, TunnelInv, TunnelTypeOK, HandlerInv, clientVars, handlerVars
<1>3. TaskInv'
  BY DEF ServerReadsEnd, TunnelInv, TunnelTypeOK, HandlerInv, TaskInv, TaskOf, WireInv, WireOf,
         clientVars, handlerVars
<1>4. WireInv'
  BY DEF ServerReadsEnd, TunnelInv, TunnelTypeOK, WireInv, WireOf, clientVars, handlerVars
<1>5. RefusedInv'
  BY DEF ServerReadsEnd, TunnelInv, TunnelTypeOK, RefusedInv, clientVars, handlerVars
<1>6. SlotInv'
  BY DEF ServerReadsEnd, TunnelInv, TunnelTypeOK, SlotInv, clientVars, handlerVars
<1> QED
  BY <1>1, <1>2, <1>3, <1>4, <1>5, <1>6 DEF TunnelInv

LEMMA ServerReadFailsStep ==
    ASSUME TunnelInv, NEW c \in Conns, ServerReadFails(c)
    PROVE  TunnelInv'
<1>1. TunnelTypeOK'
  BY DEF ServerReadFails, TunnelInv, TunnelTypeOK, clientVars, handlerVars, wireVars
<1>2. HandlerInv'
  BY DEF ServerReadFails, TunnelInv, TunnelTypeOK, HandlerInv, clientVars, handlerVars, wireVars
<1>3. TaskInv'
  BY DEF ServerReadFails, TunnelInv, TunnelTypeOK, HandlerInv, TaskInv, TaskOf, WireInv, WireOf,
         clientVars, handlerVars, wireVars
<1>4. WireInv'
  BY DEF ServerReadFails, TunnelInv, TunnelTypeOK, WireInv, WireOf, clientVars, handlerVars,
         wireVars
<1>5. RefusedInv'
  BY DEF ServerReadFails, TunnelInv, TunnelTypeOK, RefusedInv, clientVars, handlerVars, wireVars
<1>6. SlotInv'
  BY DEF ServerReadFails, TunnelInv, TunnelTypeOK, SlotInv, clientVars, handlerVars, wireVars
<1> QED
  BY <1>1, <1>2, <1>3, <1>4, <1>5, <1>6 DEF TunnelInv

LEMMA ServerShutsDownStep ==
    ASSUME TunnelInv, NEW c \in Conns, ServerShutsDown(c)
    PROVE  TunnelInv'
<1>1. TunnelTypeOK'
  BY DEF ServerShutsDown, TunnelInv, TunnelTypeOK, clientVars, handlerVars, Ends, Up, Down
<1>2. HandlerInv'
  BY DEF ServerShutsDown, TunnelInv, TunnelTypeOK, HandlerInv, clientVars, handlerVars
<1>3. TaskInv'
  BY EndsOfConns DEF ServerShutsDown, TunnelInv, TunnelTypeOK, HandlerInv, TaskInv, TaskOf,
                     clientVars, handlerVars
<1>4. WireInv'
  BY EndsOfConns DEF ServerShutsDown, TunnelInv, TunnelTypeOK, HandlerInv, WireInv, WireOf,
                     clientVars, handlerVars
<1>5. RefusedInv'
  BY DEF ServerShutsDown, TunnelInv, TunnelTypeOK, RefusedInv, clientVars, handlerVars
<1>6. SlotInv'
  BY DEF ServerShutsDown, TunnelInv, TunnelTypeOK, SlotInv, clientVars, handlerVars
<1> QED
  BY <1>1, <1>2, <1>3, <1>4, <1>5, <1>6 DEF TunnelInv

LEMMA RemovesStep ==
    ASSUME TunnelInv, NEW c \in Conns, Removes(c)
    PROVE  TunnelInv'
<1>1. TunnelTypeOK'
  BY DEF Removes, TunnelInv, TunnelTypeOK, clientVars, handlerVars, wireVars
<1>2. HandlerInv'
  BY DEF Removes, TunnelInv, TunnelTypeOK, HandlerInv, clientVars, handlerVars, wireVars
<1>3. TaskInv'
  BY DEF Removes, TunnelInv, TunnelTypeOK, TaskInv, TaskOf, clientVars, handlerVars, wireVars
<1>4. WireInv'
  BY DEF Removes, TunnelInv, TunnelTypeOK, WireInv, WireOf, clientVars, handlerVars, wireVars
<1>5. RefusedInv'
  BY DEF Removes, TunnelInv, TunnelTypeOK, RefusedInv, clientVars, handlerVars, wireVars
<1>6. SlotInv'
  BY DEF Removes, TunnelInv, TunnelTypeOK, SlotInv, clientVars, handlerVars, wireVars
<1> QED
  BY <1>1, <1>2, <1>3, <1>4, <1>5, <1>6 DEF TunnelInv

LEMMA ServerSelectsStep ==
    ASSUME TunnelInv, ServerSelects
    PROVE  TunnelInv'
<1>1. TunnelTypeOK'
  BY DEF ServerSelects, TunnelInv, TunnelTypeOK, clientVars, handlerVars, wireVars
<1>2. HandlerInv'
  BY DEF ServerSelects, TunnelInv, TunnelTypeOK, HandlerInv, clientVars, handlerVars, wireVars
<1>3. TaskInv'
  BY DEF ServerSelects, TunnelInv, TunnelTypeOK, TaskInv, TaskOf, clientVars, handlerVars,
         wireVars
<1>4. WireInv'
  BY DEF ServerSelects, TunnelInv, TunnelTypeOK, WireInv, WireOf, clientVars, handlerVars,
         wireVars
<1>5. RefusedInv'
  BY DEF ServerSelects, TunnelInv, TunnelTypeOK, RefusedInv, clientVars, handlerVars, wireVars
<1>6. SlotInv'
  BY DEF ServerSelects, TunnelInv, TunnelTypeOK, SlotInv, clientVars, handlerVars, wireVars
<1> QED
  BY <1>1, <1>2, <1>3, <1>4, <1>5, <1>6 DEF TunnelInv

LEMMA ServerWritesStep ==
    ASSUME TunnelInv, ServerWrites
    PROVE  TunnelInv'
<1>1. TunnelTypeOK'
  BY DEF ServerWrites, TunnelInv, TunnelTypeOK, clientVars, handlerVars, Ends, Up, Down
<1>2. HandlerInv'
  BY DEF ServerWrites, TunnelInv, TunnelTypeOK, HandlerInv, clientVars, handlerVars
<1>3. TaskInv'
  BY EndsOfConns DEF ServerWrites, TunnelInv, TunnelTypeOK, HandlerInv, TaskInv, TaskOf,
                     clientVars, handlerVars
<1>4. WireInv'
  BY EndsOfConns DEF ServerWrites, TunnelInv, TunnelTypeOK, WireInv, WireOf, clientVars,
                     handlerVars
<1>5. RefusedInv'
  BY DEF ServerWrites, TunnelInv, TunnelTypeOK, RefusedInv, clientVars, handlerVars
<1>6. SlotInv'
  BY DEF ServerWrites, TunnelInv, TunnelTypeOK, SlotInv, clientVars, handlerVars
<1> QED
  BY <1>1, <1>2, <1>3, <1>4, <1>5, <1>6 DEF TunnelInv

LEMMA ServerIsRefusedStep ==
    ASSUME TunnelInv, ServerIsRefused
    PROVE  TunnelInv'
<1>1. TunnelTypeOK'
  BY DEF ServerIsRefused, TunnelInv, TunnelTypeOK, clientVars, handlerVars, wireVars
<1>2. HandlerInv'
  BY DEF ServerIsRefused, TunnelInv, TunnelTypeOK, HandlerInv, clientVars, handlerVars, wireVars
<1>3. TaskInv'
  BY DEF ServerIsRefused, TunnelInv, TunnelTypeOK, TaskInv, TaskOf, clientVars, handlerVars,
         wireVars
<1>4. WireInv'
  BY DEF ServerIsRefused, TunnelInv, TunnelTypeOK, WireInv, WireOf, clientVars, handlerVars,
         wireVars
<1>5. RefusedInv'
  BY DEF ServerIsRefused, TunnelInv, TunnelTypeOK, RefusedInv, clientVars, handlerVars, wireVars
<1>6. SlotInv'
  BY DEF ServerIsRefused, TunnelInv, TunnelTypeOK, SlotInv, clientVars, handlerVars, wireVars
<1> QED
  BY <1>1, <1>2, <1>3, <1>4, <1>5, <1>6 DEF TunnelInv

LEMMA TunnelInitInv == TunnelInit => TunnelInv
<1> SUFFICES ASSUME TunnelInit PROVE TunnelInv
  OBVIOUS
<1>1. TunnelTypeOK
  BY DEF TunnelInit, TunnelTypeOK
<1>2. HandlerInv /\ RefusedInv /\ SlotInv
  BY DEF TunnelInit, HandlerInv, RefusedInv, SlotInv
<1>3. TaskInv /\ WireInv
  BY EndsOfConns DEF TunnelInit, TaskInv, TaskOf, WireInv, WireOf
<1> QED
  BY <1>1, <1>2, <1>3 DEF TunnelInv

LEMMA TunnelInvStep == TunnelInv /\ [TunnelNext]_tunnelVars => TunnelInv'
<1> SUFFICES ASSUME TunnelInv, [TunnelNext]_tunnelVars PROVE TunnelInv'
  OBVIOUS
<1>1. CASE UNCHANGED tunnelVars
  BY <1>1 DEF tunnelVars, clientVars, handlerVars, serverVars, wireVars, TunnelInv,
              TunnelTypeOK,
              HandlerInv, TaskInv, TaskOf, WireInv, WireOf, RefusedInv, SlotInv
<1>2. ASSUME NEW c \in Conns, Breaks(c) PROVE TunnelInv'
  BY <1>2, BreaksStep
<1>3. CASE ClientStep
  BY <1>3, AnsweredStep, AttemptFailsStep, AttemptTimesOutStep, ConnectedStep, TtlExpiresStep,
     ConnectionEndedStep, ClientReadsStep, ClientReadsEndStep, ClientReadFailsStep, ClientShutsDownStep,
     ClientFetchesStep, ClientWritesStep, ClientIsRefusedStep DEF ClientStep
<1>4. CASE ServerStep
  BY <1>4, RegistersStep, ServerReadsStep, ServerReadsEndStep, ServerReadFailsStep,
     ServerShutsDownStep,
     RemovesStep, ServerSelectsStep, ServerWritesStep, ServerIsRefusedStep DEF ServerStep
<1> QED
  BY <1>1, <1>2, <1>3, <1>4 DEF TunnelNext

\* TunnelInv is an invariant of both ends of the tunnel.
THEOREM TunnelInvariance == TunnelSpec => []TunnelInv
  BY TunnelInitInv, TunnelInvStep, PTL DEF TunnelSpec

\* While nothing is broken the client always has a connection to send to
\* (process_connection(), PacketWriter::replace()).
THEOREM SlotStaysFull == TunnelSpec => []SlotNeverEmpties
<1>1. TunnelInv => SlotNeverEmpties
  BY DEF TunnelInv, SlotInv, SlotNeverEmpties
<1> QED
  BY <1>1, TunnelInvariance, PTL

\* A replaced connection costs one packet at most (PacketWriter::send()).
THEOREM RotationIsCheap == TunnelSpec => []RotationCostsOne
<1>1. TunnelInv => RotationCostsOne
  BY DEF TunnelInv, RefusedInv, RotationCostsOne
<1> QED
  BY <1>1, TunnelInvariance, PTL

-----------------------------------------------------------------------------
(* The connection that both ends use *)

\* The writer of a connection leaves its slot before its task goes on.
ServedInv == \A c \in served : task[c] = "handling"

LEMMA ServedStep ==
    ASSUME TunnelInv, ServedInv, [TunnelNext]_tunnelVars
    PROVE  ServedInv'
<1>1. /\ served \subseteq Conns
      /\ task \in [Conns -> {"none", "answered", "handling", "closing", "removing"}]
  BY DEF TunnelInv, TunnelTypeOK
<1>2. ASSUME NEW c \in Conns, Answered(c) PROVE ServedInv'
  BY <1>1, <1>2 DEF Answered, Unused, ServedInv
<1>3. ASSUME NEW c \in Conns,
             Registers(c) \/ ServerReadsEnd(c) \/ ServerReadFails(c) \/ ServerShutsDown(c) \/ Removes(c)
      PROVE  ServedInv'
  BY <1>1, <1>3 DEF Registers, ServerReadsEnd, ServerReadFails, ServerShutsDown, Removes, ServedInv
<1>4. CASE UNCHANGED <<task, served>>
  BY <1>4 DEF ServedInv
<1> QED
  BY <1>2, <1>3, <1>4
  DEF TunnelNext, ClientStep, ServerStep, Breaks, AttemptFails, AttemptTimesOut, Connected,
      TtlExpires, ConnectionEnded, ClientReads, ClientReadsEnd, ClientReadFails,
      ClientShutsDown, ClientFetches, ClientWrites, ClientIsRefused, ServerReads,
      ServerSelects, ServerWrites, ServerIsRefused, tunnelVars, serverVars

\* The client keeps its half of a connection that is in the slot open, so the
\* server reads no end of it and keeps it registered.
LEMMA AgreementStep ==
    ASSUME TunnelInv, ServedInv, [TunnelNext]_tunnelVars,
           Agreed, RegistersInTime, slot' = slot, status'[slot] = "up"
    PROVE  Agreed' \/ active' = attempt
<1>1. /\ slot \in Conns /\ shut[slot] = "open" /\ Up(slot) \notin fins
      /\ current # None => slot = current
      /\ task[slot] = "handling"
  BY TunnelAssumption DEF Agreed, TunnelInv, TunnelTypeOK, HandlerInv, WireInv, WireOf, ServedInv
<1>2. ASSUME NEW c \in Conns, Registers(c) PROVE Agreed' \/ active' = attempt
  <2>1. c \in {attempt, current} /\ active' = c /\ served' = served \cup {c}
    BY <1>2 DEF Registers, RegistersInTime
  <2> QED
    BY <1>1, <2>1, TunnelAssumption DEF Agreed
<1>3. ASSUME NEW c \in Conns, ServerReadsEnd(c) \/ ServerReadFails(c) \/ Removes(c)
      PROVE  Agreed'
  <2>1. c # slot
    BY <1>1, <1>3 DEF ServerReadsEnd, ServerReadFails, Removes, Agreed
  <2>2. active' = active /\ served \ {c} \subseteq served'
    BY <1>3, <2>1 DEF ServerReadsEnd, ServerReadFails, Removes, Agreed
  <2> QED
    BY <2>1, <2>2 DEF Agreed
<1>4. CASE UNCHANGED <<active, served>>
  BY <1>4 DEF Agreed
<1> QED
  BY <1>2, <1>3, <1>4
  DEF TunnelNext, ClientStep, ServerStep, Breaks, Answered, AttemptFails, AttemptTimesOut,
      Connected, TtlExpires, ConnectionEnded, ClientReads, ClientReadsEnd,
      ClientReadFails, ClientShutsDown, ClientFetches, ClientWrites, ClientIsRefused,
      ServerReads, ServerShutsDown, ServerSelects, ServerWrites, ServerIsRefused, tunnelVars,
      serverVars

\* Both ends go on using the same connection until its successor is in place,
\* however late its predecessors end (HttpServerTransport::handle(), remove()).
THEOREM AgreementStays == TunnelSpec => StaysAgreed
<1>1. TunnelInit => ServedInv
  BY DEF TunnelInit, ServedInv
<1>2. TunnelInv /\ ServedInv /\ [TunnelNext]_tunnelVars => ServedInv'
  BY ServedStep
<1>3. TunnelSpec => []ServedInv
  BY <1>1, <1>2, TunnelInvariance, PTL DEF TunnelSpec
<1>4. TunnelInv /\ ServedInv /\ [TunnelNext]_tunnelVars =>
          [Agreed /\ RegistersInTime /\ slot' = slot /\ status'[slot] = "up" =>
               Agreed' \/ active' = attempt]_tunnelVars
  BY AgreementStep
<1> QED
  BY <1>3, <1>4, TunnelInvariance, PTL DEF TunnelSpec, StaysAgreed

-----------------------------------------------------------------------------
(* The pipes *)

\* Sets of ends are equal if they agree on the two ends of every connection.
LEMMA SameEnds ==
    ASSUME NEW S \in SUBSET Ends, NEW T \in SUBSET Ends,
           \A c \in Conns : (Up(c) \in S <=> Up(c) \in T) /\ (Down(c) \in S <=> Down(c) \in T)
    PROVE  S = T
<1>1. \A e \in Ends : e \in S <=> e \in T
  BY EndsOfConns
<1> QED
  BY <1>1

LEMMA SameUnion ==
    ASSUME NEW S \in SUBSET Ends, NEW T \in SUBSET Ends, NEW D \in SUBSET Ends,
           \A c \in Conns : /\ Up(c) \in S <=> Up(c) \in T \/ Up(c) \in D
                            /\ Down(c) \in S <=> Down(c) \in T \/ Down(c) \in D
    PROVE  S = T \cup D
<1>1. \A e \in Ends : e \in S <=> e \in T \/ e \in D
  BY EndsOfConns
<1> QED
  BY <1>1

\* Which pipes are ended, before and after a step.
LEMMA EndedEnds ==
    /\ Ended \in SUBSET Ends /\ Ended' \in SUBSET Ends
    /\ \A c \in Conns :
          /\ Up(c) \in Ended <=> status[c] # "up" \/ shut[c] = "shut"
          /\ Down(c) \in Ended <=> status[c] # "up" \/ task[c] \in {"none", "removing"}
          /\ Up(c) \in Ended' <=> status'[c] # "up" \/ shut'[c] = "shut"
          /\ Down(c) \in Ended' <=> status'[c] # "up" \/ task'[c] \in {"none", "removing"}
<1>1. Ended \in SUBSET Ends /\ Ended' \in SUBSET Ends
  BY DEF Ended
<1>2. \A c \in Conns :
          /\ IsEnded(Up(c)) <=> status[c] # "up" \/ shut[c] = "shut"
          /\ IsEnded(Down(c)) <=> status[c] # "up" \/ task[c] \in {"none", "removing"}
          /\ IsEnded(Up(c))' <=> status'[c] # "up" \/ shut'[c] = "shut"
          /\ IsEnded(Down(c))' <=> status'[c] # "up" \/ task'[c] \in {"none", "removing"}
  BY DEF IsEnded, Up, Down
<1> QED
  BY <1>1, <1>2, EndsOfConns DEF Ended

\* The two pipes of connections.
LEMMA PipesOf ==
    ASSUME NEW cs \in SUBSET Conns
    PROVE  /\ cs \X Pipes!Directions \in SUBSET Ends
           /\ \A c \in Conns : /\ Up(c) \in cs \X Pipes!Directions <=> c \in cs
                               /\ Down(c) \in cs \X Pipes!Directions <=> c \in cs
  BY DEF Pipes!Directions, Ends, Up, Down

LEMMA PipesEnds == Pipes!Ends = Ends
  BY DEF Pipes!Ends, Pipes!Directions, Ends

\* Steps that neither write, read, end nor lose anything.
LEMMA Stutters ==
    ASSUME TunnelTypeOK, wire' = wire, status' = status,
           {attempt', current'} = {attempt, current}, previous' = previous,
           \A c \in Conns : status[c] = "up" =>
               /\ shut'[c] = "shut" <=> shut[c] = "shut"
               /\ task'[c] \in {"none", "removing"} <=> task[c] \in {"none", "removing"}
    PROVE  UNCHANGED Pipes!pipeVars
<1>1. Ended' = Ended
  BY EndedEnds, SameEnds
<1>2. Broken' = Broken
  BY DEF Broken
<1>3. Ages' = Ages
  BY DEF Ages, Age
<1> QED
  BY <1>1, <1>2, <1>3 DEF Pipes!pipeVars

LEMMA MapsInit == TunnelInit => Pipes!PipesInit
<1> SUFFICES ASSUME TunnelInit PROVE Pipes!PipesInit
  OBVIOUS
<1>1. wire = [e \in Pipes!Ends |-> <<>>]
  BY PipesEnds DEF TunnelInit
<1>2. Ended = Pipes!Ends
  <2>1. \A c \in Conns : Up(c) \in Ended /\ Down(c) \in Ended
    BY EndedEnds DEF TunnelInit
  <2>2. Ended = Ends
    BY <2>1, EndedEnds, EndsOfConns, SameEnds
  <2> QED
    BY <2>2, PipesEnds
<1>3. Broken = {}
  BY DEF TunnelInit, Broken
<1>4. Ages = [c \in Conns |-> 2]
  BY DEF TunnelInit, Ages, Age
<1> QED
  BY <1>1, <1>2, <1>3, <1>4 DEF Pipes!PipesInit

LEMMA MapsOpen ==
    ASSUME TunnelInv, NEW c \in Conns, Answered(c)
    PROVE  Pipes!Open(c)
<1>1. /\ task[c] = "none" /\ reader[c] = "none" /\ shut[c] = "shut"
      /\ c \notin {attempt, current, previous} /\ attempt = None /\ current = None
      /\ attempt' = c /\ UNCHANGED <<current, previous, wire>>
      /\ task' = [task EXCEPT ![c] = "answered"]
      /\ shut' = [shut EXCEPT ![c] = "open"]
      /\ status' = [status EXCEPT ![c] = "up"]
      /\ TunnelTypeOK /\ TaskOf(c) /\ WireOf(c)
  BY DEF Answered, Unused, TunnelInv, TaskInv, WireInv
<1>2. \A d \in Pipes!Directions : wire[<<c, d>>] = <<>> /\ <<c, d>> \in Ended
  <2>1. wire[Up(c)] = <<>> /\ wire[Down(c)] = <<>>
    BY <1>1 DEF TaskOf
  <2>2. Up(c) \in Ended /\ Down(c) \in Ended
    BY <1>1, EndedEnds
  <2> QED
    BY <2>1, <2>2 DEF Pipes!Directions, Up, Down
<1>3. Ages[c] = 2 /\ Ages' = [Ages EXCEPT ![c] = 0]
  BY <1>1 DEF Ages, Age
<1>4. Ended' = Ended \ ({c} \X Pipes!Directions)
  <2>1. \A d \in Conns : /\ d # c => status'[d] = status[d] /\ shut'[d] = shut[d] /\ task'[d] = task[d]
                         /\ d = c => status'[d] = "up" /\ shut'[d] = "open" /\ task'[d] = "answered"
    BY <1>1 DEF TunnelTypeOK
  <2>2. Ended \ ({c} \X Pipes!Directions) \in SUBSET Ends
    BY EndedEnds
  <2>3. \A d \in Conns :
            /\ Up(d) \in {c} \X Pipes!Directions <=> d = c
            /\ Down(d) \in {c} \X Pipes!Directions <=> d = c
    <3>1. {c} \in SUBSET Conns
      OBVIOUS
    <3> QED
      BY <3>1, PipesOf
  <2>4. \A d \in Conns :
            /\ Up(d) \in Ended' <=> Up(d) \in Ended \ ({c} \X Pipes!Directions)
            /\ Down(d) \in Ended' <=> Down(d) \in Ended \ ({c} \X Pipes!Directions)
    BY <2>1, <2>3, EndedEnds
  <2>5. Ended' \in SUBSET Ends
    BY EndedEnds
  <2> QED
    BY <2>2, <2>4, <2>5, SameEnds
<1>5. Broken' = Broken \ {c}
  BY <1>1 DEF Broken, TunnelTypeOK
<1> QED
  BY <1>1, <1>2, <1>3, <1>4, <1>5 DEF Pipes!Open

\* What becomes of the pipes of connections that are lost.
LEMMA MapsEmptied ==
    ASSUME TunnelTypeOK, NEW cs \in SUBSET Conns,
           wire' \in [Ends -> Seq(Packets)],
           \A d \in Conns :
               IF d \in cs
               THEN wire'[Up(d)] = <<>> /\ wire'[Down(d)] = <<>> /\ status'[d] # "up"
               ELSE /\ wire'[Up(d)] = wire[Up(d)] /\ wire'[Down(d)] = wire[Down(d)]
                    /\ status'[d] = status[d]
                    /\ status[d] = "up" => shut'[d] = shut[d] /\ task'[d] = task[d]
    PROVE  Pipes!Emptied(cs)
<1>1. wire' = [e \in Pipes!Ends |-> IF e[1] \in cs THEN <<>> ELSE wire[e]]
  <2>1. \A e \in Ends : wire'[e] = IF e[1] \in cs THEN <<>> ELSE wire[e]
    BY EndsOfConns
  <2> QED
    BY <2>1, PipesEnds
<1>2. Ended' = Ended \cup (cs \X Pipes!Directions)
  <2>1. \A c \in Conns :
            /\ Up(c) \in Ended' <=> Up(c) \in Ended \/ c \in cs
            /\ Down(c) \in Ended' <=> Down(c) \in Ended \/ c \in cs
    BY EndedEnds
  <2> DEFINE D == cs \X Pipes!Directions
  <2>2. /\ Ended' \in SUBSET Ends /\ Ended \in SUBSET Ends /\ D \in SUBSET Ends
        /\ \A c \in Conns : /\ Up(c) \in Ended' <=> Up(c) \in Ended \/ Up(c) \in D
                            /\ Down(c) \in Ended' <=> Down(c) \in Ended \/ Down(c) \in D
    BY <2>1, EndedEnds, PipesOf
  <2> HIDE DEF D
  <2>3. Ended' = Ended \cup D
    BY <2>2, SameUnion
  <2> QED
    BY <2>3 DEF D
<1> QED
  BY <1>1, <1>2 DEF Pipes!Emptied

LEMMA MapsBreak ==
    ASSUME TunnelInv, NEW c \in Conns, Breaks(c)
    PROVE  Pipes!Break(c)
<1>1. /\ TunnelTypeOK /\ {c} \in SUBSET Conns /\ Lose({c}, "broken")
      /\ UNCHANGED <<attempt, current, previous, shut, task>>
  BY DEF TunnelInv, Breaks, clientVars, handlerVars, serverVars
<1>2. Pipes!Emptied({c})
  BY <1>1, Lost, MapsEmptied
<1>3. Broken' = Broken \cup {c}
  BY <1>1, Lost DEF Broken
<1>4. Ages' = Ages
  BY <1>1 DEF Ages, Age
<1> QED
  BY <1>2, <1>3, <1>4 DEF Pipes!Break

\* An attempt that is given up is a break: nothing has been sent over it.
LEMMA MapsAttempt ==
    ASSUME TunnelInv, AttemptFails \/ AttemptTimesOut
    PROVE  \E c \in Conns : Pipes!Break(c)
<1>1. /\ TunnelTypeOK /\ WireOf(attempt) /\ attempt \in Conns /\ {attempt} \in SUBSET Conns
      /\ attempt # previous /\ current = None
      /\ attempt' = None /\ UNCHANGED <<current, previous, task>>
      /\ shut' = [shut EXCEPT ![attempt] = "shut"]
  BY DEF TunnelInv, TunnelTypeOK, HandlerInv, WireInv, AttemptFails, AttemptTimesOut, serverVars
<1>2. Ages' = [Ages EXCEPT ![attempt] = 2]
  BY <1>1 DEF Ages, Age
<1>3. Pipes!Emptied({attempt}) /\ Broken' = Broken \cup {attempt}
  <2>1. CASE AttemptFails
    <3>1. status[attempt] = "broken" /\ UNCHANGED <<wire, status>>
      BY <2>1 DEF AttemptFails, wireVars
    <3>2. \A d \in Conns \ {attempt} : shut'[d] = shut[d]
      BY <1>1 DEF TunnelTypeOK
    <3>3. Pipes!Emptied({attempt})
      BY <1>1, <3>1, <3>2, MapsEmptied DEF WireOf, TunnelTypeOK
    <3> QED
      BY <1>1, <3>1, <3>3 DEF Broken
  <2>2. CASE AttemptTimesOut
    <3>1. Lose({attempt}, "broken")
      BY <2>2 DEF AttemptTimesOut
    <3>2. \A d \in Conns \ {attempt} : shut'[d] = shut[d]
      BY <1>1 DEF TunnelTypeOK
    <3>3. Pipes!Emptied({attempt})
      BY <1>1, <3>1, <3>2, Lost, MapsEmptied
    <3> QED
      BY <1>1, <3>1, <3>3, Lost DEF Broken
  <2> QED
    BY <2>1, <2>2
<1> QED
  BY <1>1, <1>2, <1>3 DEF Pipes!Break

LEMMA MapsGiveUp ==
    ASSUME TunnelInv, TtlExpires \/ ConnectionEnded
    PROVE  Pipes!GiveUp(current)
<1> DEFINE cut == IF previous # None /\ reader[previous] # "none" THEN {previous} ELSE {}
<1>1. /\ TunnelTypeOK /\ current \in Conns /\ previous \in Conns \cup {None}
      /\ attempt = None /\ current # previous
      /\ Killed(previous) /\ current' = None
      /\ UNCHANGED <<attempt, task>>
  BY DEF TunnelInv, TunnelTypeOK, HandlerInv, TtlExpires, ConnectionEnded, Waiting, serverVars
<1>2. Ages[current] = 0 /\ cut \in SUBSET {x \in Conns : Ages[x] = 1}
  BY <1>1 DEF Ages, Age
<1>3. \E a \in {1, 2} :
          /\ a = 2 => {current} \X Pipes!Directions \subseteq Ended
          /\ Ages' = [x \in Conns |-> IF x = current THEN a ELSE 2]
  <2>1. CASE TtlExpires
    <3>1. previous' = current
      BY <2>1 DEF TtlExpires
    <3>2. Ages' = [x \in Conns |-> IF x = current THEN 1 ELSE 2]
      BY <1>1, <3>1 DEF Ages, Age
    <3> QED
      BY <3>2
  <2>2. CASE ConnectionEnded
    <3>1. previous' = None /\ reader[current] = "none" /\ TaskOf(current)
      BY <1>1, <2>2 DEF ConnectionEnded, TunnelInv, TaskInv
    <3>2. Ages' = [x \in Conns |-> IF x = current THEN 2 ELSE 2]
      BY <1>1, <3>1 DEF Ages, Age
    <3>3. Up(current) \in Ended /\ Down(current) \in Ended
      BY <1>1, <3>1, EndedEnds DEF TaskOf
    <3>4. {current} \X Pipes!Directions \subseteq Ended
      BY <3>3 DEF Pipes!Directions, Up, Down
    <3> QED
      BY <3>2, <3>4
  <2> QED
    BY <2>1, <2>2
<1>4. /\ wire' \in [Ends -> Seq(Packets)]
      /\ \A d \in Conns :
             IF d \in cut
             THEN /\ wire'[Up(d)] = <<>> /\ wire'[Down(d)] = <<>> /\ status'[d] # "up"
                  /\ status'[d] = "broken" <=> status[d] = "broken"
             ELSE /\ wire'[Up(d)] = wire[Up(d)] /\ wire'[Down(d)] = wire[Down(d)]
                  /\ status'[d] = status[d] /\ shut'[d] = shut[d] /\ task'[d] = task[d]
  BY <1>1, Killing
<1>5. cut \in SUBSET Conns
  BY <1>1
<1> HIDE DEF cut
<1>6. Pipes!Emptied(cut)
  BY <1>1, <1>4, <1>5, MapsEmptied
<1>7. Broken' = Broken
  BY <1>4 DEF Broken
<1> QED
  BY <1>2, <1>3, <1>6, <1>7 DEF Pipes!GiveUp

\* What is read is delivered.
LEMMA MapsDeliver ==
    ASSUME TunnelInv, NEW c \in Conns, ClientReads(c) \/ ServerReads(c)
    PROVE  \E e \in Pipes!Ends : Pipes!Deliver(e)
<1>1. UNCHANGED <<attempt, current, previous, shut, task, status>>
  BY DEF ClientReads, ServerReads, clientVars, handlerVars, serverVars
<1>2. Ended' = Ended /\ Broken' = Broken /\ Ages' = Ages
  BY <1>1 DEF Ended, IsEnded, Broken, Ages, Age
<1>3. \E e \in Ends : wire[e] # <<>> /\ wire' = [wire EXCEPT ![e] = Tail(@)]
  BY EndsOfConns DEF ClientReads, ServerReads
<1> QED
  BY <1>2, <1>3, PipesEnds DEF Pipes!Deliver

\* What is written is put into a pipe that has not been ended.
LEMMA MapsPut ==
    ASSUME TunnelInv, ClientWrites \/ ServerWrites
    PROVE  \E e \in Pipes!Ends : Pipes!Put(e)
<1>1. UNCHANGED <<attempt, current, previous, shut, task, status>>
  BY DEF ClientWrites, ServerWrites, clientVars, handlerVars, serverVars
<1>2. Ended' = Ended /\ Broken' = Broken /\ Ages' = Ages
  BY <1>1 DEF Ended, IsEnded, Broken, Ages, Age
<1>3. \E e \in Ends : e \notin Ended /\ \E p \in Packets : wire' = [wire EXCEPT ![e] = Append(@, p)]
  <2>1. CASE ClientWrites
    <3>1. sending \in Conns /\ Up(sending) \notin Ended
      BY <2>1, EndedEnds DEF ClientWrites, TunnelInv, TunnelTypeOK
    <3> QED
      BY <2>1, <3>1, EndsOfConns DEF ClientWrites
  <2>2. CASE ServerWrites
    <3>1. serving \in Conns /\ Down(serving) \notin Ended
      BY <2>2, EndedEnds DEF ServerWrites, TunnelInv, TunnelTypeOK
    <3> QED
      BY <2>2, <3>1, EndsOfConns DEF ServerWrites
  <2> QED
    BY <2>1, <2>2
<1> QED
  BY <1>2, <1>3, PipesEnds DEF Pipes!Put

\* A shutdown ends a pipe, if the connection is not lost already.
LEMMA MapsEnd ==
    ASSUME TunnelInv, NEW c \in Conns, ClientShutsDown(c) \/ ServerShutsDown(c), status[c] = "up"
    PROVE  \E e \in Pipes!Ends : Pipes!End(e)
<1>1. TunnelTypeOK /\ UNCHANGED <<attempt, current, previous, wire, status>>
  BY DEF TunnelInv, ClientShutsDown, ServerShutsDown, clientVars, handlerVars
<1>2. Broken' = Broken /\ Ages' = Ages
  BY <1>1 DEF Broken, Ages, Age
<1>3. \E e \in Ends : e \notin Ended /\ Ended' = Ended \cup {e}
  <2>1. CASE ClientShutsDown(c)
    <3>1. /\ shut[c] = "shutting" /\ task' = task
          /\ \A d \in Conns : shut'[d] = IF d = c THEN "shut" ELSE shut[d]
      BY <1>1, <2>1 DEF ClientShutsDown, TunnelTypeOK, serverVars
    <3>2. Up(c) \in Ends /\ Up(c) \notin Ended /\ Ended \cup {Up(c)} \in SUBSET Ends
      BY <3>1, EndedEnds, EndsOfConns
    <3>3. Ended' = Ended \cup {Up(c)}
      BY <1>1, <3>1, <3>2, EndedEnds, EndsOfConns, SameEnds
    <3> QED
      BY <3>2, <3>3
  <2>2. CASE ServerShutsDown(c)
    <3>1. /\ task[c] = "closing" /\ shut' = shut
          /\ \A d \in Conns : task'[d] = IF d = c THEN "removing" ELSE task[d]
      BY <1>1, <2>2 DEF ServerShutsDown, TunnelTypeOK, clientVars
    <3>2. Down(c) \in Ends /\ Down(c) \notin Ended /\ Ended \cup {Down(c)} \in SUBSET Ends
      BY <3>1, EndedEnds, EndsOfConns
    <3>3. Ended' = Ended \cup {Down(c)}
      BY <1>1, <3>1, <3>2, EndedEnds, EndsOfConns, SameEnds
    <3> QED
      BY <3>2, <3>3
  <2> QED
    BY <2>1, <2>2
<1> QED
  BY <1>1, <1>2, <1>3, PipesEnds DEF Pipes!End

LEMMA MapsClientStutter ==
    ASSUME TunnelInv, NEW c \in Conns,
           \/ Connected \/ ClientFetches \/ ClientIsRefused
           \/ ClientReadsEnd(c) \/ ClientReadFails(c)
           \/ ClientShutsDown(c) /\ status[c] # "up"
    PROVE  UNCHANGED Pipes!pipeVars
<1>1. /\ TunnelTypeOK
      /\ UNCHANGED <<wire, status, previous, task>>
  BY DEF TunnelInv, Connected, ClientFetches, ClientIsRefused, ClientReadsEnd, ClientReadFails,
         ClientShutsDown, handlerVars, serverVars, wireVars
<1>2. {attempt', current'} = {attempt, current}
  BY DEF TunnelInv, HandlerInv, Connected, ClientFetches, ClientIsRefused, ClientReadsEnd,
         ClientReadFails, ClientShutsDown, handlerVars
<1>3. \A d \in Conns : status[d] = "up" => (shut'[d] = "shut" <=> shut[d] = "shut")
  BY DEF TunnelInv, TunnelTypeOK, HandlerInv, Connected, ClientFetches, ClientIsRefused,
         ClientReadsEnd, ClientReadFails, ClientShutsDown
<1> QED
  BY <1>1, <1>2, <1>3, Stutters

LEMMA MapsServerStutter ==
    ASSUME TunnelInv, NEW c \in Conns,
           \/ ServerSelects \/ ServerIsRefused
           \/ Registers(c) \/ ServerReadsEnd(c) \/ ServerReadFails(c) \/ Removes(c)
           \/ ServerShutsDown(c) /\ status[c] # "up"
    PROVE  UNCHANGED Pipes!pipeVars
<1>1. /\ TunnelTypeOK
      /\ UNCHANGED <<wire, status, attempt, current, previous, shut>>
  BY DEF TunnelInv, ServerSelects, ServerIsRefused, Registers, ServerReadsEnd, ServerReadFails,
         Removes, ServerShutsDown, clientVars, handlerVars, wireVars
<1>2. \A d \in Conns : status[d] = "up" =>
          (task'[d] \in {"none", "removing"} <=> task[d] \in {"none", "removing"})
  BY DEF TunnelInv, TunnelTypeOK, ServerSelects, ServerIsRefused, Registers, ServerReadsEnd,
         ServerReadFails, Removes, ServerShutsDown
<1> QED
  BY <1>1, <1>2, Stutters

\* Every step of the tunnel is a step of the pipes or none.
LEMMA MapsNext == TunnelInv /\ [TunnelNext]_tunnelVars => [Pipes!PipesNext]_Pipes!pipeVars
<1> SUFFICES ASSUME TunnelInv, [TunnelNext]_tunnelVars PROVE [Pipes!PipesNext]_Pipes!pipeVars
  OBVIOUS
<1> USE DEF Pipes!PipesNext
<1>1. CASE UNCHANGED tunnelVars
  <2>1. /\ TunnelTypeOK
        /\ UNCHANGED <<wire, status, attempt, current, previous, shut, task>>
    BY <1>1 DEF TunnelInv, tunnelVars, clientVars, handlerVars, serverVars, wireVars
  <2> QED
    BY <2>1, Stutters
<1>2. ASSUME NEW c \in Conns, Breaks(c) PROVE [Pipes!PipesNext]_Pipes!pipeVars
  BY <1>2, MapsBreak
<1>3. ASSUME NEW c \in Conns, Answered(c) PROVE [Pipes!PipesNext]_Pipes!pipeVars
  BY <1>3, MapsOpen
<1>4. CASE AttemptFails \/ AttemptTimesOut
  BY <1>4, MapsAttempt
<1>5. CASE TtlExpires \/ ConnectionEnded
  <2>1. current \in Conns
    BY <1>5 DEF TtlExpires, ConnectionEnded, Waiting, TunnelInv, TunnelTypeOK
  <2> QED
    BY <1>5, <2>1, MapsGiveUp
<1>6. CASE ClientWrites \/ ServerWrites
  BY <1>6, MapsPut
<1>7. CASE Connected \/ ClientFetches \/ ClientIsRefused
  <2>1. \E c \in Conns : TRUE
    BY <1>7 DEF Connected, ClientFetches, ClientIsRefused, TunnelInv, TunnelTypeOK
  <2> QED
    BY <1>7, <2>1, MapsClientStutter
<1>8. CASE ServerSelects \/ ServerIsRefused
  <2>1. \E c \in Conns : TRUE
    BY <1>8 DEF ServerSelects, ServerIsRefused, TunnelInv, TunnelTypeOK
  <2> QED
    BY <1>8, <2>1, MapsServerStutter
<1>9. ASSUME NEW c \in Conns, ClientReads(c) \/ ServerReads(c) PROVE [Pipes!PipesNext]_Pipes!pipeVars
  BY <1>9, MapsDeliver
<1>10. ASSUME NEW c \in Conns, ClientShutsDown(c) \/ ServerShutsDown(c)
       PROVE  [Pipes!PipesNext]_Pipes!pipeVars
  BY <1>10, MapsEnd, MapsClientStutter, MapsServerStutter
<1>11. ASSUME NEW c \in Conns, ClientReadsEnd(c) \/ ClientReadFails(c)
       PROVE  [Pipes!PipesNext]_Pipes!pipeVars
  BY <1>11, MapsClientStutter
<1>12. ASSUME NEW c \in Conns, Registers(c) \/ ServerReadsEnd(c) \/ ServerReadFails(c) \/ Removes(c)
       PROVE  [Pipes!PipesNext]_Pipes!pipeVars
  BY <1>12, MapsServerStutter
<1> QED
  BY <1>1, <1>2, <1>3, <1>4, <1>5, <1>6, <1>7, <1>8, <1>9, <1>10, <1>11, <1>12
  DEF TunnelNext, ClientStep, ServerStep

\* Client and server keep the safety part of what PacketPipes promises: packets
\* whose send() has succeeded come out of the other end once and in order, and
\* none is lost by a rotation of connections before its successor is given up.
THEOREM TunnelImplementsPipes == TunnelSpec => Pipes!PipesSafety
  BY TunnelInvariance, MapsInit, MapsNext, PTL DEF TunnelSpec, Pipes!PipesSafety

-----------------------------------------------------------------------------
(* The packets of a connection: the invariant of PacketReader *)

\* Where the message that is being read begins; the tail is what follows a
\* fake response.
Base == IF phase = "tail" THEN ends[delivered + 1] ELSE ends[delivered]
NextMessage == messages[delivered + 1]

\* A sequence that holds the bytes of the stream behind its first n.
Holds(s, n) == \A k \in 1..Len(s) : s[k] = ByteAt(n + k)

\* What has been read, and what is yet to be read, is the stream in its order.
DataInv ==
    /\ delivered \in 0..Len(messages)
    /\ \A j \in 1..delivered : IsPacket(messages[j])
    /\ Base + data_size + Len(preread_data) + Len(socket) + Len(coming) = length
    /\ \A k \in 1..data_size : buf[k] = ByteAt(Base + k)
    /\ Holds(preread_data, Base + data_size)
    /\ Holds(socket, Base + data_size + Len(preread_data))
    /\ Holds(coming, Base + data_size + Len(preread_data) + Len(socket))

\* What is known of the message that is being read.
PhaseInv ==
    /\ phase = "message" /\ packet_size = 0 => data_size <= HeaderSize
    /\ packet_size # 0 =>
           /\ phase = "message" /\ delivered < Len(messages) /\ IsPacket(NextMessage)
           /\ packet_size = NextMessage.size /\ data_size \in HeaderSize..packet_size
    /\ phase = "fake" =>
           /\ delivered < Len(messages) /\ IsFake(NextMessage)
           /\ data_size \in HeaderSize..NextMessage.size
    /\ phase = "tail" =>
           /\ delivered < Len(messages) /\ IsFake(NextMessage)
           /\ data_size <= 1

\* What read() has seen when it gives up.
Drained == preread_data = <<>> /\ socket = <<>> /\ data_size < Size

Invalid ==
    /\ delivered < Len(messages)
    /\ \/ phase = "message" /\ packet_size = 0 /\ data_size >= HeaderSize
             /\ ~IsPacket(NextMessage) /\ ~IsFake(NextMessage)
       \/ phase = "tail" /\ data_size >= 1

ResultInv ==
    /\ result \in {"closed", "torn", "broken"} =>
           /\ Drained /\ coming = <<>>
           /\ result = IF ending = "broken" THEN "broken"
                       ELSE IF data_size = 0 THEN "closed" ELSE "torn"
    /\ result = "write_failed" => Drained
    /\ result = "invalid" => Invalid

ReaderInv == TypeOK /\ DataInv /\ PhaseInv /\ ResultInv /\ ReturnsWhatWasSent

-----------------------------------------------------------------------------
(* The stream *)

LEMMA SizeTypes ==
    /\ HeaderSize \in Nat /\ MinSize \in Nat /\ Mtu \in Nat
    /\ 0 < HeaderSize /\ HeaderSize < MinSize /\ MinSize <= Mtu
BY SizesAssumption

Layout == IsStream([messages |-> messages, ends |-> ends])

LEMMA LayoutTypes ==
    ASSUME Layout
    PROVE  /\ Len(messages) \in Nat /\ DOMAIN messages = 1..Len(messages)
           /\ ends[0] = 0 /\ \A i \in 0..Len(messages) : ends[i] \in Nat
           /\ \A i \in 1..Len(messages) :
                  /\ messages[i] \in Message /\ messages[i].size \in Nat
                  /\ messages[i].size >= HeaderSize
                  /\ messages[i].kind = "fake" => messages[i].size > HeaderSize
                  /\ ends[i - 1] \in Nat /\ ends[i] = ends[i - 1] + messages[i].size
<1>1. /\ messages \in Seq(Messages) /\ ends \in [0..Len(messages) -> Nat] /\ ends[0] = 0
      /\ \A i \in 1..Len(messages) : ends[i] = ends[i - 1] + messages[i].size
  BY DEF Layout, IsStream
<1>2. Len(messages) \in Nat /\ DOMAIN messages = 1..Len(messages)
      /\ \A i \in 1..Len(messages) : messages[i] \in Messages
  BY <1>1
<1>3. \A i \in 1..Len(messages) :
          /\ messages[i] \in Message /\ messages[i].size \in Nat
          /\ messages[i].size >= HeaderSize
          /\ messages[i].kind = "fake" => messages[i].size > HeaderSize
  BY <1>2, MessagesAssumption DEF Message
<1>4. \A i \in 1..Len(messages) : i - 1 \in 0..Len(messages)
  BY <1>2
<1> QED
  BY <1>1, <1>2, <1>3, <1>4

LEMMA LeastOf ==
    ASSUME NEW S \in SUBSET Nat, S # {}
    PROVE  \E x \in S : \A y \in S : x <= y
<1>1. PICK x \in S : \A y \in S : <<y, x>> \notin OpToRel(<, Nat)
  BY NatLessThanWellFounded, WFMin
<1>2. ASSUME NEW y \in S
      PROVE  x <= y
  <2>1. y < x => <<y, x>> \in OpToRel(<, Nat)
    BY DEF OpToRel
  <2>2. ~(y < x)
    BY <1>1, <2>1, Zenon
  <2> QED
    BY <2>2
<1> QED
  BY <1>2

\* A later message ends later.
LEMMA EndsGrow ==
    ASSUME Layout, NEW i \in 0..Len(messages), NEW j \in 0..Len(messages), i < j
    PROVE  ends[i] < ends[j]
<1> DEFINE S == {n \in 0..Len(messages) : i < n /\ ~(ends[i] < ends[n])}
<1>1. SUFFICES ASSUME S # {} PROVE FALSE
  OBVIOUS
<1>2. PICK n \in S : \A m \in S : n <= m
  <2>1. S \in SUBSET Nat
    OBVIOUS
  <2> QED
    BY <1>1, <2>1, LeastOf
<1>3. n \in 1..Len(messages) /\ n - 1 \in 0..Len(messages) /\ n - 1 \notin S
  <2>1. Len(messages) \in Nat
    BY LayoutTypes
  <2>2. n \in 0..Len(messages) /\ i < n
    BY <1>2
  <2>3. n \in 1..Len(messages) /\ n - 1 \in 0..Len(messages) /\ ~(n <= n - 1)
    BY <2>1, <2>2
  <2> HIDE DEF S
  <2> QED
    BY <1>2, <2>3, Zenon
<1>4. /\ ends[n] = ends[n - 1] + messages[n].size /\ messages[n].size \in Nat
      /\ messages[n].size > 0 /\ ends[i] \in Nat /\ ends[n - 1] \in Nat
  <2>1. messages[n].size >= HeaderSize /\ messages[n].size \in Nat
    BY <1>3, LayoutTypes
  <2>2. messages[n].size > 0
    BY <2>1, SizeTypes
  <2> QED
    BY <1>3, <2>1, <2>2, LayoutTypes
<1>5. CASE i = n - 1
  BY <1>2, <1>4, <1>5
<1>6. CASE i # n - 1
  <2>1. ends[i] < ends[n - 1]
    BY <1>2, <1>3, <1>6
  <2> QED
    BY <1>2, <1>4, <2>1
<1> QED
  BY <1>5, <1>6

\* Where a byte of a message is in the stream.
LEMMA ByteIs ==
    ASSUME Layout, NEW i \in 1..Len(messages), NEW j \in 1..messages[i].size
    PROVE  ByteAt(ends[i - 1] + j) = [of |-> i, at |-> j]
<1> DEFINE k == ends[i - 1] + j
           in(n) == k \in ends[n - 1] + 1 .. ends[n]
<1>1. /\ ends[i - 1] \in Nat /\ ends[i] = ends[i - 1] + messages[i].size
      /\ messages[i].size \in Nat /\ i \in DOMAIN messages
  BY LayoutTypes
<1>2. in(i) /\ k \in Nat
  BY <1>1
<1>3. ASSUME NEW n \in DOMAIN messages, in(n)
      PROVE  n = i
  <2>1. n \in 1..Len(messages) /\ Len(messages) \in Nat
    BY LayoutTypes
  <2>2. /\ n - 1 \in 0..Len(messages) /\ i - 1 \in 0..Len(messages)
        /\ n \in 0..Len(messages) /\ i \in 0..Len(messages)
    BY <2>1
  <2>3. ends[n - 1] \in Nat /\ ends[n] \in Nat /\ ends[i] \in Nat /\ ends[i - 1] \in Nat
    BY <2>2, LayoutTypes
  <2>4. CASE i < n
    <3>1. i = n - 1 \/ i < n - 1
      BY <2>1, <2>4
    <3>2. ends[i] <= ends[n - 1]
      BY <2>2, <2>3, <3>1, EndsGrow
    <3> QED
      BY <1>2, <1>3, <2>3, <3>2
  <2>5. CASE n < i
    <3>1. n = i - 1 \/ n < i - 1
      BY <2>1, <2>5
    <3>2. ends[n] <= ends[i - 1]
      BY <2>2, <2>3, <3>1, EndsGrow
    <3> QED
      BY <1>2, <1>3, <2>3, <3>2
  <2> QED
    BY <2>1, <2>4, <2>5
<1>4. (CHOOSE n \in DOMAIN messages : in(n)) = i
  BY <1>1, <1>2, <1>3
<1>5. k - ends[i - 1] = j
  BY <1>1
<1> QED
  BY <1>4, <1>5 DEF ByteAt

\* Each byte belongs to a message.
LEMMA ByteType ==
    ASSUME Layout, NEW k \in 1..ends[Len(messages)]
    PROVE  ByteAt(k) \in Byte
<1> DEFINE S == {n \in 0..Len(messages) : k <= ends[n]}
<1>1. ends[Len(messages)] \in Nat /\ Len(messages) \in S /\ S \in SUBSET Nat
  BY LayoutTypes
<1>2. PICK n \in S : \A m \in S : n <= m
  BY <1>1, LeastOf
<1>3. n \in 1..Len(messages) /\ n - 1 \notin S /\ n - 1 \in 0..Len(messages)
  <2>1. n # 0
    BY <1>2, LayoutTypes
  <2> QED
    BY <1>2, <2>1, LayoutTypes
<1> DEFINE j == k - ends[n - 1]
<1>4. j \in 1..messages[n].size /\ k = ends[n - 1] + j
  BY <1>2, <1>3, LayoutTypes
<1> HIDE DEF j
<1>5. ByteAt(k) = [of |-> n, at |-> j]
  BY <1>3, <1>4, ByteIs
<1>6. j \in Nat /\ n \in Nat \ {0}
  BY <1>3, <1>4, LayoutTypes
<1> QED
  BY <1>5, <1>6 DEF Byte

LEMMA SameBytes ==
    ASSUME UNCHANGED <<messages, ends>>
    PROVE  \A k : ByteAt(k)' = ByteAt(k)
BY DEF ByteAt

LEMMA FirstTypes ==
    ASSUME NEW S, NEW s \in Seq(S), NEW n \in 0..Len(s)
    PROVE  /\ SubSeq(s, 1, n) \in Seq(S) /\ Len(SubSeq(s, 1, n)) = n
           /\ \A k \in 1..n : SubSeq(s, 1, n)[k] = s[k]
OBVIOUS

LEMMA RestTypes ==
    ASSUME NEW S, NEW s \in Seq(S), NEW n \in 0..Len(s)
    PROVE  /\ SubSeq(s, n + 1, Len(s)) \in Seq(S)
           /\ Len(SubSeq(s, n + 1, Len(s))) = Len(s) - n
           /\ \A k \in 1..(Len(s) - n) : SubSeq(s, n + 1, Len(s))[k] = s[n + k]
OBVIOUS

LEMMA FirstHolds ==
    ASSUME NEW S, NEW s \in Seq(S), NEW n \in 0..Len(s), NEW from \in Nat, Holds(s, from)
    PROVE  Holds(SubSeq(s, 1, n), from)
<1> DEFINE t == SubSeq(s, 1, n)
<1>1. Len(t) = n /\ \A k \in 1..n : t[k] = s[k] /\ k \in 1..Len(s)
  BY FirstTypes
<1> HIDE DEF t
<1> QED
  BY <1>1 DEF Holds, t

LEMMA RestHolds ==
    ASSUME NEW S, NEW s \in Seq(S), NEW n \in 0..Len(s), NEW from \in Nat, Holds(s, from)
    PROVE  Holds(SubSeq(s, n + 1, Len(s)), from + n)
<1> DEFINE t == SubSeq(s, n + 1, Len(s))
<1>1. Len(t) = Len(s) - n /\ \A k \in 1..(Len(s) - n) : t[k] = s[n + k]
  BY RestTypes
<1> HIDE DEF t
<1>2. ASSUME NEW k \in 1..Len(t)
      PROVE  t[k] = ByteAt((from + n) + k)
  <2>1. n + k \in 1..Len(s) /\ from + (n + k) = (from + n) + k /\ k \in 1..(Len(s) - n)
    BY <1>1
  <2>2. s[n + k] = ByteAt(from + (n + k))
    BY <2>1 DEF Holds
  <2> QED
    BY <1>1, <2>1, <2>2
<1> QED
  BY <1>2 DEF Holds, t

LEMMA HeaderIs ==
    ASSUME ReaderInv, phase # "tail", data_size >= HeaderSize
    PROVE  /\ delivered < Len(messages) /\ delivered + 1 \in 1..Len(messages)
           /\ Header = NextMessage
<1>1. Layout
  BY DEF ReaderInv, TypeOK, Layout
<1>2. /\ data_size \in Nat /\ data_size > 0 /\ length \in Nat /\ length <= ends[Len(messages)]
      /\ Len(preread_data) \in Nat /\ Len(socket) \in Nat /\ Len(coming) \in Nat
      /\ ends[Len(messages)] \in Nat /\ Len(messages) \in Nat
  <2>1. ends[Len(messages)] \in Nat /\ Len(messages) \in Nat
    BY <1>1, LayoutTypes
  <2> QED
    BY <2>1, SizeTypes DEF ReaderInv, TypeOK
<1>3. /\ delivered \in 0..Len(messages) /\ buf[1] = ByteAt(ends[delivered] + 1)
      /\ ends[delivered] + data_size + Len(preread_data) + Len(socket) + Len(coming) = length
  BY <1>2 DEF ReaderInv, DataInv, Base
<1>4. ends[delivered] \in Nat
  BY <1>1, <1>3, LayoutTypes
<1>5. delivered < Len(messages)
  <2>1. ends[delivered] # ends[Len(messages)]
    BY <1>2, <1>3, <1>4
  <2> QED
    BY <1>2, <1>3, <2>1
<1>6. delivered + 1 \in 1..Len(messages) /\ (delivered + 1) - 1 = delivered
  BY <1>2, <1>3, <1>5
<1>7. 1 \in 1..messages[delivered + 1].size
  <2>1. /\ messages[delivered + 1].size \in Nat
        /\ messages[delivered + 1].size >= HeaderSize
    BY <1>1, <1>6, LayoutTypes
  <2> QED
    BY <2>1, SizeTypes
<1>8. buf[1] = [of |-> delivered + 1, at |-> 1]
  BY <1>1, <1>3, <1>6, <1>7, ByteIs
<1> QED
  BY <1>5, <1>6, <1>8 DEF Header, NextMessage

\* How much read_data() is asked for.
LEMMA SizeIs ==
    ASSUME ReaderInv
    PROVE  /\ Size \in 1..Mtu
           /\ phase = "message" => Size = IF packet_size = 0 THEN HeaderSize ELSE packet_size
           /\ phase = "fake" => Size = NextMessage.size /\ Header = NextMessage
           /\ phase = "tail" => Size = 1
<1>1. /\ packet_size \in 0..Mtu /\ phase \in {"message", "fake", "tail"}
      /\ data_size \in 0..Mtu
  BY DEF ReaderInv, TypeOK
<1>2. CASE phase = "message"
  BY <1>1, <1>2, SizeTypes DEF Size
<1>3. CASE phase = "fake"
  <2>1. /\ data_size >= HeaderSize /\ IsFake(NextMessage) /\ data_size <= NextMessage.size
    BY <1>1, <1>3, SizeTypes DEF ReaderInv, PhaseInv
  <2>2. Header = NextMessage /\ delivered + 1 \in 1..Len(messages)
    BY <1>3, <2>1, HeaderIs
  <2>3. NextMessage.size \in Nat
    BY <2>2, LayoutTypes DEF ReaderInv, TypeOK, Layout, NextMessage
  <2> QED
    BY <1>1, <1>3, <2>1, <2>2, <2>3, SizeTypes DEF Size, IsFake
<1>4. CASE phase = "tail"
  BY <1>4, SizeTypes DEF Size
<1> QED
  BY <1>1, <1>2, <1>3, <1>4

\* The beginning of the stream, up to where it is cut.
LEMMA StreamTypes ==
    ASSUME Layout, NEW n \in 0..ends[Len(messages)], NEW known \in 0..n
    PROVE  LET s == SubSeq(Stream, 1, known)
               t == SubSeq(Stream, known + 1, n)
           IN  /\ s \in Seq(Byte) /\ Len(s) = known /\ Holds(s, 0)
               /\ t \in Seq(Byte) /\ Len(t) = n - known /\ Holds(t, known)
<1> DEFINE e == ends[Len(messages)]
           s == SubSeq(Stream, 1, known)
           t == SubSeq(Stream, known + 1, n)
<1>1. e \in Nat /\ n \in 0..e
  BY LayoutTypes
<1>2. Stream = [k \in 1..e |-> ByteAt(k)]
  BY DEF Stream
<1>3. \A k \in 1..e : ByteAt(k) \in Byte
  BY ByteType
<1> HIDE DEF e
<1>4. /\ Stream \in Seq(Byte) /\ Len(Stream) = e
      /\ \A k \in 1..e : Stream[k] = ByteAt(k)
  <2>1. Stream \in [1..e -> Byte]
    BY <1>2, <1>3
  <2>2. Stream \in Seq(Byte) /\ DOMAIN Stream = 1..e
    BY <1>1, <2>1
  <2>3. Len(Stream) = e
    BY <1>1, <2>2
  <2> QED
    BY <1>2, <2>2, <2>3
<1>5. /\ s \in Seq(Byte) /\ Len(s) = known
      /\ \A k \in 1..known : s[k] = Stream[k] /\ k \in 1..e /\ 0 + k = k
  BY <1>1, <1>4
<1>6. /\ t \in Seq(Byte) /\ Len(t) = n - known
      /\ \A k \in 1..(n - known) : t[k] = Stream[known + k] /\ known + k \in 1..e
  BY <1>1, <1>4
<1> HIDE DEF s, t
<1>7. Holds(s, 0)
  BY <1>4, <1>5 DEF Holds
<1>8. Holds(t, known)
  BY <1>4, <1>6 DEF Holds
<1> QED
  BY <1>5, <1>6, <1>7, <1>8 DEF s, t

LEMMA ReaderInit == Init => ReaderInv
<1> SUFFICES ASSUME Init PROVE ReaderInv
  OBVIOUS
<1>1. Layout
  <2>1. PICK s \in Streams : messages = s.messages /\ ends = s.ends
    BY DEF Init
  <2> QED
    BY <2>1, StreamsAssumption DEF Layout, IsStream
<1>2. ends[0] = 0 /\ ends[Len(messages)] \in Nat /\ Len(messages) \in Nat
  BY <1>1, LayoutTypes
<1>3. length \in 0..ends[Len(messages)] /\ length \in Nat
  BY <1>2 DEF Init
<1>4. PICK known \in 0..length :
          /\ preread_data = SubSeq(Stream, 1, known)
          /\ coming = SubSeq(Stream, known + 1, length)
  BY DEF Init
<1>5. /\ preread_data \in Seq(Byte) /\ Len(preread_data) = known /\ Holds(preread_data, 0)
      /\ coming \in Seq(Byte) /\ Len(coming) = length - known /\ Holds(coming, known)
  BY <1>1, <1>3, <1>4, StreamTypes
<1>6. /\ socket = <<>> /\ socket \in Seq(Byte) /\ Len(socket) = 0 /\ data_size = 0
      /\ packet_size = 0 /\ phase = "message" /\ delivered = 0 /\ packet = <<>>
      /\ packet \in Seq(Byte) /\ result = "ready" /\ error = FALSE
      /\ ending \in {"eof", "broken", "open"}
  BY DEF Init
<1>7. buf \in Seq(Byte \cup {Junk}) /\ Len(buf) = Mtu
  <2>1. buf = [i \in 1..Mtu |-> Junk]
    BY DEF Init
  <2>2. buf \in [1..Mtu -> Byte \cup {Junk}] /\ Mtu \in Nat
    BY <2>1, SizeTypes
  <2> QED
    BY <2>2
<1>8. TypeOK
  <2>1. 0 \in 0..Mtu
    BY SizeTypes
  <2> QED
    BY <1>1, <1>3, <1>5, <1>6, <1>7, <2>1 DEF TypeOK, Layout
<1>9. DataInv
  <2>1. Base = 0
    BY <1>2, <1>6 DEF Base
  <2>2. Holds(socket, 0 + 0 + known)
    BY <1>6 DEF Holds
  <2>3. /\ 0 + 0 = 0 /\ 0 + 0 + known = known /\ 0 + 0 + known + 0 = known
        /\ 0 + 0 + known + 0 + (length - known) = length
    BY <1>3
  <2> QED
    BY <1>2, <1>5, <1>6, <2>1, <2>2, <2>3 DEF DataInv
<1>10. PhaseInv /\ ResultInv /\ ReturnsWhatWasSent
  BY <1>6, SizeTypes DEF PhaseInv, ResultInv, ReturnsWhatWasSent
<1> QED
  BY <1>8, <1>9, <1>10 DEF ReaderInv

-----------------------------------------------------------------------------
(* Each step keeps the invariant *)

LEMMA HoldsOn ==
    ASSUME UNCHANGED <<messages, ends>>
    PROVE  \A s, n : Holds(s, n) => Holds(s, n)'
BY SameBytes DEF Holds

Joins(s, t, j) ==
    /\ Len(j) = Len(s) + Len(t)
    /\ \A k \in 1..Len(s) : j[k] = s[k]
    /\ \A k \in 1..Len(t) : j[Len(s) + k] = t[k]

LEMMA JoinTypes ==
    ASSUME NEW S, NEW s \in Seq(S), NEW t \in Seq(S)
    PROVE  s \o t \in Seq(S) /\ Joins(s, t, s \o t)
BY DEF Joins

\* A sequence with the part of it behind the first n written anew.
Filled(b, d, n) == SubSeq(b, 1, n) \o d \o SubSeq(b, n + Len(d) + 1, Len(b))

LEMMA FilledTypes ==
    ASSUME NEW S, NEW b \in Seq(S), NEW d \in Seq(S), NEW n \in Nat, n + Len(d) <= Len(b)
    PROVE  /\ Filled(b, d, n) \in Seq(S) /\ Len(Filled(b, d, n)) = Len(b)
           /\ \A k \in 1..n : Filled(b, d, n)[k] = b[k]
           /\ \A k \in 1..Len(d) : Filled(b, d, n)[n + k] = d[k]
<1> DEFINE p == SubSeq(b, 1, n)
           q == SubSeq(b, n + Len(d) + 1, Len(b))
<1>1. Len(b) \in Nat /\ Len(d) \in Nat /\ n \in 0..Len(b) /\ n + Len(d) \in 0..Len(b)
  OBVIOUS
<1>2. p \in Seq(S) /\ Len(p) = n /\ \A k \in 1..n : p[k] = b[k]
  BY <1>1, FirstTypes
<1>3. q \in Seq(S) /\ Len(q) = Len(b) - (n + Len(d))
  BY <1>1, RestTypes
<1> HIDE DEF p, q
<1> DEFINE e == p \o d
<1>4. /\ e \in Seq(S) /\ Len(e) = n + Len(d)
      /\ \A k \in 1..n : e[k] = p[k]
      /\ \A k \in 1..Len(d) : e[n + k] = d[k]
  <2>1. p \in Seq(S)
    BY <1>2
  <2>2. e \in Seq(S) /\ Joins(p, d, e)
    BY <2>1, JoinTypes, Zenon
  <2> HIDE DEF e
  <2> QED
    BY <1>2, <2>2 DEF Joins
<1> HIDE DEF e
<1>5. e \o q \in Seq(S) /\ Len(e \o q) = Len(b) /\ \A k \in 1..Len(e) : (e \o q)[k] = e[k]
  <2>1. e \in Seq(S) /\ q \in Seq(S)
    BY <1>3, <1>4
  <2> DEFINE j == e \o q
  <2>2. j \in Seq(S) /\ Joins(e, q, j)
    BY <2>1, JoinTypes, Zenon
  <2> HIDE DEF j
  <2>3. j \in Seq(S) /\ Len(j) = Len(b) /\ \A k \in 1..Len(e) : j[k] = e[k]
    BY <1>1, <1>3, <1>4, <2>2 DEF Joins
  <2> QED
    BY <2>3 DEF j
<1>6. \A k \in 1..n : k \in 1..Len(e)
  BY <1>1, <1>4
<1>7. \A k \in 1..Len(d) : n + k \in 1..Len(e)
  BY <1>1, <1>4
<1>8. /\ \A k \in 1..n : (e \o q)[k] = b[k]
      /\ \A k \in 1..Len(d) : (e \o q)[n + k] = d[k]
  BY <1>2, <1>4, <1>5, <1>6, <1>7
<1> QED
  BY <1>5, <1>8 DEF e, p, q, Filled

\* read_data() has read some more of the stream, and never more than it needs.
LEMMA FillIs ==
    ASSUME ReaderInv, Reading, NEW data \in Seq(Byte), Len(data) \in 1..Missing,
           Holds(data, Base + data_size), Fill(data),
           UNCHANGED <<messages, ends, phase, delivered, packet_size>>
    PROVE  /\ buf' \in Seq(Byte \cup {Junk}) /\ Len(buf') = Mtu
           /\ data_size' = data_size + Len(data) /\ data_size' \in 0..Mtu
           /\ \A k \in 1..data_size' : buf'[k] = ByteAt(Base + k)'
           /\ PhaseInv'
<1> DEFINE n == Len(data)
<1>1. /\ data_size \in Nat /\ n \in Nat /\ n > 0 /\ data_size + n <= Size
      /\ Size \in 1..Mtu /\ Mtu \in Nat
  BY SizeIs, SizeTypes DEF ReaderInv, TypeOK, Missing
<1>2. /\ buf' = Filled(buf, data, data_size)
      /\ data_size' = data_size + n
      /\ buf \in Seq(Byte \cup {Junk}) /\ Len(buf) = Mtu /\ data \in Seq(Byte \cup {Junk})
      /\ data_size + n <= Mtu
  BY <1>1 DEF Fill, Filled, ReaderInv, TypeOK
<1>3. /\ buf' \in Seq(Byte \cup {Junk}) /\ Len(buf') = Mtu
      /\ \A k \in 1..data_size : buf'[k] = buf[k]
      /\ \A k \in 1..n : buf'[data_size + k] = data[k]
  <2> HIDE DEF n
  <2>1. /\ data_size + Len(data) <= Len(buf) /\ data_size \in Nat
        /\ buf \in Seq(Byte \cup {Junk}) /\ data \in Seq(Byte \cup {Junk})
    BY <1>1, <1>2 DEF n
  <2>2. /\ Filled(buf, data, data_size) \in Seq(Byte \cup {Junk})
        /\ Len(Filled(buf, data, data_size)) = Len(buf)
        /\ \A k \in 1..data_size : Filled(buf, data, data_size)[k] = buf[k]
        /\ \A k \in 1..Len(data) : Filled(buf, data, data_size)[data_size + k] = data[k]
    BY <2>1, FilledTypes
  <2> QED
    BY <1>2, <2>2 DEF n
<1>4. Base \in Nat /\ Base' = Base
  <2>1. Len(messages) \in Nat /\ \A i \in 0..Len(messages) : ends[i] \in Nat
    BY LayoutTypes DEF ReaderInv, TypeOK, Layout
  <2>2. delivered \in 0..Len(messages) /\ (phase = "tail" => delivered < Len(messages))
    BY DEF ReaderInv, DataInv, PhaseInv
  <2>3. phase = "tail" => delivered + 1 \in 0..Len(messages)
    BY <2>1, <2>2
  <2> QED
    BY <2>1, <2>2, <2>3 DEF Base
<1>5. ASSUME NEW k \in 1..(data_size + n)
      PROVE  buf'[k] = ByteAt(Base + k)
  <2>1. CASE k \in 1..data_size
    BY <1>3, <2>1 DEF ReaderInv, DataInv
  <2>2. CASE k \notin 1..data_size
    <3> DEFINE j == k - data_size
    <3>1. j \in 1..n /\ data_size + j = k /\ (Base + data_size) + j = Base + k
      BY <1>1, <1>4, <2>2
    <3> HIDE DEF j
    <3>2. data[j] = ByteAt((Base + data_size) + j)
      BY <3>1 DEF Holds
    <3> QED
      BY <1>3, <3>1, <3>2
  <2> QED
    BY <2>1, <2>2
<1>6. \A k \in 1..data_size' : buf'[k] = ByteAt(Base + k)'
  BY <1>2, <1>4, <1>5, SameBytes
<1>7. PhaseInv'
  <2>1. data_size' <= Size /\ data_size' >= data_size /\ data_size' \in Nat
    BY <1>1, <1>2
  <2>2. NextMessage' = NextMessage
    BY DEF NextMessage
  <2>3. phase = "message" => Size = IF packet_size = 0 THEN HeaderSize ELSE packet_size
    BY SizeIs
  <2>4. phase = "message" /\ packet_size = 0 => data_size' <= HeaderSize
    BY <2>1, <2>3
  <2>5. packet_size # 0 =>
            /\ phase = "message" /\ delivered < Len(messages) /\ IsPacket(NextMessage)
            /\ packet_size = NextMessage.size /\ data_size' \in HeaderSize..packet_size
    BY <1>1, <2>1, <2>3, SizeTypes DEF ReaderInv, TypeOK, PhaseInv
  <2>6. phase = "fake" =>
            /\ delivered < Len(messages) /\ IsFake(NextMessage)
            /\ data_size' \in HeaderSize..NextMessage.size
    <3> SUFFICES ASSUME phase = "fake"
                 PROVE  /\ delivered < Len(messages) /\ IsFake(NextMessage)
                        /\ data_size' \in HeaderSize..NextMessage.size
      OBVIOUS
    <3>1. /\ delivered < Len(messages) /\ IsFake(NextMessage)
          /\ data_size \in HeaderSize..NextMessage.size
      BY DEF ReaderInv, PhaseInv
    <3>2. Size = NextMessage.size
      BY SizeIs
    <3> QED
      BY <1>1, <2>1, <3>1, <3>2, SizeTypes
  <2>7. phase = "tail" =>
            /\ delivered < Len(messages) /\ IsFake(NextMessage) /\ data_size' <= 1
    BY <2>1, SizeIs DEF ReaderInv, PhaseInv
  <2> QED
    BY <2>2, <2>4, <2>5, <2>6, <2>7 DEF PhaseInv, IsPacket, IsFake
<1>8. data_size' = data_size + Len(data) /\ data_size' \in 0..Mtu
  BY <1>1, <1>2
<1> QED
  BY <1>3, <1>6, <1>7, <1>8, Zenon

LEMMA MinIs ==
    ASSUME NEW a \in Nat, NEW b \in Nat
    PROVE  Min({a, b}) \in Nat /\ Min({a, b}) = IF a <= b THEN a ELSE b
<1>1. CASE a <= b
  <2>1. a \in {a, b} /\ \A y \in {a, b} : a <= y
    BY <1>1
  <2>2. \A x \in {a, b} : (\A y \in {a, b} : x <= y) => x = a
    BY <1>1
  <2> QED
    BY <1>1, <2>1, <2>2 DEF Min
<1>2. CASE ~(a <= b)
  <2>1. b \in {a, b} /\ \A y \in {a, b} : b <= y
    BY <1>2
  <2>2. \A x \in {a, b} : (\A y \in {a, b} : x <= y) => x = b
    BY <1>2
  <2> QED
    BY <1>2, <2>1, <2>2 DEF Min
<1> QED
  BY <1>1, <1>2

\* Where the reader is in the stream.
LEMMA PlaceTypes ==
    ASSUME ReaderInv
    PROVE  /\ Layout /\ Base \in Nat /\ data_size \in Nat /\ length \in Nat
           /\ delivered \in 0..Len(messages) /\ ends[Len(messages)] \in Nat
           /\ preread_data \in Seq(Byte) /\ socket \in Seq(Byte) /\ coming \in Seq(Byte)
           /\ Len(preread_data) \in Nat /\ Len(socket) \in Nat /\ Len(coming) \in Nat
           /\ Base + data_size + Len(preread_data) + Len(socket) + Len(coming) = length
<1>1. Layout
  BY DEF ReaderInv, TypeOK, Layout
<1>2. Len(messages) \in Nat /\ \A i \in 0..Len(messages) : ends[i] \in Nat
  BY <1>1, LayoutTypes
<1>3. delivered \in 0..Len(messages) /\ (phase = "tail" => delivered < Len(messages))
  BY DEF ReaderInv, DataInv, PhaseInv
<1>4. Base \in Nat
  <2>1. phase = "tail" => delivered + 1 \in 0..Len(messages)
    BY <1>2, <1>3
  <2> QED
    BY <1>2, <1>3, <2>1 DEF Base
<1>5. ends[Len(messages)] \in Nat
  BY <1>2
<1>6. length \in Nat /\ data_size \in Nat
  BY <1>5 DEF ReaderInv, TypeOK
<1> QED
  BY <1>1, <1>3, <1>4, <1>5, <1>6 DEF ReaderInv, TypeOK, DataInv

\* What a step leaves as it is that reads, and loses, nothing.
LEMMA SamePackets ==
    ASSUME ReaderInv, UNCHANGED <<messages, ends, phase, delivered, packet>>
    PROVE  /\ Base' = Base /\ NextMessage' = NextMessage /\ ReturnsWhatWasSent'
           /\ delivered' \in 0..Len(messages') /\ \A j \in 1..delivered' : IsPacket(messages'[j])
<1>1. Base' = Base /\ NextMessage' = NextMessage
  BY DEF Base, NextMessage
<1>2. ReturnsWhatWasSent'
  BY DEF ReaderInv, ReturnsWhatWasSent, IsPacket, Bytes
<1> QED
  BY <1>1, <1>2 DEF ReaderInv, DataInv

\* Some bytes of a sequence that holds the stream have been read from it.
LEMMA Taken ==
    ASSUME NEW s \in Seq(Byte), NEW from \in Nat, Holds(s, from), NEW n \in 1..Len(s)
    PROVE  LET first == SubSeq(s, 1, n)
               rest == SubSeq(s, n + 1, Len(s))
           IN  /\ first \in Seq(Byte) /\ Len(first) = n /\ Holds(first, from)
               /\ rest \in Seq(Byte) /\ Len(rest) = Len(s) - n /\ Holds(rest, from + n)
<1>1. n \in 0..Len(s)
  OBVIOUS
<1> QED
  BY <1>1, FirstTypes, RestTypes, FirstHolds, RestHolds

LEMMA ReadPrereadStep == ReaderInv /\ ReadPreread => ReaderInv'
<1> SUFFICES ASSUME ReaderInv, ReadPreread PROVE ReaderInv'
  OBVIOUS
<1>1. /\ Reading /\ UNCHANGED <<messages, ends, length, coming, socket, ending, error>>
      /\ UNCHANGED <<packet_size, phase, delivered, packet, result>>
  BY DEF ReadPreread, channel
<1> DEFINE n == Min({Missing, Len(preread_data)})
           data == SubSeq(preread_data, 1, n)
<1>2. Fill(data) /\ preread_data' = SubSeq(preread_data, n + 1, Len(preread_data))
  BY DEF ReadPreread
<1>3. n \in 1..Missing /\ n \in 1..Len(preread_data) /\ n \in Nat
  <2>1. Missing \in Nat /\ Missing > 0
    BY <1>1, PlaceTypes, SizeIs, SizeTypes DEF Missing, Reading
  <2>2. Len(preread_data) \in Nat /\ Len(preread_data) > 0
    BY PlaceTypes DEF ReadPreread
  <2> QED
    BY <2>1, <2>2, MinIs
<1>4. Holds(preread_data, Base + data_size) /\ Base + data_size \in Nat
  BY PlaceTypes DEF ReaderInv, DataInv
<1> HIDE DEF n
<1>5. /\ data \in Seq(Byte) /\ Len(data) = n /\ Holds(data, Base + data_size)
      /\ preread_data' \in Seq(Byte) /\ Len(preread_data') = Len(preread_data) - n
      /\ Holds(preread_data', (Base + data_size) + n)
  BY <1>2, <1>3, <1>4, PlaceTypes, Taken
<1> HIDE DEF data
<1>6. /\ buf' \in Seq(Byte \cup {Junk}) /\ Len(buf') = Mtu
      /\ data_size' = data_size + n /\ data_size' \in 0..Mtu
      /\ \A k \in 1..data_size' : buf'[k] = ByteAt(Base + k)'
      /\ PhaseInv'
  BY <1>1, <1>2, <1>3, <1>5, FillIs
<1>7. /\ Base' = Base /\ NextMessage' = NextMessage /\ ReturnsWhatWasSent'
      /\ delivered' \in 0..Len(messages') /\ \A j \in 1..delivered' : IsPacket(messages'[j])
  BY <1>1, SamePackets
<1>8. TypeOK'
  BY <1>1, <1>5, <1>6 DEF ReaderInv, TypeOK
<1>9. DataInv'
  <2>1. /\ Base + data_size + Len(preread_data) = Base' + data_size' + Len(preread_data')
        /\ (Base + data_size) + n = Base' + data_size'
    <3>1. /\ Base \in Nat /\ data_size \in Nat /\ Len(preread_data) \in Nat /\ n \in Nat
          /\ Base' = Base /\ data_size' = data_size + n
          /\ Len(preread_data') = Len(preread_data) - n
      BY <1>3, <1>5, <1>6, <1>7, PlaceTypes
    <3> QED
      BY <3>1
  <2>2. Holds(preread_data, Base + data_size)'
    BY <1>1, <1>5, <2>1, HoldsOn
  <2>3. Holds(socket, Base + data_size + Len(preread_data))'
    BY <1>1, <2>1, HoldsOn DEF ReaderInv, DataInv
  <2>4. Holds(coming, Base + data_size + Len(preread_data) + Len(socket))'
    BY <1>1, <2>1, HoldsOn DEF ReaderInv, DataInv
  <2>5. (Base + data_size + Len(preread_data) + Len(socket) + Len(coming) = length)'
    BY <1>1, <2>1, PlaceTypes
  <2>6. (\A k \in 1..data_size : buf[k] = ByteAt(Base + k))'
    BY <1>6
  <2> QED
    BY <1>7, <2>2, <2>3, <2>4, <2>5, <2>6 DEF DataInv, IsPacket
<1>10. ResultInv'
  BY <1>1 DEF ResultInv, Reading
<1> QED
  BY <1>6, <1>7, <1>8, <1>9, <1>10 DEF ReaderInv

LEMMA ReadSocketStep == ReaderInv /\ ReadSocket => ReaderInv'
<1> SUFFICES ASSUME ReaderInv, ReadSocket PROVE ReaderInv'
  OBVIOUS
<1>1. /\ Reading /\ preread_data = <<>>
      /\ UNCHANGED <<messages, ends, length, coming, ending, error, preread_data>>
      /\ UNCHANGED <<packet_size, phase, delivered, packet, result>>
  BY DEF ReadSocket
<1>2. PICK n \in 1..Min({Missing, Len(socket)}) :
          /\ Fill(SubSeq(socket, 1, n))
          /\ socket' = SubSeq(socket, n + 1, Len(socket))
  BY DEF ReadSocket
<1> DEFINE data == SubSeq(socket, 1, n)
<1>3. n \in 1..Missing /\ n \in 1..Len(socket) /\ n \in Nat
  <2>1. Missing \in Nat
    BY <1>1, PlaceTypes, SizeIs, SizeTypes DEF Missing, Reading
  <2>2. Len(socket) \in Nat
    BY PlaceTypes
  <2> DEFINE m == Min({Missing, Len(socket)})
  <2>3. m \in Nat /\ m <= Missing /\ m <= Len(socket) /\ n \in 1..m
    BY <2>1, <2>2, MinIs
  <2> HIDE DEF m
  <2> QED
    BY <2>1, <2>2, <2>3
<1>4. /\ Len(preread_data) = 0 /\ Base + data_size + 0 = Base + data_size
      /\ Holds(socket, Base + data_size) /\ Base + data_size \in Nat
  <2>1. Len(preread_data) = 0
    BY <1>1
  <2>2. Base + data_size + 0 = Base + data_size /\ Base + data_size \in Nat
    BY PlaceTypes
  <2>3. Holds(socket, Base + data_size + Len(preread_data))
    BY DEF ReaderInv, DataInv
  <2> QED
    BY <2>1, <2>2, <2>3
<1>5. /\ data \in Seq(Byte) /\ Len(data) = n /\ Holds(data, Base + data_size)
      /\ socket' \in Seq(Byte) /\ Len(socket') = Len(socket) - n
      /\ Holds(socket', (Base + data_size) + n)
  BY <1>2, <1>3, <1>4, PlaceTypes, Taken
<1>6. Fill(data)
  BY <1>2
<1> HIDE DEF data
<1>7. /\ buf' \in Seq(Byte \cup {Junk}) /\ Len(buf') = Mtu
      /\ data_size' = data_size + n /\ data_size' \in 0..Mtu
      /\ \A k \in 1..data_size' : buf'[k] = ByteAt(Base + k)'
      /\ PhaseInv'
  BY <1>1, <1>3, <1>5, <1>6, FillIs
<1>8. /\ Base' = Base /\ NextMessage' = NextMessage /\ ReturnsWhatWasSent'
      /\ delivered' \in 0..Len(messages') /\ \A j \in 1..delivered' : IsPacket(messages'[j])
  BY <1>1, SamePackets
<1>9. TypeOK'
  BY <1>1, <1>5, <1>7 DEF ReaderInv, TypeOK
<1>10. DataInv'
  <2>1. /\ (Base + data_size) + n = Base' + data_size' + Len(preread_data')
        /\ Base + data_size + Len(preread_data) + Len(socket)
               = Base' + data_size' + Len(preread_data') + Len(socket')
    <3>1. /\ Base \in Nat /\ data_size \in Nat /\ Len(socket) \in Nat /\ n \in Nat
          /\ Base' = Base /\ data_size' = data_size + n
          /\ Len(preread_data) = 0 /\ Len(preread_data') = 0
          /\ Len(socket') = Len(socket) - n
      BY <1>1, <1>3, <1>4, <1>5, <1>7, <1>8, PlaceTypes
    <3> QED
      BY <3>1
  <2>2. Holds(preread_data, Base + data_size)'
    BY <1>1 DEF Holds
  <2>3. Holds(socket, Base + data_size + Len(preread_data))'
    BY <1>1, <1>5, <2>1, HoldsOn
  <2>4. Holds(coming, Base + data_size + Len(preread_data) + Len(socket))'
    BY <1>1, <2>1, HoldsOn DEF ReaderInv, DataInv
  <2>5. (Base + data_size + Len(preread_data) + Len(socket) + Len(coming) = length)'
    BY <1>1, <2>1, PlaceTypes
  <2>6. \A k \in 1..data_size' : buf'[k] = ByteAt(Base + k)'
    BY <1>7
  <2> QED
    BY <1>8, <2>2, <2>3, <2>4, <2>5, <2>6 DEF DataInv, IsPacket
<1>11. ResultInv'
  BY <1>1 DEF ResultInv, Reading
<1> QED
  BY <1>7, <1>8, <1>9, <1>10, <1>11 DEF ReaderInv

LEMMA ArriveStep == ReaderInv /\ Arrive => ReaderInv'
<1> SUFFICES ASSUME ReaderInv, Arrive PROVE ReaderInv'
  OBVIOUS
<1>1. /\ coming # <<>> /\ result \in {"ready", "reading"}
      /\ socket' = Append(socket, Head(coming)) /\ coming' = Tail(coming)
      /\ UNCHANGED <<messages, ends, length, ending, error, preread_data>>
      /\ UNCHANGED <<buf, data_size, packet_size, phase, delivered, packet, result>>
  BY DEF Arrive, readerVars
<1> DEFINE from == Base + data_size + Len(preread_data)
<1>2. /\ from \in Nat /\ socket \in Seq(Byte) /\ coming \in Seq(Byte)
      /\ Len(socket) \in Nat /\ Len(coming) \in Nat
      /\ from + Len(socket) + Len(coming) = length
  BY PlaceTypes
<1>3. /\ Holds(preread_data, Base + data_size) /\ Holds(socket, from)
      /\ Holds(coming, from + Len(socket))
  BY DEF ReaderInv, DataInv
<1>4. /\ Base' = Base /\ NextMessage' = NextMessage /\ ReturnsWhatWasSent'
      /\ delivered' \in 0..Len(messages') /\ \A j \in 1..delivered' : IsPacket(messages'[j])
  BY <1>1, SamePackets
<1>5. from' = from
  BY <1>1, <1>4
<1> HIDE DEF from
<1>6. /\ Len(coming) > 0 /\ Head(coming) = coming[1] /\ coming[1] \in Byte
      /\ coming' \in Seq(Byte) /\ Len(coming') = Len(coming) - 1
      /\ \A k \in 1..Len(coming') : coming'[k] = coming[k + 1] /\ k + 1 \in 1..Len(coming)
  BY <1>1, <1>2
<1>7. /\ socket' \in Seq(Byte) /\ Len(socket') = Len(socket) + 1
      /\ \A k \in 1..Len(socket) : socket'[k] = socket[k]
      /\ socket'[Len(socket) + 1] = coming[1]
  BY <1>1, <1>2, <1>6
<1>8. Holds(socket', from)
  <2>1. ASSUME NEW k \in 1..Len(socket')
        PROVE  socket'[k] = ByteAt(from + k)
    <3>1. CASE k \in 1..Len(socket)
      BY <1>3, <1>7, <3>1 DEF Holds
    <3>2. CASE k \notin 1..Len(socket)
      <4>1. k = Len(socket) + 1 /\ from + k = (from + Len(socket)) + 1 /\ 1 \in 1..Len(coming)
        <5>1. /\ k \in 1..(Len(socket) + 1) /\ k \notin 1..Len(socket) /\ Len(socket) \in Nat
              /\ from \in Nat /\ Len(coming) \in Nat /\ Len(coming) > 0
          BY <1>2, <1>6, <1>7, <3>2
        <5> QED
          BY <5>1
      <4>2. coming[1] = ByteAt((from + Len(socket)) + 1)
        BY <1>3, <4>1 DEF Holds
      <4> QED
        BY <1>7, <4>1, <4>2
    <3> QED
      BY <3>1, <3>2
  <2> QED
    BY <2>1 DEF Holds
<1>9. Holds(coming', from + Len(socket'))
  <2>1. ASSUME NEW k \in 1..Len(coming')
        PROVE  coming'[k] = ByteAt((from + Len(socket')) + k)
    <3>1. (from + Len(socket')) + k = (from + Len(socket)) + (k + 1)
      BY <1>2, <1>6, <1>7
    <3>2. coming[k + 1] = ByteAt((from + Len(socket)) + (k + 1))
      BY <1>3, <1>6 DEF Holds
    <3> QED
      BY <1>6, <3>1, <3>2
  <2> QED
    BY <2>1 DEF Holds
<1>10. TypeOK'
  BY <1>1, <1>6, <1>7 DEF ReaderInv, TypeOK
<1>11. DataInv'
  <2>1. Holds(preread_data, Base + data_size)'
    BY <1>1, <1>3, <1>4, HoldsOn
  <2>2. Holds(socket, from)' /\ Holds(coming, from + Len(socket))'
    BY <1>1, <1>5, <1>8, <1>9, HoldsOn
  <2>3. (from + Len(socket) + Len(coming) = length)'
    BY <1>1, <1>2, <1>5, <1>6, <1>7
  <2>4. \A k \in 1..data_size' : buf'[k] = ByteAt(Base + k)'
    BY <1>1, <1>4, SameBytes DEF ReaderInv, DataInv
  <2> QED
    BY <1>4, <2>1, <2>2, <2>3, <2>4 DEF DataInv, IsPacket, from
<1>12. PhaseInv' /\ ResultInv'
  BY <1>1, <1>4 DEF ReaderInv, PhaseInv, ResultInv, IsPacket, IsFake
<1> QED
  BY <1>4, <1>10, <1>11, <1>12 DEF ReaderInv

\* A step that reads nothing.
LEMMA KeptStep ==
    ASSUME ReaderInv, Base' = Base, packet_size' \in 0..Mtu, phase' \in {"message", "fake", "tail"},
           error' \in BOOLEAN, result' \in {"ready", "reading", "closed"} \cup Failures,
           UNCHANGED <<messages, ends, length, coming, socket, ending>>,
           UNCHANGED <<preread_data, buf, data_size, delivered, packet>>
    PROVE  TypeOK' /\ DataInv' /\ ReturnsWhatWasSent' /\ NextMessage' = NextMessage
<1>1. TypeOK'
  BY DEF ReaderInv, TypeOK
<1>2. DataInv'
  <2>1. /\ Holds(preread_data, Base + data_size)'
        /\ Holds(socket, Base + data_size + Len(preread_data))'
        /\ Holds(coming, Base + data_size + Len(preread_data) + Len(socket))'
    BY HoldsOn DEF ReaderInv, DataInv
  <2>2. \A k \in 1..data_size' : buf'[k] = ByteAt(Base + k)'
    BY SameBytes DEF ReaderInv, DataInv
  <2> QED
    BY <2>1, <2>2 DEF ReaderInv, DataInv, IsPacket
<1>3. ReturnsWhatWasSent' /\ NextMessage' = NextMessage
  BY DEF ReaderInv, ReturnsWhatWasSent, IsPacket, Bytes, NextMessage
<1> QED
  BY <1>1, <1>2, <1>3

LEMMA WaitingStep ==
    ASSUME ReaderInv, WriteFails \/ Call \/ ReceiveError
    PROVE  ReaderInv'
<1>1. /\ UNCHANGED <<messages, ends, length, coming, socket, ending, preread_data, buf>>
      /\ UNCHANGED <<data_size, packet_size, phase, delivered, packet>>
      /\ error' \in BOOLEAN
      /\ \/ result' \in {"ready", "reading"}
         \/ result' = "write_failed" /\ preread_data = <<>> /\ socket = <<>> /\ data_size < Size
  BY DEF ReaderInv, TypeOK, WriteFails, Call, ReceiveError, NothingToRead, Reading, channel,
         readerVars
<1>2. Base' = Base /\ Size' = Size
  BY <1>1 DEF Base, Size, Header
<1>3. TypeOK' /\ DataInv' /\ ReturnsWhatWasSent' /\ NextMessage' = NextMessage
  BY <1>1, <1>2, KeptStep DEF ReaderInv, TypeOK, Failures
<1>4. PhaseInv'
  BY <1>1, <1>3 DEF ReaderInv, PhaseInv, IsPacket, IsFake
<1>5. ResultInv'
  BY <1>1, <1>2 DEF ResultInv, Drained
<1> QED
  BY <1>3, <1>4, <1>5 DEF ReaderInv

LEMMA ReadEndStep == ReaderInv /\ ReadEnd => ReaderInv'
<1> SUFFICES ASSUME ReaderInv, ReadEnd PROVE ReaderInv'
  OBVIOUS
<1>1. /\ UNCHANGED <<messages, ends, length, coming, socket, ending, error, preread_data, buf>>
      /\ UNCHANGED <<data_size, packet_size, phase, delivered, packet>>
      /\ preread_data = <<>> /\ socket = <<>> /\ coming = <<>> /\ data_size < Size
      /\ result' = IF ending = "broken" THEN "broken"
                   ELSE IF data_size = 0 THEN "closed" ELSE "torn"
  BY DEF ReaderInv, TypeOK, ReadEnd, NothingToRead, Reading, channel, readerVars
<1>2. Base' = Base /\ Size' = Size
  BY <1>1 DEF Base, Size, Header
<1>3. TypeOK' /\ DataInv' /\ ReturnsWhatWasSent' /\ NextMessage' = NextMessage
  BY <1>1, <1>2, KeptStep DEF ReaderInv, TypeOK, Failures
<1>4. PhaseInv'
  BY <1>1, <1>3 DEF ReaderInv, PhaseInv, IsPacket, IsFake
<1>5. ResultInv'
  BY <1>1, <1>2 DEF ResultInv, Drained
<1> QED
  BY <1>3, <1>4, <1>5 DEF ReaderInv

\* read() looks at a whole header, and at no more than that.
LEMMA WholeHeader ==
    ASSUME ReaderInv, HasRead("message"), packet_size = 0
    PROVE  /\ data_size = HeaderSize /\ delivered < Len(messages)
           /\ Header = NextMessage /\ NextMessage.size \in Nat /\ NextMessage.size >= HeaderSize
           /\ NextMessage.kind \in {"packet", "fake", "other"}
<1>1. phase = "message" /\ data_size \in Nat /\ HeaderSize \in Nat
  BY PlaceTypes, SizeTypes DEF HasRead
<1>2. data_size = HeaderSize
  BY <1>1, SizeIs DEF ReaderInv, PhaseInv, HasRead
<1>3. /\ delivered < Len(messages) /\ delivered + 1 \in 1..Len(messages)
      /\ Header = NextMessage
  BY <1>1, <1>2, HeaderIs
<1>4. /\ NextMessage \in Message /\ NextMessage.size \in Nat
      /\ NextMessage.size >= HeaderSize
  BY <1>3, PlaceTypes, LayoutTypes DEF NextMessage
<1> QED
  BY <1>2, <1>3, <1>4 DEF Message

LEMMA ParseStep ==
    ASSUME ReaderInv, ParseHeader \/ ParseFakeResponse
    PROVE  ReaderInv'
<1>1. /\ UNCHANGED <<messages, ends, length, coming, socket, ending, error, preread_data, buf>>
      /\ UNCHANGED <<data_size, delivered, packet, result>>
      /\ HasRead("message") /\ packet_size = 0 /\ result = "reading"
      /\ \/ /\ Header.kind = "packet" /\ Header.size \in MinSize..Mtu
            /\ packet_size' = Header.size /\ phase' = "message"
         \/ /\ Header.kind = "fake" /\ Header.size <= Mtu
            /\ packet_size' = 0 /\ phase' = "fake"
  BY DEF ParseHeader, ParseFakeResponse, HasRead, channel
<1>2. /\ data_size = HeaderSize /\ delivered < Len(messages) /\ phase = "message"
      /\ Header = NextMessage /\ NextMessage.size \in Nat /\ NextMessage.size >= HeaderSize
  BY <1>1, WholeHeader DEF HasRead
<1>3. Base' = Base
  BY <1>1, <1>2 DEF Base
<1>4. packet_size' \in 0..Mtu
  BY <1>1, SizeTypes
<1>5. TypeOK' /\ DataInv' /\ ReturnsWhatWasSent' /\ NextMessage' = NextMessage
  BY <1>1, <1>3, <1>4, KeptStep DEF ReaderInv, TypeOK
<1>6. PhaseInv'
  BY <1>1, <1>2, <1>5, SizeTypes DEF PhaseInv, IsPacket, IsFake
<1>7. ResultInv'
  BY <1>1 DEF ResultInv
<1> QED
  BY <1>5, <1>6, <1>7 DEF ReaderInv

LEMMA RefuseStep ==
    ASSUME ReaderInv, RefuseHeader \/ RefuseTail
    PROVE  ReaderInv'
<1>1. /\ UNCHANGED <<messages, ends, length, coming, socket, ending, error, preread_data, buf>>
      /\ UNCHANGED <<data_size, packet_size, phase, delivered, packet>> /\ result' = "invalid"
  BY DEF RefuseHeader, RefuseTail, channel, readerVars
<1>2. Invalid
  <2>1. CASE RefuseHeader
    <3>1. /\ HasRead("message") /\ packet_size = 0 /\ phase = "message"
      BY <2>1 DEF RefuseHeader, HasRead
    <3>2. /\ data_size = HeaderSize /\ delivered < Len(messages) /\ Header = NextMessage
          /\ HeaderSize \in Nat /\ Mtu \in Nat /\ NextMessage.size \in Nat
      BY <3>1, WholeHeader, SizeTypes
    <3>3. ~IsPacket(NextMessage) /\ ~IsFake(NextMessage)
      BY <2>1, <3>2 DEF RefuseHeader, IsPacket, IsFake
    <3> QED
      BY <3>1, <3>2, <3>3 DEF Invalid
  <2>2. CASE RefuseTail
    <3>1. phase = "tail" /\ data_size >= 1
      BY <2>2, SizeIs DEF RefuseTail, HasRead
    <3> QED
      BY <3>1 DEF ReaderInv, PhaseInv, Invalid
  <2> QED
    BY <2>1, <2>2
<1>3. Base' = Base
  BY <1>1 DEF Base
<1>4. TypeOK' /\ DataInv' /\ ReturnsWhatWasSent' /\ NextMessage' = NextMessage
  BY <1>1, <1>3, KeptStep DEF ReaderInv, TypeOK, Failures
<1>5. PhaseInv'
  BY <1>1, <1>4 DEF ReaderInv, PhaseInv, IsPacket, IsFake
<1>6. ResultInv'
  BY <1>1, <1>2, <1>4 DEF ResultInv, Invalid, IsPacket, IsFake
<1> QED
  BY <1>4, <1>5, <1>6 DEF ReaderInv

LEMMA ReturnPacketStep == ReaderInv /\ ReturnPacket => ReaderInv'
<1> SUFFICES ASSUME ReaderInv, ReturnPacket PROVE ReaderInv'
  OBVIOUS
<1>1. /\ HasRead("message") /\ packet_size # 0 /\ phase = "message"
      /\ packet' = SubSeq(buf, 1, packet_size) /\ delivered' = delivered + 1
      /\ packet_size' = 0 /\ data_size' = 0 /\ result' = "ready"
      /\ UNCHANGED <<messages, ends, length, coming, socket, ending, error>>
      /\ UNCHANGED <<preread_data, buf, phase>>
  BY DEF ReturnPacket, HasRead, channel
<1>2. /\ delivered < Len(messages) /\ IsPacket(NextMessage)
      /\ packet_size = NextMessage.size /\ data_size = packet_size
      /\ packet_size \in Nat /\ packet_size <= Mtu
  <2>1. /\ delivered < Len(messages) /\ IsPacket(NextMessage)
        /\ packet_size = NextMessage.size /\ data_size \in HeaderSize..packet_size
        /\ packet_size \in Nat /\ packet_size <= Mtu
    BY <1>1, SizeTypes DEF ReaderInv, TypeOK, PhaseInv
  <2>2. data_size >= packet_size
    BY <1>1, SizeIs DEF HasRead
  <2> QED
    BY <2>1, <2>2, PlaceTypes, SizeTypes
<1>3. /\ Layout /\ Len(messages) \in Nat /\ delivered \in 0..Len(messages)
      /\ delivered + 1 \in 1..Len(messages) /\ (delivered + 1) - 1 = delivered
      /\ delivered + 1 > 0
  <2>1. Layout /\ Len(messages) \in Nat /\ delivered \in 0..Len(messages)
    BY PlaceTypes, LayoutTypes
  <2> QED
    BY <1>2, <2>1
<1>4. /\ ends[delivered] \in Nat /\ ends[delivered + 1] = ends[delivered] + packet_size
      /\ Base = ends[delivered] /\ Base' = ends[delivered + 1]
  <2>1. ends[delivered] \in Nat /\ ends[delivered + 1] = ends[delivered] + packet_size
    BY <1>2, <1>3, LayoutTypes DEF NextMessage
  <2> QED
    BY <1>1, <2>1 DEF Base
<1>5. packet' = Bytes(delivered + 1) /\ packet' \in Seq(Byte)
  <2>1. packet' = [k \in 1..packet_size |-> buf[k]]
    <3>1. buf \in Seq(Byte \cup {Junk}) /\ packet_size \in 0..Len(buf)
      BY <1>2, SizeTypes DEF ReaderInv, TypeOK
    <3> QED
      BY <1>1, <1>2, <3>1
  <2>2. ASSUME NEW k \in 1..packet_size
        PROVE  buf[k] = [of |-> delivered + 1, at |-> k] /\ buf[k] \in Byte
    <3>1. buf[k] = ByteAt(ends[delivered] + k)
      BY <1>2, <1>4 DEF ReaderInv, DataInv
    <3>2. k \in 1..messages[delivered + 1].size
      BY <1>2 DEF NextMessage
    <3>3. ByteAt(ends[delivered] + k) = [of |-> delivered + 1, at |-> k]
      BY <1>3, <3>2, ByteIs
    <3>4. delivered + 1 \in Nat \ {0} /\ k \in Nat
      BY <1>2, <1>3
    <3> QED
      BY <3>1, <3>3, <3>4 DEF Byte
  <2>3. packet' = Bytes(delivered + 1)
    BY <1>2, <2>1, <2>2 DEF Bytes, NextMessage
  <2>4. packet' \in [1..packet_size -> Byte]
    BY <2>1, <2>2
  <2> QED
    BY <1>2, <2>3, <2>4
<1>6. TypeOK'
  <2>1. delivered' \in Nat /\ data_size' \in 0..Mtu /\ packet_size' \in 0..Mtu
    BY <1>1, <1>3, SizeTypes
  <2> QED
    BY <1>1, <1>5, <2>1 DEF ReaderInv, TypeOK
<1>7. DataInv'
  <2>1. /\ Base' + data_size' = Base + data_size
        /\ delivered' \in 0..Len(messages')
    BY <1>1, <1>2, <1>3, <1>4
  <2>2. \A j \in 1..delivered' : IsPacket(messages'[j])
    <3>1. \A j \in 1..(delivered + 1) : j \in 1..delivered \/ j = delivered + 1
      BY <1>3
    <3> QED
      BY <1>1, <1>2, <3>1 DEF ReaderInv, DataInv, NextMessage
  <2>3. /\ Holds(preread_data, Base + data_size)'
        /\ Holds(socket, Base + data_size + Len(preread_data))'
        /\ Holds(coming, Base + data_size + Len(preread_data) + Len(socket))'
    BY <1>1, <2>1, HoldsOn DEF ReaderInv, DataInv
  <2>4. (Base + data_size + Len(preread_data) + Len(socket) + Len(coming) = length)'
    BY <1>1, <2>1, PlaceTypes
  <2>5. \A k \in 1..data_size' : buf'[k] = ByteAt(Base + k)'
    BY <1>1
  <2> QED
    BY <2>1, <2>2, <2>3, <2>4, <2>5 DEF DataInv, IsPacket
<1>8. PhaseInv' /\ ResultInv'
  BY <1>1, SizeTypes DEF PhaseInv, ResultInv
<1>9. ReturnsWhatWasSent'
  BY <1>1, <1>2, <1>5 DEF ReturnsWhatWasSent, IsPacket, NextMessage, Bytes
<1> QED
  BY <1>6, <1>7, <1>8, <1>9 DEF ReaderInv

LEMMA ReadFakeStep == ReaderInv /\ ReadFakeResponse => ReaderInv'
<1> SUFFICES ASSUME ReaderInv, ReadFakeResponse PROVE ReaderInv'
  OBVIOUS
<1>1. /\ HasRead("fake") /\ phase = "fake" /\ data_size' = 0 /\ phase' = "tail"
      /\ result = "reading"
      /\ UNCHANGED <<messages, ends, length, coming, socket, ending, error>>
      /\ UNCHANGED <<preread_data, buf, packet_size, delivered, packet, result>>
  BY DEF ReadFakeResponse, HasRead, channel
<1>2. /\ delivered < Len(messages) /\ IsFake(NextMessage) /\ packet_size = 0
      /\ data_size = NextMessage.size
  <2>1. /\ delivered < Len(messages) /\ IsFake(NextMessage) /\ packet_size = 0
        /\ data_size \in HeaderSize..NextMessage.size
    BY <1>1 DEF ReaderInv, PhaseInv
  <2>2. data_size >= NextMessage.size /\ NextMessage.size \in Nat
    BY <1>1, SizeIs, SizeTypes DEF HasRead
  <2> QED
    BY <2>1, <2>2, PlaceTypes, SizeTypes
<1>3. /\ Layout /\ Len(messages) \in Nat /\ delivered \in 0..Len(messages)
      /\ delivered + 1 \in 1..Len(messages) /\ (delivered + 1) - 1 = delivered
  <2>1. Layout /\ Len(messages) \in Nat /\ delivered \in 0..Len(messages)
    BY PlaceTypes, LayoutTypes
  <2> QED
    BY <1>2, <2>1
<1>4. /\ ends[delivered] \in Nat /\ ends[delivered + 1] = ends[delivered] + data_size
      /\ Base = ends[delivered] /\ Base' = ends[delivered + 1]
  <2>1. ends[delivered] \in Nat /\ ends[delivered + 1] = ends[delivered] + data_size
    BY <1>2, <1>3, LayoutTypes DEF NextMessage
  <2> QED
    BY <1>1, <2>1 DEF Base
<1>5. TypeOK'
  BY <1>1, SizeTypes DEF ReaderInv, TypeOK
<1>6. DataInv'
  <2>1. Base' + data_size' = Base + data_size
    BY <1>1, <1>4, PlaceTypes
  <2>2. /\ Holds(preread_data, Base + data_size)'
        /\ Holds(socket, Base + data_size + Len(preread_data))'
        /\ Holds(coming, Base + data_size + Len(preread_data) + Len(socket))'
    BY <1>1, <2>1, HoldsOn DEF ReaderInv, DataInv
  <2>3. (Base + data_size + Len(preread_data) + Len(socket) + Len(coming) = length)'
    BY <1>1, <2>1, PlaceTypes
  <2>4. \A k \in 1..data_size' : buf'[k] = ByteAt(Base + k)'
    BY <1>1
  <2> QED
    BY <1>1, <2>2, <2>3, <2>4 DEF ReaderInv, DataInv, IsPacket
<1>7. PhaseInv' /\ ResultInv'
  BY <1>1, <1>2, SizeTypes DEF PhaseInv, ResultInv, NextMessage, IsFake, IsPacket
<1>8. ReturnsWhatWasSent'
  BY <1>1 DEF ReaderInv, ReturnsWhatWasSent, IsPacket, Bytes
<1> QED
  BY <1>5, <1>6, <1>7, <1>8 DEF ReaderInv

LEMMA ReaderNext == ReaderInv /\ [Next]_vars => ReaderInv'
<1> SUFFICES ASSUME ReaderInv, [Next]_vars PROVE ReaderInv'
  OBVIOUS
<1>1. CASE Arrive
  BY <1>1, ArriveStep
<1>2. CASE WriteFails \/ Call \/ ReceiveError
  BY <1>2, WaitingStep
<1>3. CASE ReadPreread
  BY <1>3, ReadPrereadStep
<1>4. CASE ReadSocket
  BY <1>4, ReadSocketStep
<1>5. CASE ReadEnd
  BY <1>5, ReadEndStep
<1>6. CASE ParseHeader \/ ParseFakeResponse
  BY <1>6, ParseStep
<1>7. CASE RefuseHeader \/ RefuseTail
  BY <1>7, RefuseStep
<1>8. CASE ReturnPacket
  BY <1>8, ReturnPacketStep
<1>9. CASE ReadFakeResponse
  BY <1>9, ReadFakeStep
<1>10. CASE UNCHANGED vars
  <2>1. /\ UNCHANGED <<messages, ends, length, coming, socket, ending, error, preread_data, buf>>
        /\ UNCHANGED <<data_size, packet_size, phase, delivered, packet, result>>
    BY <1>10 DEF vars, channel, readerVars
  <2>2. Base' = Base /\ Size' = Size
    BY <2>1 DEF Base, Size, Header
  <2>3. TypeOK' /\ DataInv' /\ ReturnsWhatWasSent' /\ NextMessage' = NextMessage
    BY <2>1, <2>2, KeptStep DEF ReaderInv, TypeOK
  <2>4. PhaseInv' /\ ResultInv'
    BY <2>1, <2>2, <2>3
    DEF ReaderInv, PhaseInv, ResultInv, Drained, Invalid, IsPacket, IsFake
  <2> QED
    BY <2>3, <2>4 DEF ReaderInv
<1> QED
  BY <1>1, <1>2, <1>3, <1>4, <1>5, <1>6, <1>7, <1>8, <1>9, <1>10 DEF Next, Read

-----------------------------------------------------------------------------
(* What the invariant says of the packets that have been returned *)

LEMMA MaxIs ==
    ASSUME NEW S \in SUBSET Nat, NEW m \in S, \A x \in S : x <= m
    PROVE  Max(S) = m
<1>1. \A y \in S : m >= y
  OBVIOUS
<1>2. \A x \in S : (\A y \in S : x >= y) => x = m
  OBVIOUS
<1> QED
  BY <1>1, <1>2 DEF Max

\* The first packets of the stream end within n bytes, and what comes after
\* them is no packet or ends later.
LEMMA PacketsAre ==
    ASSUME Layout, NEW d \in 0..Len(messages), NEW n \in Nat, ends[d] <= n,
           \A j \in 1..d : IsPacket(messages[j]),
           d < Len(messages) => ~IsPacket(messages[d + 1]) \/ n < ends[d + 1]
    PROVE  PacketsIn(n) = d
<1> DEFINE S == {i \in 0..Len(messages) :
                    ends[i] <= n /\ \A j \in 1..i : IsPacket(messages[j])}
<1>1. Len(messages) \in Nat /\ d \in S /\ S \in SUBSET Nat
  BY LayoutTypes
<1>2. ASSUME NEW i \in S, d < i
      PROVE  FALSE
  <2>1. /\ i \in 0..Len(messages) /\ d < Len(messages) /\ d + 1 \in 1..i
        /\ d + 1 \in 0..Len(messages)
    BY <1>1, <1>2
  <2>2. n < ends[d + 1]
    BY <1>2, <2>1
  <2>3. d + 1 < i \/ d + 1 = i
    BY <2>1
  <2>4. ends[d + 1] <= ends[i] /\ ends[d + 1] \in Nat /\ ends[i] \in Nat
    BY <2>1, <2>3, EndsGrow, LayoutTypes
  <2> QED
    BY <1>2, <2>2, <2>4
<1>3. \A i \in S : i <= d
  BY <1>1, <1>2
<1> HIDE DEF S
<1>4. Max(S) = d
  BY <1>1, <1>3, MaxIs
<1> QED
  BY <1>4 DEF PacketsIn, S

\* What has been read when the reader has drained all that it can, or has met
\* what is neither a packet nor a fake response.
LEMMA Returned ==
    ASSUME ReaderInv, NEW n \in Nat,
           \/ Drained /\ n = Base + data_size
           \/ Invalid /\ n >= Base + data_size
    PROVE  PacketsIn(n) = delivered
<1>1. /\ Layout /\ delivered \in 0..Len(messages) /\ Base \in Nat /\ data_size \in Nat
      /\ Len(messages) \in Nat
  BY PlaceTypes, LayoutTypes
<1>2. ASSUME delivered < Len(messages)
      PROVE  /\ ends[delivered + 1] = ends[delivered] + NextMessage.size
             /\ NextMessage.size \in Nat /\ NextMessage.size >= HeaderSize
             /\ ends[delivered] \in Nat
  <2>1. /\ delivered + 1 \in 1..Len(messages) /\ (delivered + 1) - 1 = delivered
        /\ delivered \in 0..Len(messages)
    BY <1>1, <1>2
  <2> QED
    BY <1>1, <2>1, LayoutTypes DEF NextMessage
<1>3. phase = "tail" => delivered < Len(messages) /\ IsFake(NextMessage)
  BY DEF ReaderInv, PhaseInv
<1>4. Base >= ends[delivered] /\ ends[delivered] \in Nat
  <2>1. ends[delivered] \in Nat
    BY <1>1, LayoutTypes
  <2> QED
    BY <1>2, <1>3, <2>1 DEF Base
<1>5. n >= Base + data_size
  BY <1>1
<1>6. ends[delivered] <= n
  BY <1>1, <1>4, <1>5
<1>7. \A j \in 1..delivered : IsPacket(messages[j])
  BY DEF ReaderInv, DataInv
<1>8. ASSUME delivered < Len(messages), IsPacket(NextMessage)
      PROVE  n < ends[delivered + 1]
  <2>1. phase = "message"
    BY <1>3, <1>8 DEF ReaderInv, TypeOK, PhaseInv, IsPacket, IsFake
  <2>2. ~Invalid
    BY <1>8, <2>1 DEF Invalid
  <2>3. n = ends[delivered] + data_size /\ data_size < Size
    BY <2>1, <2>2 DEF Drained, Base
  <2>4. Size = IF packet_size = 0 THEN HeaderSize ELSE packet_size
    BY <2>1, SizeIs
  <2>5. packet_size # 0 => packet_size = NextMessage.size
    BY DEF ReaderInv, PhaseInv
  <2> QED
    BY <1>1, <1>2, <1>8, <2>3, <2>4, <2>5, SizeTypes
<1> QED
  BY <1>1, <1>6, <1>7, <1>8, PacketsAre DEF NextMessage

\* A reader that has drained the stream gives the verdict on it.
LEMMA DrainedVerdict ==
    ASSUME ReaderInv, Drained, length = Base + data_size
    PROVE  Verdict(length) = IF data_size = 0 THEN "closed" ELSE "torn"
<1>1. /\ Layout /\ delivered \in 0..Len(messages) /\ Base \in Nat /\ data_size \in Nat
      /\ length \in Nat /\ length <= ends[Len(messages)] /\ ends[Len(messages)] \in Nat
      /\ Len(messages) \in Nat
  BY PlaceTypes, LayoutTypes DEF ReaderInv, TypeOK
<1>2. PacketsIn(length) = delivered
  BY <1>1, Returned
<1>3. (delivered + 1) - 1 = delivered /\ ends[delivered] \in Nat
  BY <1>1, LayoutTypes
<1> DEFINE rest == length - ends[delivered]
<1>4. Verdict(length) =
          CASE rest = 0 -> "closed"
            [] rest \in 1..(HeaderSize - 1) -> "torn"
            [] rest >= HeaderSize /\ IsPacket(NextMessage) -> "torn"
            [] rest >= HeaderSize /\ IsFake(NextMessage) ->
                   IF rest < NextMessage.size THEN "torn"
                   ELSE IF rest = NextMessage.size THEN "closed" ELSE "invalid"
            [] OTHER -> "invalid"
  BY <1>2, <1>3 DEF Verdict, NextMessage
<1>5. CASE phase = "message"
  <2>1. rest = data_size
    BY <1>1, <1>3, <1>5 DEF Base
  <2>2. CASE packet_size = 0
    <3>1. data_size < HeaderSize
      BY <1>5, <2>2, SizeIs DEF Drained
    <3> HIDE DEF rest
    <3> QED
      BY <1>1, <1>4, <2>1, <3>1, SizeTypes
  <2>3. CASE packet_size # 0
    <3>1. IsPacket(NextMessage) /\ data_size >= HeaderSize /\ data_size # 0
      BY <1>1, <2>3, SizeTypes DEF ReaderInv, PhaseInv, TypeOK
    <3>2. ~IsFake(NextMessage)
      BY <3>1 DEF IsPacket, IsFake
    <3> HIDE DEF rest
    <3> QED
      BY <1>1, <1>4, <2>1, <3>1, <3>2, SizeTypes
  <2> QED
    BY <2>2, <2>3
<1>6. CASE phase = "fake"
  <2>1. rest = data_size
    BY <1>1, <1>3, <1>6 DEF Base
  <2>2. /\ IsFake(NextMessage) /\ data_size \in HeaderSize..NextMessage.size
        /\ data_size < NextMessage.size
    BY <1>6, SizeIs DEF ReaderInv, PhaseInv, Drained
  <2>3. ~IsPacket(NextMessage) /\ data_size >= HeaderSize /\ data_size # 0
    BY <1>1, <2>2, SizeTypes DEF IsPacket, IsFake
  <2> HIDE DEF rest
  <2> QED
    BY <1>1, <1>4, <2>1, <2>2, <2>3, SizeTypes
<1>7. CASE phase = "tail"
  <2>1. delivered < Len(messages) /\ IsFake(NextMessage) /\ data_size = 0
    BY <1>1, <1>7, SizeIs DEF ReaderInv, PhaseInv, Drained
  <2>2. delivered + 1 \in 1..Len(messages)
    BY <1>1, <2>1
  <2>3. /\ ends[delivered + 1] = ends[delivered] + NextMessage.size
        /\ NextMessage.size \in Nat /\ NextMessage.size >= HeaderSize
    BY <1>1, <1>3, <2>2, LayoutTypes DEF NextMessage
  <2>4. rest = NextMessage.size
    BY <1>1, <1>3, <1>7, <2>1, <2>3 DEF Base
  <2>5. ~IsPacket(NextMessage)
    BY <2>1 DEF IsPacket, IsFake
  <2> HIDE DEF rest
  <2> QED
    BY <1>4, <2>1, <2>3, <2>4, <2>5, SizeTypes
<1> QED
  BY <1>5, <1>6, <1>7 DEF ReaderInv, TypeOK

LEMMA InvalidVerdict ==
    ASSUME ReaderInv, Invalid
    PROVE  Verdict(length) = "invalid" /\ PacketsIn(length) = delivered
<1>1. /\ Layout /\ delivered \in 0..Len(messages) /\ Base \in Nat /\ data_size \in Nat
      /\ length \in Nat /\ Len(messages) \in Nat /\ delivered < Len(messages)
  BY PlaceTypes, LayoutTypes DEF Invalid
<1>2. length >= Base + data_size
  <2>1. /\ Base + data_size + Len(preread_data) + Len(socket) + Len(coming) = length
        /\ Len(preread_data) \in Nat /\ Len(socket) \in Nat /\ Len(coming) \in Nat
        /\ Base \in Nat /\ data_size \in Nat
    BY PlaceTypes
  <2> QED
    BY <2>1
<1>3. PacketsIn(length) = delivered
  BY <1>1, <1>2, Returned
<1>4. /\ (delivered + 1) - 1 = delivered /\ ends[delivered] \in Nat
      /\ ends[delivered + 1] = ends[delivered] + NextMessage.size
      /\ NextMessage.size \in Nat /\ NextMessage.size >= HeaderSize
  <2>1. (delivered + 1) - 1 = delivered /\ delivered + 1 \in 1..Len(messages)
    BY <1>1
  <2> QED
    BY <1>1, <2>1, LayoutTypes DEF NextMessage
<1> DEFINE rest == length - ends[delivered]
<1>5. Verdict(length) =
          CASE rest = 0 -> "closed"
            [] rest \in 1..(HeaderSize - 1) -> "torn"
            [] rest >= HeaderSize /\ IsPacket(NextMessage) -> "torn"
            [] rest >= HeaderSize /\ IsFake(NextMessage) ->
                   IF rest < NextMessage.size THEN "torn"
                   ELSE IF rest = NextMessage.size THEN "closed" ELSE "invalid"
            [] OTHER -> "invalid"
  BY <1>3, <1>4 DEF Verdict, NextMessage
<1>6. CASE /\ phase = "message" /\ data_size >= HeaderSize
           /\ ~IsPacket(NextMessage) /\ ~IsFake(NextMessage)
  <2>1. rest >= HeaderSize /\ rest \in Nat
    BY <1>1, <1>2, <1>4, <1>6, SizeTypes DEF Base
  <2> HIDE DEF rest
  <2> QED
    BY <1>3, <1>5, <1>6, <2>1, SizeTypes
<1>7. CASE phase = "tail" /\ data_size >= 1
  <2>1. rest > NextMessage.size /\ rest \in Nat
    BY <1>1, <1>2, <1>4, <1>7 DEF Base
  <2>2. IsFake(NextMessage) /\ ~IsPacket(NextMessage)
    BY <1>7 DEF ReaderInv, PhaseInv, IsPacket, IsFake
  <2> HIDE DEF rest
  <2> QED
    BY <1>3, <1>4, <1>5, <2>1, <2>2, SizeTypes
<1> QED
  BY <1>6, <1>7 DEF Invalid

LEMMA InvEnds == ReaderInv => EndsAsSent
<1> SUFFICES ASSUME ReaderInv, result \in {"closed", "torn", "broken", "invalid"}
             PROVE  /\ delivered = PacketsIn(length)
                    /\ result = IF ending = "broken" /\ Verdict(length) # "invalid" THEN "broken"
                                ELSE Verdict(length)
  BY DEF EndsAsSent
<1>1. CASE result = "invalid"
  BY <1>1, InvalidVerdict DEF ReaderInv, ResultInv
<1>2. CASE result # "invalid"
  <2>1. /\ Drained /\ coming = <<>> /\ preread_data = <<>> /\ socket = <<>>
        /\ result = IF ending = "broken" THEN "broken"
                    ELSE IF data_size = 0 THEN "closed" ELSE "torn"
    BY <1>2 DEF ReaderInv, ResultInv, Drained
  <2>2. Len(coming) = 0 /\ Len(preread_data) = 0 /\ Len(socket) = 0
    BY <2>1
  <2>3. length = Base + data_size /\ length \in Nat
    BY <2>2, PlaceTypes
  <2>4. Verdict(length) = IF data_size = 0 THEN "closed" ELSE "torn"
    BY <2>1, <2>3, DrainedVerdict
  <2>5. PacketsIn(length) = delivered
    BY <2>1, <2>3, Returned
  <2> QED
    BY <2>1, <2>4, <2>5
<1> QED
  BY <1>1, <1>2

LEMMA InvHeld == ReaderInv => NothingHeldBack
<1> SUFFICES ASSUME ReaderInv, NothingToRead \/ result = "write_failed"
             PROVE  delivered = PacketsIn(Arrived)
  BY DEF NothingHeldBack
<1>1. Drained
  BY DEF ReaderInv, ResultInv, Drained, NothingToRead, Reading
<1>2. Len(preread_data) = 0 /\ Len(socket) = 0
  BY <1>1 DEF Drained
<1>3. Arrived = Base + data_size /\ Arrived \in Nat
  <2>1. /\ Base + data_size + 0 + 0 + Len(coming) = length /\ Len(coming) \in Nat
        /\ Base \in Nat /\ data_size \in Nat /\ length \in Nat
    BY <1>2, PlaceTypes
  <2> QED
    BY <2>1 DEF Arrived
<1> QED
  BY <1>1, <1>3, Returned

\* Whatever pieces the stream comes in, the buffer, the bytes read with the
\* handshake and those in the socket are the stream in its order, and the reader
\* is where in it its phase says.
THEOREM ReaderInvariance == Spec => []ReaderInv
<1>1. Init => ReaderInv
  BY ReaderInit
<1>2. ReaderInv /\ [Next]_vars => ReaderInv'
  BY ReaderNext
<1> QED
  BY <1>1, <1>2, PTL DEF Spec

\* PacketReader.read() returns the packets that have been written, whole and in
\* their order, for any stream of messages and any sizes.
THEOREM PacketsReturnedWhole == Spec => []ReturnsWhatWasSent
<1>1. ReaderInv => ReturnsWhatWasSent
  BY DEF ReaderInv
<1> QED
  BY <1>1, ReaderInvariance, PTL

\* PacketReader.read() ends as the stream does, in whatever pieces it has come: an
\* orderly end is told from a torn, a broken and an invalid one.
THEOREM EndToldFromStream == Spec => []EndsAsSent
BY ReaderInvariance, InvEnds, PTL

\* PacketReader.read() waits, and gives up for a failure of the writer, only when
\* it has returned each packet that has arrived.
THEOREM ArrivedIsReturned == Spec => []NothingHeldBack
BY ReaderInvariance, InvHeld, PTL
=============================================================================
