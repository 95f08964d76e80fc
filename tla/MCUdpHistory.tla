---------------------------- MODULE MCUdpHistory ----------------------------
(* Instances of UdpHistory for TLC. *)
EXTENDS UdpHistory, TLC

\* The peers run the same code: with synchronised clocks nothing tells them apart.
Symmetry == Permutations(Peers)
=============================================================================
