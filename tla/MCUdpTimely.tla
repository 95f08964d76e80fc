---------------------------- MODULE MCUdpTimely ----------------------------
(* Instances of UdpTimely for TLC. *)
EXTENDS UdpTimely, TLC

\* The peers run the same code: with synchronised clocks nothing tells them apart.
Symmetry == Permutations(Peers)
=============================================================================
