---------------------------- MODULE MCUdpSecurer ----------------------------
(* The pinger and the controller, and a counter of three values.           *)
EXTENDS UdpSecurer, TLC

CONSTANTS pinger, controller

Symmetry == Permutations(Tasks)

=============================================================================
