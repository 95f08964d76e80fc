---------------------------- MODULE MCHttpTunnel ----------------------------
(* Instances of HttpTunnel for TLC. *)
EXTENDS HttpTunnel
=============================================================================
