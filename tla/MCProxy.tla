------------------------------- MODULE MCProxy -------------------------------
(* An instance of Proxy for TLC. *)
EXTENDS Proxy
=============================================================================
