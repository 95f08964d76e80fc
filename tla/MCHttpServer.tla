---------------------------- MODULE MCHttpServer ----------------------------
(* An instance of HttpServer for TLC. *)
EXTENDS HttpServer
=============================================================================
