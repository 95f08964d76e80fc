------------------------------ MODULE MCCrawler ------------------------------
(* An instance of Crawler for TLC. *)
EXTENDS Crawler
=============================================================================
