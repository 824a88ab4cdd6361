---------------------------- MODULE MCWsSession -----------------------------
(* A small instance of WsSession for TLC. *)
EXTENDS WsSession
=============================================================================
