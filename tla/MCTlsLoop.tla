----------------------------- MODULE MCTlsLoop ------------------------------
(* A small instance of TlsLoop for TLC. *)
EXTENDS TlsLoop
=============================================================================
