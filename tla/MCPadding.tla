----------------------------- MODULE MCPadding ------------------------------
(* Small instances of Padding for TLC. *)
EXTENDS Padding
=============================================================================
