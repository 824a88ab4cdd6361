----------------------------- MODULE MCFlowQueue ----------------------------
(* A small instance of FlowQueue for TLC. *)
EXTENDS FlowQueue
=============================================================================
