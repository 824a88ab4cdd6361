----------------------------- MODULE MCHandover -----------------------------
(* Small instances of Handover for TLC. *)
EXTENDS Handover, TLC

Symmetry == Permutations(Conns)
=============================================================================
