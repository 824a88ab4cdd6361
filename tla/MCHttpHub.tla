----------------------------- MODULE MCHttpHub ------------------------------
(* Small instances of HttpHub for TLC. *)
EXTENDS HttpHub, TLC

Symmetry == Permutations(Handlers) \cup Permutations(Ids)
=============================================================================
