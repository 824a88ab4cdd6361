----------------------------- MODULE MCAdmission ----------------------------
(* Small instances of Admission for TLC. *)
EXTENDS Admission, TLC

Symmetry == Permutations(Conns) \cup Permutations(Workers)
=============================================================================
