------------------------------- MODULE MCPool --------------------------------
(***************************************************************************)
(* Pools for TLC: one with packets of two flows, one with packets of one   *)
(* flow and a failure, and one with a failure whose client can dial a      *)
(* fourth connection while the server still has three: it is then refused. *)
(***************************************************************************)
EXTENDS Pool

CONSTANTS c1, c2, c3, c4, f1, f2

MCConns == {c1, c2, c3, c4}
MCFlows == {f1, f2}
MCSetups == {[conns |-> {c1, c2, c3}, packets |-> {"client"} \X MCFlows, faults |-> 0],
             [conns |-> {c1, c2, c3}, packets |-> {<<"client", f1>>}, faults |-> 1],
             [conns |-> MCConns, packets |-> {}, faults |-> 1]}
=============================================================================
