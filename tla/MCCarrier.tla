----------------------------- MODULE MCCarrier ------------------------------
(* Small instances of Carrier for TLC. *)
EXTENDS Carrier

\* A busy session with and without the flow scheduler, and a quiet one in which
\* keep-alives can hold up the answer to a probe.
MCSetups ==
  [scheduler : BOOLEAN, packets : {3}, records : {1}] \cup [scheduler : {FALSE}, packets : {0}, records : {3}]
=============================================================================
