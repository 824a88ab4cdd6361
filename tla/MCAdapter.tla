----------------------------- MODULE MCAdapter ------------------------------
EXTENDS Adapter, TLC

CONSTANTS e1, e2

\* The first address is near: it is preferred by its TCP latency.
MCCandidates == <<e1, e2>>
MCTcpBucket == (e1 :> 0) @@ (e2 :> 5)
MCTlsBucket == (e1 :> 1) @@ (e2 :> 6)
=============================================================================
