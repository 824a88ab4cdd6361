---------------------------- MODULE EdgeSelector ----------------------------
(***************************************************************************)
(* Selector of adapter/transportpolicy/dial.go: the memory of how the      *)
(* addresses of the CDN behaved, the order in which a dial tries them, and *)
(* the share of the dial's time each of them gets.                         *)
(*                                                                         *)
(* failedUntil and tlsFailedUntil are kept as the ticks left.  Latencies   *)
(* are kept as whether one was measured: an address has one TCP and one    *)
(* TLS bucket of 50 ms, which the moving average does not leave.  The      *)
(* limit of 64 remembered addresses is not reached.                        *)
(***************************************************************************)
EXTENDS Integers, Sequences

CONSTANTS Candidates,  \* the addresses in the order of the DNS answer (candidatesFor)
          TcpBucket,   \* 50 ms bucket of an address, by its TCP latency
          TlsBucket,   \* and by its TLS latency
          PerEdge,     \* perEdgeTimeout, in ticks
          Cooldown     \* failureCooldown, in ticks

N == Len(Candidates)
Edges == {Candidates[i] : i \in 1 .. N}

ASSUME SelectorAssumption ==
  /\ N \in Nat \ {0} /\ \A i, j \in 1 .. N : Candidates[i] = Candidates[j] => i = j
  /\ TcpBucket \in [Edges -> 0 .. 10] /\ TlsBucket \in [Edges -> 0 .. 10]
  /\ PerEdge \in Nat \ {0} /\ Cooldown \in Nat \ {0}

VARIABLES health,  \* edges
          rotate

Unknown == [tcp |-> 0, tls |-> 0, measured |-> FALSE, verified |-> FALSE]

SelectorInit == health = [e \in Edges |-> Unknown] /\ rotate = 0

Cooling(h) == h.tcp > 0 \/ h.tls > 0

Bucket(e) == IF health[e].verified THEN TlsBucket[e]
             ELSE IF health[e].measured THEN TcpBucket[e] ELSE 3

\* The place of the i-th candidate once the list is turned by offset.
Position(i, offset) == (i - 1 - offset + N) % N

\* The comparison of order: cooling last, then by latency, then by turn.
Before(i, j, offset) ==
  LET a == Candidates[i]  b == Candidates[j]
  IN IF Cooling(health[a]) # Cooling(health[b]) THEN Cooling(health[b])
     ELSE IF Bucket(a) # Bucket(b) THEN Bucket(a) < Bucket(b)
     ELSE Position(i, offset) < Position(j, offset)

\* order: the candidates sorted, with the turn the call has moved on.
Order ==
  LET offset == (rotate + 1) % N
  IN CHOOSE p \in [1 .. N -> Edges] :
       \A i, j \in 1 .. N : i # j /\ Before(i, j, offset) =>
         \E k, l \in 1 .. N : k < l /\ p[k] = Candidates[i] /\ p[l] = Candidates[j]

\* Every address gets the limit, however many are still to come.
EdgeBudgetWhole(left, rest) == IF left > PerEdge THEN PerEdge ELSE left

\* The share of one of rest addresses in the left ticks of the dial.
EdgeBudget(left, rest) == IF left \div rest > PerEdge THEN PerEdge ELSE left \div rest

\* record: the outcome of a TCP connection.
Record(e, ok) ==
  health' = [health EXCEPT ![e] = IF ok THEN [@ EXCEPT !.tcp = 0, !.measured = TRUE]
                                  ELSE [@ EXCEPT !.tcp = Cooldown]]

\* Only a success of the handshake is remembered.
RecordTLSSuccess(e, ok) ==
  health' = [health EXCEPT ![e] = IF ok THEN [@ EXCEPT !.tls = 0, !.verified = TRUE] ELSE @]

\* RecordTLS: the outcome of a verified handshake.
RecordTLS(e, ok) ==
  health' = [health EXCEPT ![e] = IF ok THEN [@ EXCEPT !.tls = 0, !.verified = TRUE]
                                  ELSE [@ EXCEPT !.tls = Cooldown]]

Less(n) == IF n > 0 THEN n - 1 ELSE 0

\* A tick of the clock for what is remembered.
HealthTick == health' = [e \in Edges |-> [health[e] EXCEPT !.tcp = Less(@), !.tls = Less(@)]]

=============================================================================
