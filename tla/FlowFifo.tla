------------------------------ MODULE FlowFifo ------------------------------
(***************************************************************************)
(* What a flow queue promises, without its cursors, classes or pruning:    *)
(* one FIFO line per flow.  A packet is accepted only when it fits the     *)
(* packet and byte limits, leaves only at the head of its own line, either *)
(* delivered or, older than the delay limit, dropped.                      *)
(***************************************************************************)
EXTENDS Naturals, Sequences, FiniteSets

CONSTANTS Flows,       \* the flow keys
          Ids,         \* identities that tell the queued packets apart
          Sizes,       \* packet sizes in bytes
          MaxPackets,  \* limit on packets held
          MaxBytes,    \* limit on bytes held
          Ttl          \* a packet older than this is dropped

VARIABLE line  \* [Flows -> Seq(packet)]

Packet == [id : Ids, size : Sizes, age : 0..(Ttl + 1)]

\* The places taken in the lines, and the bytes in them.
Slots == UNION {{k} \X DOMAIN line[k] : k \in Flows}
Octets == UNION {{x} \X (1..line[x[1]][x[2]].size) : x \in Slots}
Fits(p) == Cardinality(Slots) < MaxPackets /\ Cardinality(Octets) + p.size <= MaxBytes

FifoInit == line = [k \in Flows |-> <<>>]

Accept(k) ==
  /\ Len(line'[k]) = Len(line[k]) + 1
  /\ \E p \in Packet : Fits(p) /\ line' = [line EXCEPT ![k] = Append(@, p)]

Deliver(k) ==
  /\ line[k] # <<>>
  /\ line' = [line EXCEPT ![k] = Tail(@)]

\* Every packet past its time leaves, and no other; they are the first of a line.
DropOld ==
  /\ line' = [k \in Flows |-> line'[k]]
  /\ \A k \in Flows : \E n \in 0..Len(line[k]) :
       /\ \A i \in 1..Len(line[k]) : line[k][i].age > Ttl <=> i <= n
       /\ line'[k] = SubSeq(line[k], n + 1, Len(line[k]))

Older(p) == IF p.age > Ttl THEN p ELSE [p EXCEPT !.age = @ + 1]

Age == line' = [k \in Flows |-> [i \in DOMAIN line[k] |-> Older(line[k][i])]]

FifoNext ==
  \/ \E k \in Flows : Accept(k) \/ Deliver(k)
  \/ DropOld
  \/ Age

FifoSpec == FifoInit /\ [][FifoNext]_line
=============================================================================
