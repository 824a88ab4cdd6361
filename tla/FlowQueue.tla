------------------------------ MODULE FlowQueue -----------------------------
(***************************************************************************)
(* The plaintext packet queue of a lane (include/pacetun/                  *)
(* flow_scheduler.hpp, class FlowQueue): a vector of flow entries served   *)
(* round robin, two interactive turns for one bulk turn, with byte and     *)
(* packet limits, expiry, and lazy pruning of entries that became empty.   *)
(*                                                                         *)
(* A packet carries its age instead of its enqueue stamp: the code only    *)
(* compares now - enqueued_us with the time to live, on a monotone clock.  *)
(***************************************************************************)
EXTENDS Naturals, Sequences, FiniteSetsExt, Functions

CONSTANTS Flows,           \* flow keys (detail::PacketFlow)
          Ids,             \* identities that tell the queued packets apart
          Sizes,           \* packet sizes in bytes
          InteractiveMax,  \* a flow opened by a packet this small is interactive
          MaxPackets,      \* max_packets of push
          MaxBytes,        \* max_bytes of push
          PruneSlack,      \* empty entries tolerated beyond packets_ (32)
          Ttl              \* ttl of drop_expired, in ticks

ASSUME FlowQueueAssumption ==
  /\ Sizes \subseteq Nat /\ Flows \subseteq Nat /\ Ids \subseteq Nat
  /\ {InteractiveMax, MaxPackets, MaxBytes, PruneSlack, Ttl} \subseteq Nat
  /\ PruneSlack >= 2  \* fewer would let pruning reset the turn count for ever

VARIABLES flows,         \* flows_: Seq([key, packets, interactive])
          packets,       \* packets_
          bytes,         \* bytes_
          icursor,       \* interactive_cursor_
          bcursor,       \* bulk_cursor_
          turns          \* interactive_turns_

flowVars == <<flows, packets, bytes, icursor, bcursor, turns>>

Packet == [id : Ids, size : Sizes, age : 0..(Ttl + 1)]
Queue(fs, n, b, ic, bc, t) ==
  [flows |-> fs, packets |-> n, bytes |-> b, icursor |-> ic, bcursor |-> bc, turns |-> t]
This == Queue(flows, packets, bytes, icursor, bcursor, turns)

\* The bound variable makes TLC evaluate the new queue once.
Become(queue) == \E q \in {queue} :
  /\ flows' = q.flows /\ packets' = q.packets /\ bytes' = q.bytes
  /\ icursor' = q.icursor /\ bcursor' = q.bcursor /\ turns' = q.turns

HasPackets(f) == f.packets # <<>>

\* The entries that hold packets, in their order.
Occupied(fs) ==
  LET kept[n \in 0..Len(fs)] ==
        IF n = 0 THEN <<>>
        ELSE IF HasPackets(fs[n]) THEN Append(kept[n - 1], fs[n]) ELSE kept[n - 1]
  IN  kept[Len(fs)]

Clear == Queue(<<>>, 0, 0, 0, 0, 0)

\* A bug: no slack, so entries are pruned as soon as they outnumber packets.
PruneEagerly(q) ==
  IF Len(q.flows) <= q.packets THEN q
  ELSE Queue(Occupied(q.flows), q.packets, q.bytes, 0, 0, 0)

PruneIfNeeded(q) ==
  IF Len(q.flows) <= q.packets + PruneSlack THEN q
  ELSE Queue(Occupied(q.flows), q.packets, q.bytes, 0, 0, 0)

\* The tail shared by drop_expired and pop.
Settle(q) == IF q.packets = 0 THEN Clear ELSE PruneIfNeeded(q)

------------------------------------------------------------------------------
Fits(p) ==
  /\ p.size > 0 /\ packets < MaxPackets
  /\ p.size <= MaxBytes /\ bytes <= MaxBytes - p.size

WithFlow(fs, k, p) ==
  IF \E i \in DOMAIN fs : fs[i].key = k THEN fs
  ELSE Append(fs, [key |-> k, packets |-> <<>>, interactive |-> p.size <= InteractiveMax])

Pushed(q, k, p) ==
  LET fs == WithFlow(q.flows, k, p)
      i  == CHOOSE j \in DOMAIN fs : fs[j].key = k
  IN Queue([fs EXCEPT ![i].packets = Append(@, p)], q.packets + 1, q.bytes + p.size,
           q.icursor, q.bcursor, q.turns)

Queued == UNION {{f.packets[i].id : i \in DOMAIN f.packets} : f \in Range(flows)}

\* Names only tell apart what is present, so new ones are given out in order.
Lowest(S) == {x \in S : \A y \in S : x <= y}
Known == {f.key : f \in Range(flows)}

Push(k, p) ==
  /\ k \in Known \cup Lowest(Flows \ Known) /\ p.id \in Lowest(Ids \ Queued) /\ p.age = 0
  /\ IF Fits(p) THEN Become(Pushed(PruneIfNeeded(This), k, p)) ELSE Become(This)

------------------------------------------------------------------------------
\* A bug: a packet exactly at the limit is already dropped.
ExpiredAtLimit(s) == Max({n \in 0..Len(s) : \A i \in 1..n : s[i].age >= Ttl})

\* Number of packets drop_expired takes from the front of one flow.
ExpiredPrefix(s) == Max({n \in 0..Len(s) : \A i \in 1..n : s[i].age > Ttl})

\* What drop_expired leaves before it clears or prunes.
Dropped ==
  LET gone    == [i \in DOMAIN flows |-> ExpiredPrefix(flows[i].packets)]
      kept    == [i \in DOMAIN flows |->
                   [flows[i] EXCEPT !.packets = SubSeq(@, gone[i] + 1, Len(@))]]
      dropped == UNION {{i} \X (1..gone[i]) : i \in DOMAIN flows}
      octets  == UNION {{x} \X (1..flows[x[1]].packets[x[2]].size) : x \in dropped}
  IN Queue(kept, packets - Cardinality(dropped), bytes - Cardinality(octets), icursor, bcursor, turns)

DropExpired == Become(Settle(Dropped))

------------------------------------------------------------------------------
\* Index (from 0) of the first flow of a class with a packet, from a cursor
\* round; Len(flows) when there is none.
Take(interactive, cursor) ==
  LET n     == Len(flows)
      at(v) == (cursor + v) % n
      hits  == {v \in 0..(n - 1) : /\ flows[at(v) + 1].interactive = interactive
                                   /\ HasPackets(flows[at(v) + 1])}
  IN IF hits = {} THEN n ELSE at(Min(hits))

\* Which flow pop serves, and the turn count and class it leaves.
Choice ==
  LET n == Len(flows)
      i == Take(TRUE, icursor)
      b == Take(FALSE, bcursor)
  IN IF turns < 2 /\ i # n THEN [index |-> i, interactive |-> TRUE, turns |-> turns + 1]
     ELSE IF b # n THEN [index |-> b, interactive |-> FALSE, turns |-> 0]
     ELSE [index |-> i, interactive |-> TRUE, turns |-> 1]

\* The queue after the chosen flow's packet left, bytes b remaining: the cursor of
\* the class served moves past the flow.
Served(q, c, b) ==
  LET next == (c.index + 1) % Len(q.flows)
  IN Queue([q.flows EXCEPT ![c.index + 1].packets = Tail(@)], q.packets - 1, b,
           IF c.interactive THEN next ELSE q.icursor,
           IF c.interactive THEN q.bcursor ELSE next, c.turns)

\* A bug: bytes_ is not reduced by the packet that leaves.
PoppedBytesKept(q, c) == Settle(Served(q, c, q.bytes))

Popped(q, c) ==
  Settle(Served(q, c, q.bytes - Head(q.flows[c.index + 1].packets).size))

\* The callers test empty() first.  The branch that finds no flow to serve
\* returns no packet and changes nothing: a stuttering step.
Pop ==
  /\ packets # 0
  /\ \E c \in {Choice} : c.index # Len(flows) /\ Become(Popped(This, c))

------------------------------------------------------------------------------
\* Time passes between two passes of the event loop.
Older(p) == IF p.age > Ttl THEN p ELSE [p EXCEPT !.age = @ + 1]

Tick ==
  /\ flows' = [i \in DOMAIN flows |->
                [flows[i] EXCEPT !.packets = [j \in DOMAIN @ |-> Older(@[j])]]]
  /\ UNCHANGED <<packets, bytes, icursor, bcursor, turns>>

FlowInit ==
  /\ flows = <<>> /\ packets = 0 /\ bytes = 0
  /\ icursor = 0 /\ bcursor = 0 /\ turns = 0

FlowNext ==
  \/ \E k \in Flows, p \in Packet : Push(k, p)
  \/ DropExpired
  \/ Pop
  \/ Tick

FlowSpec == FlowInit /\ [][FlowNext]_flowVars

\* The event loop calls pop on every pass that can send; arrivals and expiries
\* are free.
FairFlowSpec == FlowSpec /\ WF_flowVars(Pop)

------------------------------------------------------------------------------
\* The line of each flow, as FlowFifo sees the vector of entries.
LineOf(fs, k) ==
  IF \E i \in DOMAIN fs : fs[i].key = k
  THEN fs[CHOOSE i \in DOMAIN fs : fs[i].key = k].packets
  ELSE <<>>

Fifo == INSTANCE FlowFifo WITH line <- [k \in Flows |-> LineOf(flows, k)]

\* Packets of one flow never sit in two entries, idle entries are bounded by the
\* pruning slack, the cursors stay in the vector, and packets_ and bytes_ are
\* exactly what the entries hold and within their limits, after any mix of pushes,
\* pops, expiries, prunes and clears: a drift would refuse traffic for ever, or
\* read an empty deque.
Accounting ==
  /\ packets <= MaxPackets /\ bytes <= MaxBytes
  /\ icursor \in 0..Len(flows) /\ bcursor \in 0..Len(flows)
  /\ \A i, j \in DOMAIN flows : flows[i].key = flows[j].key => i = j
  /\ Len(flows) <= packets + PruneSlack
  /\ packets = Cardinality(Fifo!Slots) /\ bytes = Cardinality(Fifo!Octets)

\* The queue implements one FIFO line per flow: nothing lost, duplicated or
\* reordered within a flow by the round robin, the pruning or the clearing, and
\* drop_expired drops every packet past its time and no other.
ImplementsFifo == Fifo!FifoSpec

\* No flow is starved by the two-to-one turns, the cursors or their resets: a
\* packet, once queued, is popped, whatever keeps arriving.
PacketLeaves == \A id \in Ids : id \in Queued ~> id \notin Queued
=============================================================================
