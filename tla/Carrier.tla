------------------------------ MODULE Carrier -------------------------------
(***************************************************************************)
(* carrier_tunnel_loop of src/runtime.cpp at both ends of one WebSocket    *)
(* connection: packets from TUN wait in the flow scheduler, are sealed     *)
(* into records with increasing sequence numbers, wait in the bounded and  *)
(* delay-limited record queue q, are batched into one message at a time    *)
(* and handed to the socket.  The other end decodes (src/record.cpp,       *)
(* feed_aead), answers probes, and a watchdog ends a session whose probe   *)
(* stays unanswered.                                                       *)
(*                                                                         *)
(* A turn of the loop is the phases head, tun, read and timers.  Records   *)
(* have one size, so the limits in bytes and in packets are one limit.     *)
(* The flow scheduler is a queue here; FlowQueue models it.  WebSocket     *)
(* ping and pong frames are left out.                                      *)
(***************************************************************************)
EXTENDS Naturals, Sequences

CONSTANTS Setups,         \* the sessions to look at: cfg.flow_scheduler, and the bounds on packets
                          \* read from TUN and on records sealed before keep-alives stop, per end
          Shaping,        \* cfg.traffic_shaping
          QueueLimit,     \* cfg.queue_packets
          QueueDelay,     \* cfg.queue_delay_ms, in ticks
          BatchSizes,     \* results of effective_batch_packets
          Batch,          \* cfg.batch_packets
          BatchBytes,     \* cfg.batch_bytes, in records
          ReadBudget,     \* packets read from TUN in a turn: read_budget
          Socket,         \* messages the socket takes before the peer reads
          ProbeInterval,  \* ticks between probes
          ReplyTimeout,   \* cfg.reply_timeout_sec, in ticks
          Active,         \* ends whose traffic and probes are followed; the other answers
          MaxTime         \* bound on the clock

ASSUME CarrierAssumption ==
  /\ Setups \subseteq [scheduler : BOOLEAN, packets : Nat, records : Nat] /\ Shaping \in BOOLEAN
  /\ QueueLimit \in Nat \ {0} /\ QueueDelay \in Nat
  /\ BatchSizes \subseteq Nat \ {0}
  /\ Batch \in Nat \ {0} /\ BatchBytes \in Nat \ {0} /\ ReadBudget \in Nat \ {0}
  /\ Socket \in Nat \ {0} /\ ProbeInterval \in Nat \ {0} /\ ReplyTimeout \in Nat \ {0}
  /\ Active \subseteq {"client", "server"}
  /\ MaxTime \in Nat

Ends == {"client", "server"}
Peer(e) == IF e = "client" THEN "server" ELSE "client"

VARIABLES setup,
          now,
          pc,         \* phase of the loop, or down
          snd,        \* sender: pend, q, tx, wire (towards the peer), next
          rx,         \* records of the message being decoded
          generated,  \* control_generated
          highest,    \* the decoder's highest_seq_
          probe,      \* the watchdog's token_, 0 for none
          lastProbe,
          taken,      \* packets read from TUN
          delivered,  \* packets written to TUN
          why         \* what ended the loop

vars == <<setup, now, pc, snd, rx, generated, highest, probe, lastProbe, taken, delivered, why>>

Init ==
  /\ setup \in Setups /\ now = 1
  /\ pc = [e \in Ends |-> "head"]
  /\ snd = [e \in Ends |-> [pend |-> <<>>, q |-> <<>>, tx |-> <<>>, wire |-> <<>>, next |-> 1]]
  /\ rx = [e \in Ends |-> <<>>] /\ generated = [e \in Ends |-> FALSE]
  /\ highest = [e \in Ends |-> 0]
  /\ probe = [e \in Ends |-> 0] /\ lastProbe = [e \in Ends |-> 0]
  /\ taken = [e \in Ends |-> 0] /\ delivered = [e \in Ends |-> <<>>]
  /\ why = [e \in Ends |-> "none"]

scheduled == setup.scheduler

Least(a, b) == IF a < b THEN a ELSE b

------------------------------------------------------------------------------
\* The sender

\* A bug: new records go ahead of the waiting ones.
EnqueuedAhead(s, recs) == SubSeq(recs \o s, 1, Least(QueueLimit, Len(s) + Len(recs)))

\* enqueue, for one record after the other: while the queue is full its front
\* is dropped.
Enqueued(s, recs) ==
  LET all == s \o recs
  IN  IF Len(all) <= QueueLimit THEN all
      ELSE SubSeq(all, Len(all) - QueueLimit + 1, Len(all))

\* encode gives every record the next sequence number, sent or not.
Sealed(s, kind, vals) ==
  [s EXCEPT !.next = @ + Len(vals),
            !.q = Enqueued(@, [i \in 1..Len(vals) |->
                    [seq |-> s.next + i - 1, kind |-> kind, val |-> vals[i], at |-> now]])]

EnqueueControl(s, kind, val) == Sealed(s, kind, <<val>>)

\* The socket takes the message in tx when it has room.
FlushTransport(s) ==
  IF s.tx # <<>> /\ Len(s.wire) < Socket
  THEN [s EXCEPT !.wire = Append(@, s.tx), !.tx = <<>>]
  ELSE s

\* flush_carrier with a batch of at most n; 0 when shaping holds the data back.
FlushCarrierBy(s, n) ==
  LET f == FlushTransport(s)
      k == Least(Least(n, BatchBytes), Len(f.q))
  IN  IF f.tx # <<>> \/ k = 0 THEN f
      ELSE FlushTransport([f EXCEPT !.tx = SubSeq(f.q, 1, k), !.q = SubSeq(f.q, k + 1, Len(f.q))])

AllPayload(s) == \A i \in 1..Len(s.q) : s.q[i].kind = "data"

\* BurstShaper.ready lets data go after at most 10 ms, less than a tick; what the
\* last tick brings is not held.
MayHold(s) == Shaping /\ AllPayload(s) /\ s.q # <<>> /\ now - Head(s.q).at = 0 /\ now < MaxTime

\* The bound variable makes TLC evaluate the sender once.
FlushCarrier(sender) ==
  UNION {{FlushCarrierBy(s, n) : n \in BatchSizes \cup (IF MayHold(s) THEN {0} ELSE {})}
         : s \in {sender}}

\* A bug: full queues stop the draining also while no record is waiting.
DrainedUntilFull(s) ==
  IF Len(s.q) + Len(s.pend) >= QueueLimit THEN 0 ELSE Least(Batch, Len(s.pend))

\* How many packets drain_pending moves: the batch, unless the queues are full.
Drained(s) ==
  LET total == Len(s.q) + Len(s.pend)
      stop(i) == total >= QueueLimit /\ Len(s.q) + i >= QueueLimit \div 2
  IN  CHOOSE k \in 0..Least(Batch, Len(s.pend)) :
        /\ \A i \in 0..(k - 1) : ~stop(i)
        /\ k = Least(Batch, Len(s.pend)) \/ stop(k)

\* A bug: the last packet taken stays in the flow scheduler.
DrainAgain(s) ==
  IF ~scheduled \/ s.pend = <<>> \/ (s.tx # <<>> /\ Len(s.q) > 2 * BatchBytes) \/ Drained(s) = 0
  THEN s
  ELSE [Sealed(s, "data", SubSeq(s.pend, 1, Drained(s)))
          EXCEPT !.pend = SubSeq(@, Drained(s), Len(@))]

DrainPending(s) ==
  IF ~scheduled \/ s.pend = <<>> \/ (s.tx # <<>> /\ Len(s.q) > 2 * BatchBytes) THEN s
  ELSE [Sealed(s, "data", SubSeq(s.pend, 1, Drained(s)))
          EXCEPT !.pend = SubSeq(@, Drained(s) + 1, Len(@))]

------------------------------------------------------------------------------
\* The loop

Goto(e, phase) == pc' = [pc EXCEPT ![e] = phase]

Throw(e, reason) ==
  /\ Goto(e, "down") /\ why' = [why EXCEPT ![e] = reason]
  /\ UNCHANGED <<setup, now, snd, rx, generated, highest, probe, lastProbe, taken, delivered>>

Sets(e, set) == \E s \in set : snd' = [snd EXCEPT ![e] = s]

\* A bug: the age is taken at the last probe instead of now.
OverdueAtProbe(e) == probe[e] # 0 /\ lastProbe[e] - probe[e] >= ReplyTimeout

Overdue(e) == probe[e] # 0 /\ now - probe[e] >= ReplyTimeout

ReplyTimedOut(e) == pc[e] = "head" /\ Overdue(e) /\ Throw(e, "reply timeout")

\* Records at the front that waited too long are dropped, packets in the flow
\* scheduler as well (some prefix of them: their times are not kept here).
Expired(s) ==
  LET fresh == {i \in 1..Len(s) : now - s[i].at <= QueueDelay}
  IN  IF fresh = {} THEN <<>> ELSE SubSeq(s, CHOOSE i \in fresh : \A j \in fresh : i <= j, Len(s))

HeadPhase(e) ==
  /\ pc[e] = "head" /\ ~Overdue(e)
  /\ \E late \in 0..Len(snd[e].pend) :
       LET fresh == [snd[e] EXCEPT !.q = Expired(@), !.pend = SubSeq(@, late + 1, Len(@))]
       IN  Sets(e, FlushCarrier(DrainPending(FlushTransport(fresh))))
  /\ Goto(e, "tun")
  /\ UNCHANGED <<setup, now, rx, generated, highest, probe, lastProbe, taken, delivered, why>>

\* A burst of n packets.  The flow scheduler refuses what finds no room.
TunPhase(e) ==
  /\ pc[e] = "tun"
  /\ \E n \in 0..(IF e \in Active THEN Least(ReadBudget, setup.packets - taken[e]) ELSE 0) :
       LET burst == [i \in 1..n |-> taken[e] + i]
           s == FlushTransport(snd[e])
           free == IF Len(s.q) + Len(s.pend) < QueueLimit THEN QueueLimit - Len(s.q) - Len(s.pend) ELSE 0
           queued == [s EXCEPT !.pend = @ \o SubSeq(burst, 1, Least(n, free))]
       IN  /\ taken' = [taken EXCEPT ![e] = @ + n]
           /\ Sets(e, IF n = 0 THEN {s}
                      ELSE FlushCarrier(IF scheduled THEN DrainPending(queued)
                                        ELSE Sealed(s, "data", burst)))
  /\ Goto(e, "read")
  /\ UNCHANGED <<setup, now, rx, generated, highest, probe, lastProbe, delivered, why>>

\* A message has arrived.
ReadMessage(e) ==
  /\ pc[e] = "read" /\ rx[e] = <<>> /\ snd[Peer(e)].wire # <<>>
  /\ rx' = [rx EXCEPT ![e] = Head(snd[Peer(e)].wire)]
  /\ snd' = [snd EXCEPT ![Peer(e)].wire = Tail(@)]
  /\ generated' = [generated EXCEPT ![e] = FALSE]
  /\ UNCHANGED <<setup, now, pc, highest, probe, lastProbe, taken, delivered, why>>

\* feed_aead refuses a sequence number that does not increase.
Replayed(e) == Head(rx[e]).seq <= highest[e]

\* watchdog.reply: only the pending probe's own pong counts.
Answered(e, r) == IF r.val = probe[e] /\ now >= r.val THEN 0 ELSE probe[e]

\* A record that decodes: a packet for TUN, a probe to answer, or a pong.
Accepted(e) ==
  /\ LET r == Head(rx[e])
         ping == r.kind = "ping"
         s == IF ping THEN EnqueueControl(snd[e], "pong", r.val) ELSE snd[e]
     IN  /\ highest' = [highest EXCEPT ![e] = r.seq]
         /\ delivered' = IF r.kind = "data" THEN [delivered EXCEPT ![e] = Append(@, r.val)]
                         ELSE delivered
         /\ probe' = IF r.kind = "pong" THEN [probe EXCEPT ![e] = Answered(e, r)] ELSE probe
         /\ generated' = [generated EXCEPT ![e] = @ \/ ping]
         /\ Sets(e, IF Len(rx[e]) = 1 /\ (ping \/ generated[e]) THEN FlushCarrier(s) ELSE {s})
  /\ rx' = [rx EXCEPT ![e] = Tail(@)]
  /\ UNCHANGED <<setup, now, pc, lastProbe, taken, why>>

ReadRecord(e) ==
  /\ pc[e] = "read" /\ rx[e] # <<>>
  /\ IF Replayed(e) THEN Throw(e, "replay") ELSE Accepted(e)

\* Nothing more has arrived.
ReadPhaseEnds(e) ==
  /\ pc[e] = "read" /\ rx[e] = <<>>
  /\ Sets(e, {FlushTransport(snd[e])})
  /\ Goto(e, "timers")
  /\ UNCHANGED <<setup, now, rx, generated, highest, probe, lastProbe, taken, delivered, why>>

ProbeDue(e) ==
  /\ probe[e] = 0 /\ now - lastProbe[e] >= ProbeInterval
  /\ e \in Active /\ now + ReplyTimeout <= MaxTime

\* A keep-alive is due after a time without sending, which is left open.
MayKeepAlive(s) == s.q = <<>> /\ s.pend = <<>> /\ s.tx = <<>> /\ s.next < setup.records

TimersPhase(e) ==
  /\ pc[e] = "timers"
  /\ \E probed \in (IF ProbeDue(e) THEN FlushCarrier(EnqueueControl(snd[e], "ping", now))
                    ELSE {snd[e]}) :
     \E kept \in {probed} \cup (IF MayKeepAlive(probed)
                                THEN FlushCarrier(EnqueueControl(probed, "keepalive", 0)) ELSE {}) :
       LET s == DrainPending(kept)
       IN  Sets(e, IF s.q # <<>> THEN FlushCarrier(s) ELSE {s})
  /\ probe' = IF ProbeDue(e) THEN [probe EXCEPT ![e] = now] ELSE probe
  /\ lastProbe' = IF ProbeDue(e) THEN [lastProbe EXCEPT ![e] = now] ELSE lastProbe
  /\ Goto(e, "head")
  /\ UNCHANGED <<setup, now, rx, generated, highest, taken, delivered, why>>

\* The peer closed and nothing is left to read.
PeerClosed(e) ==
  /\ pc[e] = "read" /\ pc[Peer(e)] = "down" /\ rx[e] = <<>> /\ snd[Peer(e)].wire = <<>>
  /\ Throw(e, "closed")

\* Any other end of the session: write stall, socket error, maximum age, idle
\* timeout, reconnect by command, stop.
Fail(e) == pc[e] \in {"head", "tun", "timers"} /\ Throw(e, "failed")

Tick ==
  /\ now < MaxTime /\ now' = now + 1
  /\ UNCHANGED <<setup, pc, snd, rx, generated, highest, probe, lastProbe, taken, delivered, why>>

Loop(e) ==
  \/ ReplyTimedOut(e) \/ HeadPhase(e) \/ TunPhase(e)
  \/ ReadMessage(e) \/ ReadRecord(e) \/ ReadPhaseEnds(e) \/ PeerClosed(e)
  \/ TimersPhase(e)

Next == Tick \/ \E e \in Ends : Loop(e) \/ Fail(e)

Spec == Init /\ [][Next]_vars

\* Both loops turn, time passes, and what is on the wire, a close included, arrives.
Fairness ==
  /\ WF_vars(Tick)
  /\ \A e \in Ends : WF_vars(Loop(e)) /\ SF_vars(ReadMessage(e) \/ PeerClosed(e))

FairSpec == Spec /\ Fairness

------------------------------------------------------------------------------
\* An honest peer is never taken for a replay: whatever the queue limits, the
\* delay limit and the batching drop or hold back, sequence numbers arrive
\* strictly increasing.
NoFalseReplay == \A e \in Ends : why[e] # "replay"

\* The packets of one flow reach the other TUN in the order they were read, none
\* twice, although any of them may have been dropped on the way.
DeliveredInOrder ==
  \A e \in Ends :
    /\ \A i, j \in 1..Len(delivered[e]) : i < j => delivered[e][i] < delivered[e][j]
    /\ \A i \in 1..Len(delivered[e]) : delivered[e][i] <= taken[Peer(e)]

\* A probe does not stay open: it is answered or the session ends, also when the
\* probe or its answer was dropped in a queue.
ProbeResolved == \A e \in Ends : probe[e] # 0 ~> (probe[e] = 0 \/ pc[e] = "down")

\* The queues of a running session empty again and again.
QueuesEmpty ==
  \A e \in Ends : []<>(pc[e] = "down" \/ (snd[e].pend = <<>> /\ snd[e].q = <<>> /\ snd[e].tx = <<>>))

=============================================================================
