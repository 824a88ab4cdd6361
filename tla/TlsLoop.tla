------------------------------ MODULE TlsLoop -------------------------------
(***************************************************************************)
(* tunnel_loop of src/runtime.cpp: both ends of one connection of the tls  *)
(* transport.  Records wait in a bounded, delay-limited queue, are written *)
(* one by one with SSL_write_ex and decoded at the other end by            *)
(* RecordDecoder::feed (src/record.cpp).                                   *)
(*                                                                         *)
(* A turn of the loop is one step: the thread shares nothing but the two   *)
(* directions of the socket, reads before it writes, and what arrives or   *)
(* is taken meanwhile could as well have been before or after the turn.    *)
(*                                                                         *)
(* SSL_write_ex (external) takes a record whole or, with a full socket,    *)
(* keeps its ciphertext and wants to be called again with the same buffer. *)
(* The loop may have dropped that record by then.  The next front lies     *)
(* elsewhere, which ends the session, unless it was allocated after the    *)
(* drop and got the freed address: then the kept ciphertext goes out in    *)
(* its place, followed by the rest of it when it is longer.                *)
(***************************************************************************)
EXTENDS Naturals, Sequences

CONSTANTS QueueLimit,     \* cfg.queue_packets (records have one size for the limit)
          QueueDelay,     \* cfg.queue_delay_ms, in ticks
          Batch,          \* cfg.batch_packets
          Socket,         \* records the socket takes before the peer reads
          KeepAlive,      \* cfg.keepalive_sec, in ticks
          ProbeInterval,  \* cfg.rtt_probe_sec, in ticks
          Idle,           \* cfg.idle_timeout_sec, in ticks
          Probing,        \* ends with probes switched on
          Senders,        \* ends whose TUN delivers packets
          MaxPackets,     \* bound on packets read from TUN, per sender
          MaxTime         \* bound on the clock

ASSUME TlsLoopAssumption ==
  /\ QueueLimit \in Nat \ {0} /\ QueueDelay \in Nat /\ Batch \in Nat \ {0} /\ Socket \in Nat \ {0}
  /\ KeepAlive \in Nat \ {0} /\ ProbeInterval \in Nat \ {0} /\ Idle \in Nat
  /\ Probing \subseteq {"client", "server"} /\ Senders \subseteq {"client", "server"}
  /\ MaxPackets \in Nat /\ MaxTime \in Nat

Ends == {"client", "server"}
Peer(e) == IF e = "client" THEN "server" ELSE "client"

VARIABLES now,
          turned,     \* ends whose loop has turned, and read all, in this tick
          path,       \* good, or stalled: nothing arrives, not even the end of the stream
          stalls,     \* history: the path has stalled
          snd,        \* sender: q, kept (the write to repeat), wire, next, lastTx
          rcv,        \* receiver: highest_seq_, rest (an incomplete record), lastRx
          lastProbe,
          taken,      \* packets read from TUN
          delivered,  \* packets written to TUN
          torn,       \* history: a write was repeated with another record
          why         \* what ended the loop, or none

vars == <<now, turned, path, stalls, snd, rcv, lastProbe, taken, delivered, torn, why>>

NoWrite == [rec |-> [kind |-> "none"], gone |-> 0]
FreshSender == [q |-> <<>>, kept |-> NoWrite, wire |-> <<>>, next |-> 1, lastTx |-> 1]
FreshReceiver == [highest |-> 0, rest |-> FALSE, lastRx |-> 1]

Init ==
  /\ now = 1 /\ turned = {} /\ path = "good" /\ stalls = FALSE
  /\ snd = [e \in Ends |-> FreshSender] /\ rcv = [e \in Ends |-> FreshReceiver]
  /\ lastProbe = [e \in Ends |-> 1]
  /\ taken = [e \in Ends |-> 0] /\ delivered = [e \in Ends |-> <<>>]
  /\ torn = [e \in Ends |-> FALSE] /\ why = [e \in Ends |-> "none"]

Up(e) == why[e] = "none"

Least(a, b) == IF a < b THEN a ELSE b

------------------------------------------------------------------------------
\* The queue

\* The first n records leave the queue unwritten.  If SSL keeps the ciphertext of
\* the front, records numbered from here on may be allocated in its place.
DropFronts(s, n, here) ==
  [s EXCEPT !.q = SubSeq(@, n + 1, Len(@)),
            !.kept = IF n > 0 /\ @ # NoWrite /\ @.gone = 0 THEN [@ EXCEPT !.gone = here] ELSE @]

\* The delay limit at the head of the loop; times increase along the queue.
Expire(s) ==
  DropFronts(s, CHOOSE k \in 0..Len(s.q) : /\ \A i \in 1..k : now - s.q[i].at > QueueDelay
                                           /\ k < Len(s.q) => now - s.q[k + 1].at <= QueueDelay,
             s.next)

\* A bug: a record that finds the queue full does not use up a number.
EnqueueReused(s, kind, vals) ==
  LET all == s.q \o [i \in 1..Len(vals) |-> [seq |-> s.next + i - 1, kind |-> kind, val |-> vals[i], at |-> now]]
      over == IF Len(all) > QueueLimit THEN Len(all) - QueueLimit ELSE 0
  IN  DropFronts([s EXCEPT !.q = all, !.next = @ + Len(vals) - over], over, s.next)

\* encode_record and enqueue, for one value after the other: the record is
\* allocated and numbered, then the front gives way if the queue is full
\* (front_offset is always 0 here, so nothing protects it).
Enqueue(s, kind, vals) ==
  LET all == s.q \o [i \in 1..Len(vals) |-> [seq |-> s.next + i - 1, kind |-> kind, val |-> vals[i], at |-> now]]
      over == IF Len(all) > QueueLimit THEN Len(all) - QueueLimit ELSE 0
  IN  DropFronts([s EXCEPT !.q = all, !.next = @ + Len(vals)], over,
                 s.next + QueueLimit - Len(s.q) + 1)

------------------------------------------------------------------------------
\* RecordDecoder::feed and the callback.  d is [s, r, out, err]: the own sender
\* (a PING is answered), the receiver, the packets for TUN, and the error.

Decode(d, x) ==
  IF d.err # "none" THEN d
  ELSE IF d.r.rest \/ x.kind = "rest wrong" THEN [d EXCEPT !.err = "mismatch"]
  ELSE IF x.kind = "rest short" THEN [d EXCEPT !.r.rest = TRUE]
  ELSE IF x.seq <= d.r.highest THEN [d EXCEPT !.err = "replay"]
  ELSE [d EXCEPT !.r.highest = x.seq,
                 !.out = IF x.kind = "data" THEN Append(@, x.val) ELSE @,
                 !.s = IF x.kind = "ping" THEN Enqueue(@, "pong", <<x.val>>) ELSE @]

\* A bug: every turn counts as having heard of the peer.
ReadAllHeard(s, r, xs) ==
  LET d[i \in 0..Len(xs)] ==
        IF i = 0 THEN [s |-> s, r |-> [r EXCEPT !.lastRx = now], out |-> <<>>, err |-> "none"]
        ELSE Decode(d[i - 1], xs[i])
  IN  d[Len(xs)]

\* SSL_read_ex until nothing more has arrived.
ReadAll(s, r, xs) ==
  LET d[i \in 0..Len(xs)] ==
        IF i = 0 THEN [s |-> s, r |-> IF xs = <<>> THEN r ELSE [r EXCEPT !.lastRx = now],
                       out |-> <<>>, err |-> "none"]
        ELSE Decode(d[i - 1], xs[i])
  IN  d[Len(xs)]

------------------------------------------------------------------------------
\* Timers

ProbeDue(e) == e \in Probing /\ now - lastProbe[e] >= ProbeInterval

Probe(e, s) == IF ProbeDue(e) THEN Enqueue(s, "ping", <<0>>) ELSE s

\* A bug: an end that probes sends no keep-alives.
SendKeepAliveOrProbe(e, s) ==
  IF e \notin Probing /\ s.q = <<>> /\ now - s.lastTx >= KeepAlive
  THEN Enqueue(s, "keepalive", <<0>>) ELSE s

SendKeepAlive(e, s) ==
  IF s.q = <<>> /\ now - s.lastTx >= KeepAlive THEN Enqueue(s, "keepalive", <<0>>) ELSE s

------------------------------------------------------------------------------
\* flush_tls

Sizes == [keepalive |-> 1, ping |-> 2, pong |-> 2, data |-> 3]

OnWire(x) == [seq |-> x.seq, kind |-> x.kind, val |-> x.val]

\* SSL_write_ex until the batch is out or the socket is full.  What SSL keeps
\* from an earlier call goes out for the front; what finds no room is kept.
WriteBatch(s, n) ==
  LET items == [i \in 1..Least(n, Len(s.q)) |->
                  IF i = 1 /\ s.kept # NoWrite THEN s.kept.rec ELSE OnWire(s.q[i])]
      room == IF Len(s.wire) < Socket THEN Socket - Len(s.wire) ELSE 0
      w == Least(Len(items), room)
  IN  [s EXCEPT !.q = SubSeq(@, w + 1, Len(@)), !.wire = @ \o SubSeq(items, 1, w),
                !.kept = IF w < Len(items) THEN [rec |-> items[w + 1], gone |-> 0] ELSE NoWrite,
                !.lastTx = IF w > 0 THEN now ELSE @]

\* The front is not the record SSL keeps.
OtherBuffer(s) == s.kept.gone # 0

\* It may have the same address if it was allocated after the other was freed.
SameAddress(s) == Head(s.q).seq >= s.kept.gone

\* What is left over of a longer front: enough for a header that does not match,
\* or less, and then the next record does not match.
Leftover(s) ==
  IF Sizes[Head(s.q).kind] > Sizes[s.kept.rec.kind] \/ Head(s.q).kind = "data"
  THEN {<<[kind |-> "rest wrong"]>>, <<[kind |-> "rest short"]>>} ELSE {}

\* Same length: the kept ciphertext stands for the front.
Replaced(s) == IF Sizes[Head(s.q).kind] = Sizes[s.kept.rec.kind] THEN {<<>>} ELSE {}

\* The senders flush_tls may leave behind; an empty set if it can only throw.
Flushed(s) ==
  IF s.q = <<>> THEN {s}
  ELSE IF ~OtherBuffer(s) THEN {WriteBatch(s, Batch)}
  ELSE IF ~SameAddress(s) THEN {}
  ELSE IF Len(s.wire) >= Socket THEN {[s EXCEPT !.kept.gone = 0]}
  ELSE {WriteBatch([WriteBatch(s, 1) EXCEPT !.wire = @ \o rest], Batch - 1) : rest \in Replaced(s) \cup Leftover(s)}

------------------------------------------------------------------------------
\* One turn of the loop

\* The loop's own state is gone with it; what the socket took still arrives.
Throw(e, reason) ==
  /\ why' = [why EXCEPT ![e] = reason]
  /\ snd' = [snd EXCEPT ![e] = [FreshSender EXCEPT !.wire = snd[e].wire]]
  /\ rcv' = [rcv EXCEPT ![e] = FreshReceiver]
  /\ lastProbe' = [lastProbe EXCEPT ![e] = 1] /\ turned' = turned \ {e}
  /\ UNCHANGED <<now, path, stalls, taken, delivered, torn>>

\* After the delay limit, a burst of n packets and k records read.
AfterRead(e, n, k) ==
  LET burst == [i \in 1..n |-> taken[e] + i]
  IN  ReadAll(Enqueue(Expire(snd[e]), "data", burst), rcv[e], SubSeq(snd[Peer(e)].wire, 1, k))

AfterTimers(e, d) == SendKeepAlive(e, Probe(e, d.s))

\* The peer's end of the stream arrives behind its last record.
Closed(e, k) == path = "good" /\ ~Up(Peer(e)) /\ k = Len(snd[Peer(e)].wire)

IdleFor(r) == now - r.lastRx > Idle

Turn(e) ==
  /\ Up(e)
  /\ \E n \in 0..(IF e \in Senders THEN Batch ELSE 0),
        k \in 0..(IF path = "good" THEN Len(snd[Peer(e)].wire) ELSE 0) :
     /\ taken[e] + n <= MaxPackets
     /\ \E d \in {AfterRead(e, n, k)} :
        IF d.err # "none" THEN Throw(e, d.err)
        ELSE IF Closed(e, k) THEN Throw(e, "closed")
        ELSE \E s \in {AfterTimers(e, d)} :
          \/ s.q # <<>> /\ OtherBuffer(s) /\ Throw(e, "bad write retry")
          \/ \E t \in Flushed(s) :
               /\ snd' = [snd EXCEPT ![e] = t, ![Peer(e)].wire = SubSeq(@, k + 1, Len(@))]
               /\ torn' = [torn EXCEPT ![e] = @ \/ (s.q # <<>> /\ OtherBuffer(s))]
               /\ rcv' = [rcv EXCEPT ![e] = d.r]
               /\ delivered' = [delivered EXCEPT ![e] = @ \o d.out]
               /\ taken' = [taken EXCEPT ![e] = @ + n]
               /\ lastProbe' = IF ProbeDue(e) THEN [lastProbe EXCEPT ![e] = now] ELSE lastProbe
               /\ turned' = IF path = "stalled" \/ k = Len(snd[Peer(e)].wire)
                            THEN turned \cup {e} ELSE turned
               /\ why' = IF IdleFor(d.r) THEN [why EXCEPT ![e] = "idle timeout"] ELSE why
               /\ UNCHANGED <<now, path, stalls>>

\* Socket error, a reconnect command, a TUN error, stop.
Fail(e) == Up(e) /\ Throw(e, "failed")

\* A tick is longer than a turn.
Tick ==
  /\ now < MaxTime /\ \A e \in Ends : Up(e) => e \in turned
  /\ now' = now + 1 /\ turned' = {}
  /\ UNCHANGED <<path, stalls, snd, rcv, lastProbe, taken, delivered, torn, why>>

\* The path stalls once, for any time.
PathStalls ==
  /\ ~stalls /\ path' = "stalled" /\ stalls' = TRUE
  /\ UNCHANGED <<now, turned, snd, rcv, lastProbe, taken, delivered, torn, why>>

PathResumes ==
  /\ path = "stalled" /\ path' = "good"
  /\ UNCHANGED <<now, turned, stalls, snd, rcv, lastProbe, taken, delivered, torn, why>>

Next == Tick \/ PathStalls \/ PathResumes \/ \E e \in Ends : Turn(e) \/ Fail(e)

Spec == Init /\ [][Next]_vars

\* Both loops turn, with poll timeouts of at most 10 ms, and time passes.  The
\* path may stay stalled for ever.
Fairness == WF_vars(Tick) /\ \A e \in Ends : WF_vars(e \notin turned /\ Turn(e))

FairSpec == Spec /\ Fairness

------------------------------------------------------------------------------
\* Whatever the queue limit, the delay limit and repeated writes drop or
\* substitute, the peer's decoder never reports an honest end: no number comes
\* twice or late, and a record is malformed only when a write was repeated with
\* another buffer.  Packets come out of the other TUN in order, none twice.
StreamHonest ==
  \A e \in Ends :
    /\ why[e] # "replay" /\ (why[e] = "mismatch" => torn[Peer(e)])
    /\ \A i, j \in 1..Len(delivered[e]) : i < j => delivered[e][i] < delivered[e][j]
    /\ \A i \in 1..Len(delivered[e]) : delivered[e][i] <= taken[Peer(e)]

\* A tunnel with little or no traffic is kept: the idle timeout never ends a
\* session whose path has not stalled and whose peer is up, where it leaves a tick
\* for a keep-alive to arrive, which validation does not ask for.
QuietKept ==
  KeepAlive + 1 <= Idle => \A e \in Ends : why[e] = "idle timeout" => stalls \/ ~Up(Peer(e))

\* When one end is gone, the other one notices, also when the end of the stream
\* never arrives: it is not left with a tunnel to nobody.
EndNoticed ==
  \A e \in Ends : (~Up(e) /\ now + Idle + 1 <= MaxTime) ~> ~Up(Peer(e))
=============================================================================
