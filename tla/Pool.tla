-------------------------------- MODULE Pool --------------------------------
(***************************************************************************)
(* pool_tunnel_loop of src/runtime.cpp at both ends: up to MaxConnections  *)
(* WebSocket connections (lanes) between one client and one server.  The   *)
(* client dials what is missing, replaces a lane that is old, silent or    *)
(* too slow, and lets the replaced one drain; the server takes what        *)
(* admission has let in.  PoolAffinity (pool.hpp) keeps a flow on its      *)
(* lane.                                                                   *)
(*                                                                         *)
(* An action is one part of a turn of the loop.  A part acts on what the   *)
(* variables hold and passes nothing else to the next one, so the order of *)
(* the parts is left open.  A turn takes milliseconds and a tick a second, *)
(* so no tick passes while a drain that is over waits for its turn.        *)
(* next_dial and next_replacement only put a step off: they are left out.  *)
(* Lane ids are the connections: each end numbers them by itself.          *)
(* Records, probes and the scores of lanes are left out: Carrier, Padding  *)
(* and FlowQueue model what happens on a lane.                             *)
(***************************************************************************)
EXTENDS Naturals, Sequences, FiniteSets

CONSTANTS Conns,           \* names of connections
          Setups,          \* the pools to look at: bounds on the connections that exist at
                           \* once, on the flows each end's TUN has packets of, and on
                           \* failures that no end causes
          None,            \* no connection
          MaxConnections,  \* cfg.max_connections
          Flows,           \* keys of packet_flow
          Cap,             \* PoolAffinity::kCap
          QueuePackets,    \* cfg.queue_packets
          Drain,           \* cfg.pool_drain_sec, in ticks
          Grace            \* what the server waits longer, 5 seconds

Ends == {"client", "server"}

ASSUME PoolAssumption ==
  /\ IsFiniteSet(Conns) /\ None \notin Conns
  /\ MaxConnections \in Nat \ {0} /\ Cap \in Nat \ {0} /\ QueuePackets \in Nat \ {0}
  /\ Drain \in Nat \ {0} /\ Grace \in Nat \ {0}
  /\ Setups \subseteq [conns : SUBSET Conns, packets : SUBSET (Ends \X Flows), faults : Nat]

VARIABLES setup,
          lanes,      \* the lanes, per end
          draining,   \* lanes being retired
          left,       \* ticks until drain_until
          waiting,    \* packets in the lanes' queues, oldest first
          affinity,   \* flows_, in the order of last use
          dial,       \* the asynchronous task: connection and stage
          replacing,  \* the lane the dial is to replace
          claiming,   \* upgrades that a worker has finished, not claimed yet
          ready,      \* admission's ready_
          note,       \* lanes with a DRAIN record on its way
          faults

clientVars == <<dial, replacing>>
serverVars == <<claiming, ready>>
dataVars == <<waiting, affinity>>
laneVars == <<lanes, draining, left>>
vars == <<setup, laneVars, dataVars, clientVars, serverVars, note, faults>>

NoDial == [conn |-> None, stage |-> "none"]

Init ==
  /\ setup \in Setups
  /\ lanes = [e \in Ends |-> {}]
  /\ draining = [e \in Ends |-> {}] /\ left = [e \in Ends |-> [c \in Conns |-> 0]]
  /\ waiting = [e \in Ends |-> <<>>] /\ affinity = [e \in Ends |-> <<>>]
  /\ dial = NoDial /\ replacing = None
  /\ claiming = {} /\ ready = {} /\ note = {}
  /\ faults = 0

\* Where a connection is open: at the client also while it is being dialled, at
\* the server also before the loop takes it.
HasClient(c) == c \in lanes["client"] \/ (dial.conn = c /\ dial.stage # "failed")
HasServer(c) == c \in claiming \cup ready \cup lanes["server"]
Free == {c \in Conns : c \in setup.conns /\ ~HasClient(c) /\ ~HasServer(c) /\ dial.conn # c}

Fault == faults < setup.faults /\ faults' = faults + 1

------------------------------------------------------------------------------
\* Lanes come and go

Attach(e, cs) == lanes' = [lanes EXCEPT ![e] = @ \cup cs]

\* The packets that do not wait for lane c, and the sequence without its i-th element.
OffLane(s, c) ==
  LET kept[n \in 0..Len(s)] ==
        IF n = 0 THEN <<>>
        ELSE IF s[n].lane = c THEN kept[n - 1] ELSE Append(kept[n - 1], s[n])
  IN  kept[Len(s)]
Without(s, i) == SubSeq(s, 1, i - 1) \o SubSeq(s, i + 1, Len(s))

\* detach and the break after it, which ends the turn: the lane's packets are
\* dropped, and flows that name the lane will not find it among the live ones.
Detach(e, c) ==
  /\ lanes' = [lanes EXCEPT ![e] = @ \ {c}]
  /\ draining' = [draining EXCEPT ![e] = @ \ {c}]
  /\ left' = [left EXCEPT ![e][c] = 0]
  /\ waiting' = [waiting EXCEPT ![e] = OffLane(@, c)]
  /\ affinity' = [affinity EXCEPT ![e] =
       [k \in 1..Len(@) |-> IF @[k].lane = c THEN [@[k] EXCEPT !.lane = None] ELSE @[k]]]

------------------------------------------------------------------------------
\* The client dials and replaces

\* The dial failed, or it is to replace a slow lane and is not faster: the
\* candidate is closed.
HarvestFailure ==
  /\ dial.stage = "failed" \/ (dial.stage = "acked" /\ replacing # None)
  /\ dial' = NoDial /\ replacing' = None
  /\ UNCHANGED <<setup, laneVars, dataVars, serverVars, note, faults>>

\* A bug: the lane that was replaced is not retired.
KeepOld == UNCHANGED <<draining, left, note, faults>>

\* The replaced lane, if it is still there, drains, and the server is told;
\* when that cannot be sent it is closed at once.
RetireOld ==
  IF replacing \notin lanes["client"] THEN UNCHANGED <<draining, left, note, faults>>
  ELSE /\ draining' = [draining EXCEPT !["client"] = @ \cup {replacing}]
       /\ \/ /\ note' = note \cup {replacing}
             /\ left' = [left EXCEPT !["client"][replacing] = Drain]
             /\ UNCHANGED faults
          \/ /\ Fault /\ left' = [left EXCEPT !["client"][replacing] = 0]
             /\ UNCHANGED note

HarvestLane ==
  /\ dial.stage = "acked"
  /\ Attach("client", {dial.conn})
  /\ RetireOld
  /\ dial' = NoDial /\ replacing' = None
  /\ UNCHANGED <<setup, dataVars, serverVars>>

MayReplace ==
  /\ dial.stage = "none" /\ Cardinality(lanes["client"]) = MaxConnections
  /\ draining["client"] \cap lanes["client"] = {}

\* A new connection, which has no DRAIN record under way.  The free ones differ
\* only by name, so one of them stands for all.
DialStarts ==
  LET c == CHOOSE x \in Free : TRUE
  IN  Free # {} /\ dial' = [conn |-> c, stage |-> "open"] /\ note' = note \ {c}

\* A lane is to be replaced: by command, for a missing reply, for its age, or
\* because it is slow.
PlanReplacement ==
  /\ MayReplace
  /\ \E c \in lanes["client"] : replacing' = c
  /\ DialStarts
  /\ UNCHANGED <<setup, laneVars, dataVars, serverVars, faults>>

\* A bug: the client dials only when it has no lane left.
PlanDialEmpty ==
  /\ lanes["client"] = {} \/ replacing # None
  /\ dial.stage = "none"
  /\ DialStarts
  /\ UNCHANGED <<setup, laneVars, dataVars, replacing, serverVars, faults>>

PlanDial ==
  /\ Cardinality(lanes["client"]) < MaxConnections \/ replacing # None
  /\ dial.stage = "none"
  /\ DialStarts
  /\ UNCHANGED <<setup, laneVars, dataVars, replacing, serverVars, faults>>

------------------------------------------------------------------------------
\* The dialling task and admission

\* The exchange completes at the server: its acknowledgement is sent before the
\* worker claims a slot.  The client's future is ready when it has that.
UpgradeDone ==
  /\ dial.stage = "open"
  /\ dial' = [dial EXCEPT !.stage = "acked"] /\ claiming' = claiming \cup {dial.conn}
  /\ UNCHANGED <<setup, laneVars, dataVars, replacing, ready, note, faults>>

Busy == Cardinality(ready) + Cardinality(lanes["server"]) >= MaxConnections + 1

Claim(c) ==
  /\ c \in claiming /\ claiming' = claiming \ {c}
  /\ ready' = IF Busy THEN ready ELSE ready \cup {c}
  /\ UNCHANGED <<setup, laneVars, dataVars, clientVars, note, faults>>

DialFails ==
  /\ dial.stage \in {"open", "acked"} /\ Fault /\ dial' = [dial EXCEPT !.stage = "failed"]
  /\ UNCHANGED <<setup, laneVars, dataVars, replacing, serverVars, note>>

\* The server's loop takes what is ready while it has room.
TakeReady(c) ==
  /\ c \in ready /\ Cardinality(lanes["server"]) < MaxConnections + 1
  /\ Attach("server", {c}) /\ ready' = ready \ {c}
  /\ UNCHANGED <<setup, draining, left, dataVars, clientVars, claiming, note, faults>>

------------------------------------------------------------------------------
\* Packets from TUN find their lane

\* Entries that can have been idle for kIdleUS: the first k, none with a packet
\* waiting, because no packet waits that long.
Idle(e) ==
  {k \in 0..Len(affinity[e]) : \A i \in 1..k : \A j \in 1..Len(waiting[e]) :
                                 waiting[e][j].flow # affinity[e][i].flow}

Quiet == UNCHANGED <<setup, laneVars, clientVars, serverVars, note, faults>>

\* The periodic prune.
Prune(e) ==
  /\ \E k \in Idle(e) \ {0} : affinity' = [affinity EXCEPT ![e] = SubSeq(@, k + 1, Len(@))]
  /\ UNCHANGED waiting /\ Quiet

\* drop_expired on every lane: the oldest packets go.
Expire(e) ==
  /\ waiting[e] # <<>> /\ waiting' = [waiting EXCEPT ![e] = Tail(@)]
  /\ UNCHANGED affinity /\ Quiet

\* The healthiest lane that does not drain; the hash of the flow picks one
\* when all of them do.
Preferred(e) == IF lanes[e] \subseteq draining[e] THEN lanes[e] ELSE lanes[e] \ draining[e]

Named(e, f) == {affinity[e][i].lane : i \in {j \in 1..Len(affinity[e]) : affinity[e][j].flow = f}}

\* A bug: a flow leaves a lane that drains.
ChoicesMoving(e, f) ==
  IF Named(e, f) \cap (lanes[e] \ draining[e]) # {} THEN Named(e, f) ELSE Preferred(e)

\* A flow keeps its lane as long as the lane is there, draining or not.
Choices(e, f) == IF Named(e, f) \cap lanes[e] # {} THEN Named(e, f) ELSE Preferred(e)

\* PoolAffinity::choose makes room for a flow at the cap: k idle entries go,
\* else the one used least recently.
Kept(e, f, k) ==
  LET rest == SubSeq(affinity[e], k + 1, Len(affinity[e]))
  IN  IF Named(e, f) # {} THEN Without(rest, CHOOSE i \in 1..Len(rest) : rest[i].flow = f)
      ELSE IF Len(rest) >= Cap THEN Tail(rest) ELSE rest

Prunable(e, f) == IF Named(e, f) = {} /\ Len(affinity[e]) >= Cap THEN Idle(e) ELSE {0}

Remembered(s) == {s[i].flow : i \in 1..Len(s)}

\* A packet is queued on its lane, or dropped when the queues of all lanes
\* together are full; packets whose flow has lost its entry are marked.
ReadPacket(e, f) ==
  /\ <<e, f>> \in setup.packets /\ lanes[e] # {}
  /\ \E c \in Choices(e, f), k \in Prunable(e, f) :
       LET known == Append(Kept(e, f, k), [flow |-> f, lane |-> c])
           marked == [i \in 1..Len(waiting[e]) |->
                       [waiting[e][i] EXCEPT !.lost = @ \/ waiting[e][i].flow \notin Remembered(known)]]
       IN  /\ affinity' = [affinity EXCEPT ![e] = known]
           /\ waiting' = [waiting EXCEPT ![e] =
                IF Len(@) >= QueuePackets THEN marked
                ELSE Append(marked, [flow |-> f, lane |-> c, lost |-> FALSE])]
  /\ Quiet

------------------------------------------------------------------------------
\* The pass over the lanes

DrainDue(e, c) == c \in lanes[e] /\ c \in draining[e] /\ left[e][c] = 0

DrainComplete(e, c) ==
  /\ DrainDue(e, c)
  /\ Detach(e, c)
  /\ note' = IF e = "server" THEN note \ {c} ELSE note
  /\ UNCHANGED <<setup, clientVars, serverVars, faults>>

\* The other end has closed.
PeerClosed(e, c) ==
  /\ c \in lanes[e] /\ IF e = "client" THEN ~HasServer(c) ELSE ~HasClient(c)
  /\ Detach(e, c)
  /\ note' = note \ {c}
  /\ UNCHANGED <<setup, clientVars, serverVars, faults>>

\* A write stall, a reply, pong or idle timeout, a socket error, a reconnect by
\* command at the server.
LaneFails(e, c) ==
  /\ c \in lanes[e] /\ Fault
  /\ Detach(e, c)
  /\ note' = IF e = "server" THEN note \ {c} ELSE note
  /\ UNCHANGED <<setup, clientVars, serverVars>>

\* A bug: the server counts from the DRAIN record without its grace.
ServerDrainsShort == Drain

ServerDrains == Drain + Grace

\* The server obeys a DRAIN record, once.
Obey(c) ==
  /\ c \in note /\ c \in lanes["server"] /\ note' = note \ {c}
  /\ draining' = [draining EXCEPT !["server"] = @ \cup {c}]
  /\ left' = IF c \in draining["server"] THEN left
             ELSE [left EXCEPT !["server"][c] = ServerDrains]
  /\ UNCHANGED <<setup, lanes, dataVars, clientVars, serverVars, faults>>

\* The flow scheduler of a lane gives out the next packet of some flow.
Send(e, c) ==
  /\ \E i \in 1..Len(waiting[e]) :
       /\ waiting[e][i].lane = c
       /\ \A j \in 1..(i - 1) : waiting[e][j] # waiting[e][i]
       /\ waiting' = [waiting EXCEPT ![e] = Without(@, i)]
  /\ UNCHANGED affinity /\ Quiet

\* Time passes slowly enough for the loops to end the drains that are over.
Tick ==
  /\ \E e \in Ends, c \in Conns : left[e][c] > 0
  /\ \A e \in Ends, c \in Conns : ~DrainDue(e, c)
  /\ left' = [e \in Ends |-> [c \in Conns |-> IF left[e][c] > 0 THEN left[e][c] - 1 ELSE 0]]
  /\ UNCHANGED <<setup, lanes, draining, dataVars, clientVars, serverVars, note, faults>>

------------------------------------------------------------------------------
Loop(e, c) == DrainComplete(e, c) \/ PeerClosed(e, c) \/ LaneFails(e, c) \/ Send(e, c)

Next ==
  \/ HarvestFailure \/ HarvestLane \/ PlanReplacement \/ PlanDial
  \/ UpgradeDone \/ DialFails
  \/ \E c \in Conns : Claim(c) \/ TakeReady(c) \/ Obey(c)
  \/ \E e \in Ends : Prune(e) \/ Expire(e)
  \/ \E e \in Ends, f \in Flows : ReadPacket(e, f)
  \/ \E e \in Ends, c \in Conns : Loop(e, c)
  \/ Tick

Spec == Init /\ [][Next]_vars

\* The loops turn, the task and the workers are scheduled, timers run out, and a
\* closed connection is noticed: the pass over the lanes, which ends where one is
\* detached, detaches one of those that are due.
Fairness ==
  /\ WF_vars(HarvestFailure \/ HarvestLane) /\ WF_vars(PlanDial) /\ WF_vars(UpgradeDone) /\ WF_vars(Tick)
  /\ WF_vars(\E c \in Conns : Claim(c)) /\ WF_vars(\E c \in Conns : TakeReady(c))
  /\ \A e \in Ends : WF_vars(\E c \in Conns : DrainComplete(e, c) \/ PeerClosed(e, c))

FairSpec == Spec /\ Fairness

------------------------------------------------------------------------------
\* The client never uses more lanes than configured: what exceeds the number is
\* one lane that drains, and a replacement always has its dial under way.
PoolSize ==
  /\ Cardinality(lanes["client"]) <= MaxConnections + 1
  /\ Cardinality(lanes["client"] \ draining["client"]) <= MaxConnections
  /\ Cardinality(draining["client"]) <= 1
  /\ replacing # None => dial.stage # "none"

\* All waiting packets of a flow are on one lane, through failures, drains and
\* replacements, unless the flow's entry was evicted at the cap the table keeps to.
OneLane ==
  \A e \in Ends :
    /\ Len(affinity[e]) <= Cap
    /\ \A i, j \in 1..Len(waiting[e]) :
         /\ waiting[e][i].flow = waiting[e][j].flow /\ ~waiting[e][i].lost /\ ~waiting[e][j].lost
         => waiting[e][i].lane = waiting[e][j].lane

\* A drain ends at the client first: when the server is about to close a lane
\* because its drain is over, the client no longer sends on it.  In particular
\* the server drains only lanes that the client retires.
ClientClosesFirst == \A c \in Conns : DrainDue("server", c) => c \notin lanes["client"]

\* "pool did not refill after lane loss": once lanes are no longer being replaced,
\* the client has all its lanes again and again, and each is a lane of the server.
PoolRefills ==
  <>[](replacing = None) =>
  []<>(/\ Cardinality(lanes["client"] \ draining["client"]) = MaxConnections
       /\ lanes["client"] \subseteq lanes["server"])
=============================================================================
