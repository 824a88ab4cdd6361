----------------------------- MODULE PoolProofs -----------------------------
(***************************************************************************)
(* For every number of connections, lanes, flows and queue places, and for *)
(* every drain time and grace: the pool keeps to its size, the client is   *)
(* the first to leave a lane that drains, and the packets of a flow wait   *)
(* on one lane.                                                            *)
(***************************************************************************)
EXTENDS Pool, FiniteSetTheorems, WellFoundedInduction, TLAPS

Packets == [flow : Flows, lane : Conns, lost : BOOLEAN]
Entries == [flow : Flows, lane : Conns \cup {None}]
Stages == {"none", "open", "acked", "failed"}

\* The types of the variables that lanes are made of.
LaneTypes ==
  /\ lanes \in [Ends -> SUBSET Conns] /\ draining \in [Ends -> SUBSET Conns]
  /\ left \in [Ends -> [Conns -> Nat]]
  /\ dial \in [conn : Conns \cup {None}, stage : Stages] /\ replacing \in Conns \cup {None}
  /\ note \subseteq Conns

\* The connection being dialled is new: it is no lane of the client, and the
\* server has no reason to drain it.
Dialling ==
  /\ dial.conn = None <=> dial.stage = "none"
  /\ dial.conn \notin lanes["client"] /\ dial.conn \notin note /\ dial.conn \notin draining["server"]
  /\ \A e \in Ends : draining[e] \subseteq lanes[e]

\* A dial has a place: a free one, or the one of the lane it replaces, which is
\* the only one to drain afterwards.
Sizes ==
  /\ PoolSize
  /\ dial.stage # "none" /\ replacing = None => Cardinality(lanes["client"]) < MaxConnections
  /\ replacing # None =>
       /\ Cardinality(lanes["client"]) <= MaxConnections /\ draining["client"] = {}
       /\ replacing \notin lanes["client"] => Cardinality(lanes["client"]) < MaxConnections

\* What the server drains or is told to drain, the client drains, with less time left.
Retired ==
  /\ \A c \in Conns : left["client"][c] <= Drain
  /\ \A c \in note \cap lanes["client"] : c \in draining["client"]
  /\ \A c \in draining["server"] \cap lanes["client"] :
       c \in draining["client"] /\ left["client"][c] < left["server"][c]

LaneInv == LaneTypes /\ Dialling /\ Sizes /\ Retired

\* A flow has one entry of the table a, and a packet of the queue w is on a lane
\* that is there, the one of its flow's entry unless the flow has lost it.
Placed(w, a, L) ==
  /\ Len(a) <= Cap
  /\ \A i, j \in 1..Len(a) : a[i].flow = a[j].flow => i = j
  /\ \A i \in 1..Len(w) :
       /\ w[i].lane \in L
       /\ ~w[i].lost => \E k \in 1..Len(a) : a[k].flow = w[i].flow /\ a[k].lane = w[i].lane

DataTypes == waiting \in [Ends -> Seq(Packets)] /\ affinity \in [Ends -> Seq(Entries)]

DataInv == DataTypes /\ \A e \in Ends : Placed(waiting[e], affinity[e], lanes[e])

------------------------------------------------------------------------------
\* Sizes of the sets of connections.
LEMMA Counting ==
  ASSUME NEW S \in SUBSET Conns
  PROVE  /\ Cardinality(S) \in Nat
         /\ \A T \in SUBSET S : Cardinality(T) <= Cardinality(S)
         /\ \A c \in S : Cardinality(S \ {c}) = Cardinality(S) - 1
         /\ \A c \in Conns \ S : Cardinality(S \cup {c}) = Cardinality(S) + 1
<1>1. IsFiniteSet(S)
  BY PoolAssumption, FS_Subset
<1>2. Cardinality(S) \in Nat
  BY <1>1, FS_CardinalityType
<1>3. \A T \in SUBSET S : Cardinality(T) <= Cardinality(S)
  BY <1>1, FS_Subset
<1>4. \A c \in S : Cardinality(S \ {c}) = Cardinality(S) - 1
  BY <1>1, FS_RemoveElement
<1>5. \A c \in Conns \ S : Cardinality(S \cup {c}) = Cardinality(S) + 1
  BY <1>1, FS_AddElement
<1>6. QED BY <1>2, <1>3, <1>4, <1>5

LEMMA InitLanes == Init => LaneInv
<1> SUFFICES ASSUME Init PROVE LaneInv
  OBVIOUS
<1> USE PoolAssumption DEF Init, NoDial, Ends
<1>1. LaneTypes
  BY DEF LaneTypes, Stages
<1>2. Dialling
  BY DEF Dialling
<1>3. Sizes
  BY FS_EmptySet DEF Sizes, PoolSize
<1>4. Retired
  BY DEF Retired
<1>5. QED BY <1>1, <1>2, <1>3, <1>4 DEF LaneInv

\* A lane that goes leaves the rest as it is.
LEMMA DetachLanes ==
  ASSUME LaneInv, NEW e \in Ends, NEW c \in lanes[e], Detach(e, c), note' \in {note, note \ {c}},
         UNCHANGED clientVars
  PROVE  LaneInv'
<1> DEFINE L == lanes["client"]
           L2 == lanes'["client"]
<1>1. /\ lanes' = [lanes EXCEPT ![e] = @ \ {c}] /\ draining' = [draining EXCEPT ![e] = @ \ {c}]
      /\ left' = [left EXCEPT ![e][c] = 0] /\ dial' = dial /\ replacing' = replacing
      /\ note' \subseteq note
  BY DEF Detach, clientVars
<1>2. LaneTypes /\ c \in Conns /\ {"client", "server"} = Ends
  BY DEF LaneInv, LaneTypes, Ends
<1>3. LaneTypes'
  BY <1>1, <1>2 DEF LaneTypes
<1>4. Dialling'
  BY <1>1, <1>2 DEF LaneInv, LaneTypes, Dialling
<1>5. Sizes'
  <2>1. /\ L2 \subseteq L /\ L \subseteq Conns /\ draining'["client"] \subseteq draining["client"]
        /\ L2 \ draining'["client"] \subseteq L \ draining["client"]
        /\ L \ draining["client"] \subseteq Conns /\ draining["client"] \subseteq Conns
    BY <1>1, <1>2 DEF LaneTypes
  <2>2. /\ Cardinality(L2) \in Nat /\ Cardinality(L) \in Nat /\ Cardinality(L2) <= Cardinality(L)
        /\ Cardinality(L2 \ draining'["client"]) \in Nat /\ Cardinality(L \ draining["client"]) \in Nat
        /\ Cardinality(L2 \ draining'["client"]) <= Cardinality(L \ draining["client"])
        /\ Cardinality(draining'["client"]) \in Nat /\ Cardinality(draining["client"]) \in Nat
        /\ Cardinality(draining'["client"]) <= Cardinality(draining["client"])
    BY <2>1, Counting
  <2>3. L2 = L \/ Cardinality(L2) = Cardinality(L) - 1
    <3>1. L2 = L \/ (c \in L /\ L2 = L \ {c})
      BY <1>1, <1>2 DEF LaneTypes
    <3>2. QED BY <2>1, <3>1, Counting
  <2> HIDE DEF L, L2
  <2>4. PoolSize'
    BY <1>1, <2>2, PoolAssumption DEF LaneInv, Sizes, PoolSize, L, L2
  <2>5. QED BY <1>1, <2>1, <2>2, <2>3, <2>4, PoolAssumption DEF LaneInv, Sizes, L, L2
<1>6. Retired'
  BY <1>1, <1>2, PoolAssumption DEF LaneInv, LaneTypes, Retired
<1>7. QED BY <1>3, <1>4, <1>5, <1>6 DEF LaneInv

\* A new lane takes the place the dial had, and a replaced one drains.
LEMMA HarvestLanes ==
  ASSUME LaneInv, HarvestLane
  PROVE  LaneInv'
<1> DEFINE L == lanes["client"]
           D == draining["client"]
<1>1. /\ dial.stage = "acked" /\ lanes' = [lanes EXCEPT !["client"] = @ \cup {dial.conn}]
      /\ dial' = NoDial /\ replacing' = None
  BY DEF HarvestLane, Attach
<1>2. LaneTypes /\ Dialling /\ Sizes /\ Retired /\ {"client", "server"} = Ends /\ PoolAssumption
  BY PoolAssumption DEF LaneInv, Ends
<1>3. dial.conn \in Conns \ L
  BY <1>1, <1>2 DEF LaneTypes, Dialling
<1>4. \/ /\ replacing \notin L /\ UNCHANGED <<draining, left, note>>
      \/ /\ replacing \in L /\ draining' = [draining EXCEPT !["client"] = @ \cup {replacing}]
         /\ note' \in {note, note \cup {replacing}}
         /\ \E n \in 0..Drain : left' = [left EXCEPT !["client"][replacing] = n]
  BY <1>2 DEF HarvestLane, RetireOld, PoolAssumption
<1>5. LaneTypes'
  <2>1. dial' \in [conn : Conns \cup {None}, stage : Stages] /\ replacing' \in Conns \cup {None}
    BY <1>1 DEF NoDial, Stages
  <2>2. lanes' \in [Ends -> SUBSET Conns]
    BY <1>1, <1>2, <1>3 DEF LaneTypes
  <2>3. replacing \in L => replacing \in Conns
    BY <1>2 DEF LaneTypes
  <2>4. draining' \in [Ends -> SUBSET Conns] /\ note' \subseteq Conns
    BY <1>2, <1>4, <2>3 DEF LaneTypes
  <2>5. left' \in [Ends -> [Conns -> Nat]]
    <3>1. left \in [Ends -> [Conns -> Nat]] /\ 0..Drain \subseteq Nat
      BY <1>2 DEF LaneTypes, PoolAssumption
    <3>2. ASSUME NEW n \in Nat, replacing \in L, left' = [left EXCEPT !["client"][replacing] = n]
          PROVE  left' \in [Ends -> [Conns -> Nat]]
      BY <1>2, <2>3, <3>1, <3>2
    <3>3. QED BY <1>4, <3>1, <3>2
  <2>6. QED BY <2>1, <2>2, <2>4, <2>5 DEF LaneTypes
<1>6. replacing \in L => replacing \in Conns /\ replacing # None /\ D = {} /\ replacing # dial.conn
  BY <1>2, <1>3 DEF LaneTypes, Sizes, PoolAssumption
<1>7. Dialling'
  <2>1. dial'.conn = None /\ dial'.stage = "none"
    BY <1>1 DEF NoDial
  <2>2. \A e \in Ends : draining'[e] \subseteq lanes'[e]
    BY <1>1, <1>2, <1>4 DEF LaneTypes, Dialling
  <2>3. QED BY <1>2, <1>5, <2>1, <2>2 DEF LaneTypes, Dialling, PoolAssumption
<1>8. Sizes'
  <2>1. /\ L \subseteq Conns /\ L \ D \subseteq Conns /\ Cardinality(L) \in Nat /\ Cardinality(L \ D) \in Nat
        /\ lanes'["client"] = L \cup {dial.conn} /\ Cardinality(L \cup {dial.conn}) = Cardinality(L) + 1
    BY <1>1, <1>2, <1>3, Counting DEF LaneTypes
  <2>2. CASE replacing \notin L
    <3>1. Cardinality(L) < MaxConnections /\ draining'["client"] = D
      BY <1>1, <1>2, <1>4, <2>2 DEF Sizes
    <3>2. Cardinality((L \cup {dial.conn}) \ D) <= Cardinality(L \cup {dial.conn})
      BY <1>3, <2>1, Counting
    <3>3. Cardinality((L \cup {dial.conn}) \ D) \in Nat
      BY <1>3, <2>1, Counting
    <3>4. Cardinality(D) <= 1
      BY <1>2 DEF Sizes, PoolSize
    <3>5. PoolSize'
      <4>1. replacing' = None /\ MaxConnections \in Nat
        BY <1>1, <1>2 DEF PoolAssumption
      <4> HIDE DEF L, D
      <4>2. QED BY <2>1, <3>1, <3>2, <3>3, <3>4, <4>1 DEF PoolSize
    <3>6. QED BY <1>1, <3>5 DEF Sizes, NoDial
  <2>3. CASE replacing \in L
    <3>1. /\ Cardinality(L) <= MaxConnections /\ draining'["client"] = {replacing}
      BY <1>2, <1>4, <1>6, <2>3 DEF Sizes, LaneTypes
    <3>2. (L \cup {dial.conn}) \ {replacing} = (L \ {replacing}) \cup {dial.conn}
      BY <1>6, <2>3
    <3>3. /\ Cardinality(L \ {replacing}) = Cardinality(L) - 1
          /\ Cardinality((L \ {replacing}) \cup {dial.conn}) = Cardinality(L \ {replacing}) + 1
      BY <1>3, <2>1, <2>3, Counting
    <3>4. Cardinality({replacing}) = 1
      BY FS_Singleton
    <3>5. PoolSize'
      <4>1. replacing' = None /\ MaxConnections \in Nat
        BY <1>1, <1>2 DEF PoolAssumption
      <4> HIDE DEF L, D
      <4>2. Cardinality(lanes'["client"]) <= MaxConnections + 1
        BY <2>1, <3>1, <4>1
      <4>3. Cardinality(lanes'["client"] \ draining'["client"]) <= MaxConnections
        <5>1. lanes'["client"] \ draining'["client"] = (L \ {replacing}) \cup {dial.conn}
          BY <2>1, <3>1, <3>2
        <5>2. Cardinality((L \ {replacing}) \cup {dial.conn}) <= MaxConnections
          BY <2>1, <3>1, <3>3, <4>1
        <5>3. QED BY <5>1, <5>2
      <4>4. QED BY <3>1, <3>4, <4>1, <4>2, <4>3 DEF PoolSize
    <3>6. QED BY <1>1, <3>5 DEF Sizes, NoDial
  <2>4. QED BY <2>2, <2>3
<1>9. Retired'
  <2>1. CASE replacing \notin L
    BY <1>1, <1>2, <1>4, <2>1 DEF LaneTypes, Dialling, Retired
  <2>2. CASE replacing \in L
    <3>1. replacing \notin draining["server"]
      BY <1>2, <1>6, <2>2 DEF Retired, LaneTypes
    <3>2. \A c \in Conns : left'["client"][c] <= Drain
      BY <1>2, <1>4, <1>6, <2>2 DEF LaneTypes, Retired, PoolAssumption
    <3>3. draining'["server"] = draining["server"] /\ left'["server"] = left["server"]
      BY <1>2, <1>4, <1>6, <2>2 DEF LaneTypes
    <3>4. \A c \in Conns : c # replacing => left'["client"][c] = left["client"][c]
      BY <1>2, <1>4, <1>6, <2>2 DEF LaneTypes
    <3>5. draining'["client"] = draining["client"] \cup {replacing} /\ lanes'["client"] = L \cup {dial.conn}
      BY <1>1, <1>2, <1>4, <1>6, <2>2 DEF LaneTypes
    <3>6. note' \subseteq note \cup {replacing}
      BY <1>4, <1>6, <2>2
    <3>7. \A c \in note' \cap lanes'["client"] : c \in draining'["client"]
      BY <1>2, <3>5, <3>6 DEF Dialling, Retired
    <3>8. \A c \in draining'["server"] \cap lanes'["client"] :
            c \in draining'["client"] /\ left'["client"][c] < left'["server"][c]
      BY <1>2, <1>3, <3>1, <3>3, <3>4, <3>5 DEF LaneTypes, Dialling, Retired
    <3>9. QED BY <3>2, <3>7, <3>8 DEF Retired
  <2>3. QED BY <2>1, <2>2
<1>10. QED BY <1>5, <1>7, <1>8, <1>9 DEF LaneInv

\* A dial starts with a connection that is nowhere, for a free place or for a lane to replace.
LEMMA DialLanes ==
  ASSUME LaneInv, PlanReplacement \/ PlanDial
  PROVE  LaneInv'
<1>1. LaneTypes /\ Dialling /\ Sizes /\ Retired /\ {"client", "server"} = Ends /\ PoolAssumption
  BY PoolAssumption DEF LaneInv, Ends
<1>2. PICK c \in Free : dial' = [conn |-> c, stage |-> "open"] /\ note' = note \ {c}
  <2>1. Free # {}
    BY DEF PlanReplacement, PlanDial, DialStarts
  <2> DEFINE c == CHOOSE x \in Free : TRUE
  <2>2. c \in Free
    BY <2>1
  <2>3. dial' = [conn |-> c, stage |-> "open"] /\ note' = note \ {c}
    BY DEF PlanReplacement, PlanDial, DialStarts
  <2> HIDE DEF c
  <2>4. QED BY <2>2, <2>3
<1>3. /\ c \in Conns /\ c # None /\ c \notin lanes["client"] /\ c \notin lanes["server"]
      /\ c \notin draining["server"]
  BY <1>1, <1>2 DEF Free, HasClient, HasServer, Dialling, PoolAssumption
<1>4. UNCHANGED <<lanes, draining, left>> /\ dial.stage = "none"
  BY DEF PlanReplacement, PlanDial, laneVars, MayReplace
<1>5. \/ replacing' \in lanes["client"] /\ MayReplace
      \/ /\ UNCHANGED replacing
         /\ Cardinality(lanes["client"]) < MaxConnections \/ replacing # None
  BY DEF PlanReplacement, PlanDial
<1>6. LaneTypes'
  <2>1. replacing' \in Conns \cup {None}
    BY <1>1, <1>5 DEF LaneTypes
  <2>2. dial' \in [conn : Conns \cup {None}, stage : Stages]
    BY <1>2, <1>3 DEF Stages
  <2>3. QED BY <1>1, <1>2, <1>4, <2>1, <2>2 DEF LaneTypes
<1>7. Dialling'
  BY <1>1, <1>2, <1>3, <1>4 DEF Dialling
<1>8. Sizes'
  <2>1. dial'.stage = "open" /\ Cardinality(lanes["client"]) \in Nat
    BY <1>1, <1>2, Counting DEF LaneTypes
  <2>2. replacing = None
    BY <1>1, <1>4 DEF Sizes, PoolSize
  <2>3. PoolSize'
    BY <1>1, <1>4, <2>1 DEF Sizes, PoolSize
  <2>4. CASE replacing' \in lanes["client"] /\ MayReplace
    <3>1. replacing' # None /\ draining["client"] = {} /\ Cardinality(lanes["client"]) = MaxConnections
      BY <1>1, <2>4 DEF MayReplace, Dialling, LaneTypes, PoolAssumption
    <3>2. QED BY <1>1, <1>4, <2>1, <2>3, <2>4, <3>1 DEF Sizes, PoolAssumption
  <2>5. CASE UNCHANGED replacing /\ Cardinality(lanes["client"]) < MaxConnections
    BY <1>4, <2>1, <2>2, <2>3, <2>5 DEF Sizes
  <2>6. QED BY <1>5, <2>2, <2>4, <2>5
<1>9. Retired'
  BY <1>1, <1>2, <1>4 DEF Retired
<1>10. QED BY <1>6, <1>7, <1>8, <1>9 DEF LaneInv

\* The steps of the dialling task, of admission and of the server's loop.
LEMMA OtherLanes ==
  ASSUME LaneInv,
         \/ HarvestFailure \/ UpgradeDone \/ DialFails
         \/ \E c \in Conns : Claim(c) \/ TakeReady(c) \/ Obey(c)
  PROVE  LaneInv'
<1>1. LaneTypes /\ Dialling /\ Sizes /\ Retired /\ Ends = {"client", "server"} /\ PoolAssumption
  BY PoolAssumption DEF LaneInv, Ends
<1>2. CASE HarvestFailure
  <2>1. UNCHANGED <<lanes, draining, left, note>> /\ dial' = NoDial /\ replacing' = None
    BY <1>2 DEF HarvestFailure, laneVars
  <2>2. dial'.conn = None /\ dial'.stage = "none" /\ dial' \in [conn : Conns \cup {None}, stage : Stages]
    BY <2>1 DEF NoDial, Stages
  <2>3. LaneTypes' /\ Dialling'
    BY <1>1, <2>1, <2>2 DEF LaneTypes, Dialling, PoolAssumption
  <2>4. Sizes' /\ Retired'
    BY <1>1, <2>1, <2>2 DEF Sizes, PoolSize, Retired
  <2>5. QED BY <2>3, <2>4 DEF LaneInv
<1>3. CASE UpgradeDone \/ DialFails
  <2>1. /\ UNCHANGED <<lanes, draining, left, note, replacing>>
        /\ \E s \in {"acked", "failed"} : dial' = [dial EXCEPT !.stage = s]
        /\ dial.stage # "none"
    BY <1>3 DEF UpgradeDone, DialFails, laneVars
  <2>2. /\ dial'.conn = dial.conn /\ dial'.stage # "none"
        /\ dial' \in [conn : Conns \cup {None}, stage : Stages]
    BY <1>1, <2>1 DEF LaneTypes, Stages
  <2>3. LaneTypes' /\ Dialling'
    BY <1>1, <2>1, <2>2 DEF LaneTypes, Dialling
  <2>4. Sizes' /\ Retired'
    BY <1>1, <2>1, <2>2 DEF Sizes, PoolSize, Retired
  <2>5. QED BY <2>3, <2>4 DEF LaneInv
<1>4. ASSUME NEW c \in Conns, Claim(c) PROVE LaneInv'
  BY <1>1, <1>4 DEF Claim, laneVars, clientVars, LaneInv, LaneTypes, Dialling, Sizes, PoolSize, Retired
<1>5. ASSUME NEW c \in Conns, TakeReady(c) PROVE LaneInv'
  <2>1. /\ UNCHANGED <<draining, left, dial, replacing, note>>
        /\ lanes' = [lanes EXCEPT !["server"] = @ \cup {c}]
    BY <1>5 DEF TakeReady, Attach, clientVars
  <2>2. lanes'["client"] = lanes["client"] /\ lanes["server"] \subseteq lanes'["server"]
    BY <1>1, <2>1 DEF LaneTypes
  <2>3. LaneTypes' /\ Dialling'
    BY <1>1, <2>1, <2>2 DEF LaneTypes, Dialling
  <2>4. Sizes' /\ Retired'
    BY <1>1, <2>1, <2>2 DEF Sizes, PoolSize, Retired
  <2>5. QED BY <2>3, <2>4 DEF LaneInv
<1>6. ASSUME NEW c \in Conns, Obey(c) PROVE LaneInv'
  <2>1. /\ UNCHANGED <<lanes, dial, replacing>> /\ c \in note /\ c \in lanes["server"] /\ note' = note \ {c}
        /\ draining' = [draining EXCEPT !["server"] = @ \cup {c}]
        /\ left' = IF c \in draining["server"] THEN left
                   ELSE [left EXCEPT !["server"][c] = Drain + Grace]
    BY <1>6 DEF Obey, clientVars, ServerDrains
  <2>2. /\ draining'["client"] = draining["client"] /\ left'["client"] = left["client"]
        /\ draining'["server"] = draining["server"] \cup {c}
    BY <1>1, <2>1 DEF LaneTypes
  <2>3. LaneTypes'
    BY <1>1, <2>1 DEF LaneTypes, PoolAssumption
  <2>4. Dialling'
    BY <1>1, <2>1, <2>2 DEF Dialling, LaneTypes
  <2>5. Sizes'
    BY <1>1, <2>1, <2>2 DEF Sizes, PoolSize
  <2>6. Retired'
    <3>1. \A d \in draining["server"] : left'["server"][d] = left["server"][d]
      BY <1>1, <2>1 DEF LaneTypes
    <3>2. c \notin draining["server"] => left'["server"][c] = Drain + Grace
      BY <1>1, <2>1 DEF LaneTypes
    <3>3. QED BY <1>1, <2>1, <2>2, <3>1, <3>2 DEF Retired, LaneTypes, PoolAssumption
  <2>7. QED BY <2>3, <2>4, <2>5, <2>6 DEF LaneInv
<1>7. QED BY <1>2, <1>3, <1>4, <1>5, <1>6

\* Time passes only while no drain of the client is over, so its lead is kept.
LEMMA TickLanes ==
  ASSUME LaneInv, Tick
  PROVE  LaneInv'
<1>1. LaneTypes /\ Dialling /\ Sizes /\ Retired /\ Ends = {"client", "server"} /\ PoolAssumption
  BY PoolAssumption DEF LaneInv, Ends
<1>2. /\ UNCHANGED <<lanes, draining, dial, replacing, note>>
      /\ left' = [e \in Ends |-> [c \in Conns |-> IF left[e][c] > 0 THEN left[e][c] - 1 ELSE 0]]
      /\ \A c \in Conns : ~DrainDue("client", c)
  BY <1>1 DEF Tick, clientVars
<1>3. LaneTypes'
  <2>1. left' \in [Ends -> [Conns -> Nat]]
    BY <1>1, <1>2 DEF LaneTypes
  <2>2. QED BY <1>1, <1>2, <2>1 DEF LaneTypes
<1>4. Dialling' /\ Sizes'
  BY <1>1, <1>2 DEF Dialling, Sizes, PoolSize
<1>5. Retired'
  <2>1. \A c \in Conns : left'["client"][c] <= left["client"][c]
    BY <1>1, <1>2 DEF LaneTypes
  <2>2. ASSUME NEW c \in draining["server"] \cap lanes["client"]
        PROVE  c \in draining["client"] /\ left'["client"][c] < left'["server"][c]
    <3>1. /\ c \in Conns /\ c \in draining["client"] /\ left["client"][c] < left["server"][c]
          /\ left["client"][c] \in Nat /\ left["server"][c] \in Nat
      BY <1>1 DEF LaneTypes, Retired
    <3>2. left["client"][c] # 0
      BY <1>2, <3>1 DEF DrainDue
    <3>3. left'["client"][c] = left["client"][c] - 1 /\ left'["server"][c] = left["server"][c] - 1
      BY <1>1, <1>2, <3>1, <3>2
    <3>4. QED BY <3>1, <3>3
  <2>3. \A c \in Conns : left'["client"][c] <= Drain
    BY <1>1, <1>3, <2>1 DEF LaneTypes, Retired, PoolAssumption
  <2>4. QED BY <1>1, <1>2, <2>2, <2>3 DEF Retired
<1>6. QED BY <1>3, <1>4, <1>5 DEF LaneInv

LEMMA NextLanes == LaneInv /\ [Next]_vars => LaneInv'
<1> SUFFICES ASSUME LaneInv, [Next]_vars PROVE LaneInv'
  OBVIOUS
<1>1. ASSUME NEW e \in Ends, NEW c \in Conns, DrainComplete(e, c) \/ PeerClosed(e, c) \/ LaneFails(e, c)
      PROVE  LaneInv'
  <2>1. c \in lanes[e] /\ Detach(e, c) /\ note' \in {note, note \ {c}} /\ UNCHANGED clientVars
    BY <1>1 DEF DrainComplete, PeerClosed, LaneFails, DrainDue
  <2>2. QED BY <2>1, DetachLanes
<1>2. ASSUME UNCHANGED <<lanes, draining, left, dial, replacing, note>> PROVE LaneInv'
  BY <1>2 DEF LaneInv, LaneTypes, Dialling, Sizes, PoolSize, Retired
<1>3. CASE UNCHANGED vars
  BY <1>2, <1>3 DEF vars, laneVars, clientVars
<1>4. ASSUME NEW e \in Ends, Prune(e) \/ Expire(e) \/ (\E f \in Flows : ReadPacket(e, f))
                             \/ (\E c \in Conns : Send(e, c))
      PROVE  LaneInv'
  <2>1. Quiet
    BY <1>4 DEF Prune, Expire, ReadPacket, Send
  <2>2. QED BY <1>2, <2>1 DEF Quiet, laneVars, clientVars
<1>5. CASE Next
  BY <1>1, <1>4, <1>5, HarvestLanes, DialLanes, OtherLanes, TickLanes DEF Next, Loop
<1>6. QED BY <1>3, <1>5

LEMMA LanesInv == Spec => []LaneInv
BY InitLanes, NextLanes, PTL DEF Spec

\* The client never has more lanes in use than configured, and never more than
\* one lane beyond them, through failures, replacements and their failures.
THEOREM KeepsItsSize == Spec => []PoolSize
<1>1. LaneInv => PoolSize
  BY DEF LaneInv, Sizes
<1>2. QED BY <1>1, LanesInv, PTL

\* When the server closes a lane whose drain is over, the client has left it,
\* for every drain time and every grace of at least one tick.
THEOREM ServerClosesLast == Spec => []ClientClosesFirst
<1>1. LaneInv => ClientClosesFirst
  BY DEF LaneInv, LaneTypes, Retired, ClientClosesFirst, DrainDue, Ends
<1>2. QED BY <1>1, LanesInv, PTL

------------------------------------------------------------------------------
\* Every set of natural numbers has a least element.
LEMMA LeastNat ==
  ASSUME NEW T, T \subseteq Nat, T # {}
  PROVE  \E x \in T : \A y \in T : x <= y
<1> DEFINE R == OpToRel(<, Nat)
<1>1. IsWellFoundedOn(R, Nat)
  BY NatLessThanWellFounded
<1>2. \A x, y \in Nat : <<y, x>> \in R <=> y < x
  BY DEF OpToRel
<1> HIDE DEF R
<1>3. \E x \in T : \A y \in T : ~(<<y, x>> \in R)
  BY <1>1, WFMin
<1>4. PICK x \in T : \A y \in T : ~(<<y, x>> \in R)
  BY <1>3
<1>5. \A y \in T : ~(y < x)
  BY <1>2, <1>4
<1>6. \A y \in T : x <= y
  BY <1>5
<1>7. QED BY <1>6

\* Induction, for a set instead of a predicate.
LEMMA Induction ==
  ASSUME NEW S, 0 \in S, \A n \in Nat : n \in S => n + 1 \in S
  PROVE  Nat \subseteq S
<1> SUFFICES ASSUME Nat \ S # {} PROVE FALSE
  OBVIOUS
<1>1. PICK x \in Nat \ S : \A y \in Nat \ S : x <= y
  BY LeastNat
<1>2. x # 0 /\ x - 1 \in Nat /\ x - 1 \in S
  BY <1>1
<1>3. QED BY <1>1, <1>2

\* What a recursive definition needs: for every start and every step there is a
\* function on 0..N that follows them.
Follows(g, N, A, a, step) ==
  g \in [0..N -> A] /\ g[0] = a /\ \A m \in 1..N : g[m] = step[<<g[m - 1], m>>]

LEMMA Recursion ==
  ASSUME NEW N \in Nat, NEW A, NEW a \in A, NEW step \in [A \X (1..N) -> A]
  PROVE  \E g : Follows(g, N, A, a, step)
<1> DEFINE Part(g, n) == g[0] = a /\ \A m \in 1..n : g[m] = step[<<g[m - 1], m>>]
           Made == {n \in Nat : n <= N => \E g \in [0..n -> A] : Part(g, n)}
<1>1. 0 \in Made
  <2>1. [m \in 0..0 |-> a] \in [0..0 -> A] /\ Part([m \in 0..0 |-> a], 0)
    OBVIOUS
  <2>2. QED BY <2>1
<1>2. ASSUME NEW n \in Nat, n \in Made PROVE n + 1 \in Made
  <2>1. SUFFICES ASSUME n + 1 <= N PROVE \E g \in [0..(n + 1) -> A] : Part(g, n + 1)
    OBVIOUS
  <2>2. n <= N /\ n + 1 \in 1..N
    BY <2>1
  <2>3. PICK g \in [0..n -> A] : Part(g, n)
    BY <1>2, <2>2
  <2> DEFINE h == [m \in 0..(n + 1) |-> IF m <= n THEN g[m] ELSE step[<<g[n], n + 1>>]]
  <2>4. h \in [0..(n + 1) -> A]
    BY <2>2
  <2>5. h[0] = a
    BY <2>3
  <2>6. ASSUME NEW m \in 1..(n + 1) PROVE h[m] = step[<<h[m - 1], m>>]
    <3>1. m - 1 \in 0..n /\ h[m - 1] = g[m - 1]
      OBVIOUS
    <3>2. CASE m <= n
      BY <2>3, <3>1, <3>2
    <3>3. CASE m = n + 1
      <4>1. m - 1 = n /\ h[m] = step[<<g[n], n + 1>>]
        BY <3>3
      <4>2. QED BY <3>1, <3>3, <4>1
    <3>4. QED BY <3>2, <3>3
  <2>7. Part(h, n + 1)
    BY <2>5, <2>6
  <2> HIDE DEF h, Part
  <2>8. QED BY <2>4, <2>7
<1>3. \A n \in Nat : n \in Made => n + 1 \in Made
  <2> HIDE DEF Made
  <2> QED BY <1>2
<1>4. N \in Made
  <2> HIDE DEF Made
  <2> QED BY <1>1, <1>3, Induction
<1>5. QED BY <1>4 DEF Follows

\* What is left of a queue is part of it, and off the lane.
LEMMA OffLaneKeeps ==
  ASSUME NEW s \in Seq(Packets), NEW c
  PROVE  /\ OffLane(s, c) \in Seq(Packets)
         /\ \A i \in 1..Len(OffLane(s, c)) :
              \E j \in 1..Len(s) : OffLane(s, c)[i] = s[j] /\ s[j].lane # c
<1> DEFINE N == Len(s)
           Def(f) == [n \in 0..N |-> IF n = 0 THEN <<>>
                                     ELSE IF s[n].lane = c THEN f[n - 1] ELSE Append(f[n - 1], s[n])]
           kept == CHOOSE f : f = Def(f)
           Right(t) == /\ t \in Seq(Packets)
                       /\ \A i \in 1..Len(t) : \E j \in 1..N : t[i] = s[j] /\ s[j].lane # c
           Good == {n \in Nat : n <= N => Right(kept[n])}
<1>0. N \in Nat /\ \A n \in 1..N : s[n] \in Packets
  OBVIOUS
<1>1. OffLane(s, c) = kept[N]
  BY DEF OffLane
<1>2. kept = Def(kept)
  <2> DEFINE step == [x \in Seq(Packets) \X (1..N) |->
                        IF s[x[2]].lane = c THEN x[1] ELSE Append(x[1], s[x[2]])]
  <2>1. step \in [Seq(Packets) \X (1..N) -> Seq(Packets)] /\ <<>> \in Seq(Packets)
    BY <1>0
  <2>2. \A t \in Seq(Packets), m \in 1..N :
          step[<<t, m>>] = IF s[m].lane = c THEN t ELSE Append(t, s[m])
    OBVIOUS
  <2> DEFINE A == Seq(Packets)
             a == <<>>
  <2> HIDE DEF step, N, A, a
  <2>0. a \in A /\ step \in [A \X (1..N) -> A]
    BY <2>1 DEF A, a
  <2>a. \E g : Follows(g, N, A, a, step)
    <3>1. N \in Nat
      BY <1>0
    <3>2. a \in A
      BY <2>0
    <3>3. step \in [A \X (1..N) -> A]
      BY <2>0
    <3>4. QED BY <3>1, <3>2, <3>3, Recursion, Zenon
  <2>3. PICK g \in [0..N -> Seq(Packets)] : g[0] = <<>> /\ \A m \in 1..N : g[m] = step[<<g[m - 1], m>>]
    BY <2>a DEF A, a, Follows
  <2>4. \A m \in 1..N : m - 1 \in 0..N /\ g[m - 1] \in Seq(Packets)
    BY <1>0
  <2>5. \A m \in 1..N : g[m] = IF s[m].lane = c THEN g[m - 1] ELSE Append(g[m - 1], s[m])
    BY <2>2, <2>3, <2>4
  <2>6. \A n \in 0..N : g[n] = IF n = 0 THEN <<>>
                               ELSE IF s[n].lane = c THEN g[n - 1] ELSE Append(g[n - 1], s[n])
    <3>1. \A n \in 0..N : n = 0 \/ n \in 1..N
      BY <1>0
    <3>2. \A n \in 1..N : n # 0
      BY <1>0
    <3>3. QED BY <2>3, <2>5, <3>1, <3>2, Zenon
  <2>7. g = Def(g)
    BY <2>6
  <2>8. QED BY <2>7
<1> HIDE DEF kept
<1>3. kept[0] = <<>>
  BY <1>0, <1>2
<1>4. \A n \in 1..N : kept[n] = IF s[n].lane = c THEN kept[n - 1] ELSE Append(kept[n - 1], s[n])
  <2> HIDE DEF N
  <2>1. \A n \in 1..N : n \in 0..N /\ n # 0
    BY <1>0
  <2>2. \A n \in 0..N : kept[n] = Def(kept)[n]
    BY <1>2, Zenon
  <2>3. QED BY <2>1, <2>2, Zenon
<1>5. ASSUME NEW t, Right(t), NEW n \in 1..N, s[n].lane # c PROVE Right(Append(t, s[n]))
  <2>1. Append(t, s[n]) \in Seq(Packets) /\ Len(Append(t, s[n])) = Len(t) + 1
    BY <1>0, <1>5
  <2>2. ASSUME NEW i \in 1..(Len(t) + 1) PROVE \E j \in 1..N : Append(t, s[n])[i] = s[j] /\ s[j].lane # c
    <3>1. CASE i \in 1..Len(t)
      <4>1. Append(t, s[n])[i] = t[i]
        BY <1>0, <1>5, <3>1
      <4>2. QED BY <1>5, <3>1, <4>1
    <3>2. CASE i = Len(t) + 1
      <4>1. Append(t, s[n])[i] = s[n]
        BY <1>0, <1>5, <3>2
      <4>2. QED BY <1>5, <4>1
    <3>3. QED BY <1>5, <3>1, <3>2
  <2>3. QED BY <2>1, <2>2
<1>6. N \in Good
  <2>1. 0 \in Good
    <3>1. Right(<<>>)
      OBVIOUS
    <3> HIDE DEF Right
    <3>2. QED BY <1>3, <3>1
  <2>2. ASSUME NEW n \in Nat, n \in Good PROVE n + 1 \in Good
    <3>1. SUFFICES ASSUME n + 1 <= N PROVE Right(kept[n + 1])
      OBVIOUS
    <3>2. n + 1 \in 1..N /\ Right(kept[n])
      BY <1>0, <2>2, <3>1
    <3> HIDE DEF Right, N
    <3>3. kept[n + 1] = IF s[n + 1].lane = c THEN kept[n] ELSE Append(kept[n], s[n + 1])
      BY <1>4, <3>2
    <3>4. QED BY <1>5, <3>2, <3>3
  <2>3. \A n \in Nat : n \in Good => n + 1 \in Good
    <3> HIDE DEF Good
    <3> QED BY <2>2
  <2> HIDE DEF Good
  <2>4. QED BY <1>0, <2>1, <2>3, Induction
<1>7. QED BY <1>0, <1>1, <1>6

LEMMA WithoutKeeps ==
  ASSUME NEW S, NEW s \in Seq(S), NEW i \in 1..Len(s)
  PROVE  /\ Without(s, i) \in Seq(S) /\ Len(Without(s, i)) = Len(s) - 1
         /\ \A k \in 1..(Len(s) - 1) : Without(s, i)[k] = IF k < i THEN s[k] ELSE s[k + 1]
<1> DEFINE p == SubSeq(s, 1, i - 1)
           q == SubSeq(s, i + 1, Len(s))
<1>1. p \in Seq(S) /\ Len(p) = i - 1 /\ \A k \in 1..(i - 1) : p[k] = s[k]
  OBVIOUS
<1>2. q \in Seq(S) /\ Len(q) = Len(s) - i /\ \A k \in 1..(Len(s) - i) : q[k] = s[k + i]
  OBVIOUS
<1>3. Without(s, i) = p \o q
  BY DEF Without
<1> HIDE DEF p, q
<1>4. p \o q \in Seq(S) /\ Len(p \o q) = Len(s) - 1
  <2>1. p \o q \in Seq(S) /\ Len(p \o q) = Len(p) + Len(q)
    <3>1. p \in Seq(S)
      BY <1>1
    <3>2. q \in Seq(S)
      BY <1>2
    <3>3. QED BY <3>1, <3>2
  <2>2. Len(s) \in Nat
    OBVIOUS
  <2>3. QED BY <1>1, <1>2, <2>1, <2>2
<1>5. ASSUME NEW k \in 1..(Len(s) - 1) PROVE (p \o q)[k] = IF k < i THEN s[k] ELSE s[k + 1]
  <2>1. CASE k < i
    BY <1>1, <1>2, <2>1
  <2>2. CASE ~(k < i)
    <3>1. (p \o q)[k] = q[k - (i - 1)] /\ k - (i - 1) \in 1..(Len(s) - i)
      BY <1>1, <1>2, <2>2
    <3>2. q[k - (i - 1)] = s[k - (i - 1) + i] /\ k - (i - 1) + i = k + 1
      BY <1>2, <3>1
    <3>3. QED BY <2>2, <3>1, <3>2
  <2>3. QED BY <2>1, <2>2
<1>6. QED BY <1>3, <1>4, <1>5

------------------------------------------------------------------------------
\* Dropping packets and adding lanes leaves the others in place.
LEMMA FewerPlaced ==
  ASSUME NEW w, NEW a, NEW L, Placed(w, a, L), NEW v, NEW M, L \subseteq M,
         \A i \in 1..Len(v) : \E j \in 1..Len(w) : v[i] = w[j]
  PROVE  Placed(v, a, M)
<1>1. \A i \in 1..Len(v) : v[i].lane \in M
  BY DEF Placed
<1>2. \A i \in 1..Len(v) : ~v[i].lost =>
        \E k \in 1..Len(a) : a[k].flow = v[i].flow /\ a[k].lane = v[i].lane
  <2> SUFFICES ASSUME NEW i \in 1..Len(v), ~v[i].lost
               PROVE  \E k \in 1..Len(a) : a[k].flow = v[i].flow /\ a[k].lane = v[i].lane
    OBVIOUS
  <2>1. PICK j \in 1..Len(w) : v[i] = w[j]
    OBVIOUS
  <2>2. ~w[j].lost
    BY <2>1
  <2>3. PICK k \in 1..Len(a) : a[k].flow = w[j].flow /\ a[k].lane = w[j].lane
    BY <2>2, Zenon DEF Placed
  <2>4. QED BY <2>1, <2>3
<1>3. QED BY <1>1, <1>2 DEF Placed

\* Entries without waiting packets can go.
LEMMA PrunedPlaced ==
  ASSUME NEW w \in Seq(Packets), NEW a \in Seq(Entries), NEW L, Placed(w, a, L), NEW k \in 0..Len(a),
         \A i \in 1..k : \A j \in 1..Len(w) : w[j].flow # a[i].flow
  PROVE  /\ SubSeq(a, k + 1, Len(a)) \in Seq(Entries)
         /\ Placed(w, SubSeq(a, k + 1, Len(a)), L)
<1> DEFINE b == SubSeq(a, k + 1, Len(a))
<1>1. /\ b \in Seq(Entries) /\ Len(b) = Len(a) - k /\ Len(a) \in Nat
      /\ \A i \in 1..Len(b) : b[i] = a[i + k] /\ i + k \in 1..Len(a)
  OBVIOUS
<1>2. \A i \in 1..Len(a) : i <= k \/ (i - k \in 1..Len(b) /\ b[i - k] = a[i])
  BY <1>1
<1> HIDE DEF b
<1>3. \A i, j \in 1..Len(b) : b[i].flow = b[j].flow => i = j
  <2> SUFFICES ASSUME NEW i \in 1..Len(b), NEW j \in 1..Len(b), b[i].flow = b[j].flow PROVE i = j
    OBVIOUS
  <2>1. i + k \in 1..Len(a) /\ j + k \in 1..Len(a) /\ a[i + k].flow = a[j + k].flow
    BY <1>1
  <2>2. i + k = j + k
    BY <2>1 DEF Placed
  <2>3. QED BY <1>1, <2>2
<1>4. \A i \in 1..Len(w) : ~w[i].lost =>
        \E n \in 1..Len(b) : b[n].flow = w[i].flow /\ b[n].lane = w[i].lane
  <2> SUFFICES ASSUME NEW i \in 1..Len(w), ~w[i].lost
               PROVE  \E n \in 1..Len(b) : b[n].flow = w[i].flow /\ b[n].lane = w[i].lane
    OBVIOUS
  <2>1. PICK n \in 1..Len(a) : a[n].flow = w[i].flow /\ a[n].lane = w[i].lane
    BY DEF Placed
  <2>2. ~(n \in 1..k)
    BY <2>1
  <2>3. n - k \in 1..Len(b) /\ b[n - k] = a[n]
    BY <1>1, <1>2, <2>2
  <2>4. QED BY <2>1, <2>3
<1>5. Len(b) <= Cap
  BY <1>1, PoolAssumption DEF Placed
<1>6. Placed(w, b, L)
  BY <1>3, <1>4, <1>5 DEF Placed
<1>7. QED BY <1>1, <1>6 DEF b

\* A lane that goes takes its packets with it; entries that name it name no lane.
LEMMA DetachedPlaced ==
  ASSUME NEW w \in Seq(Packets), NEW a \in Seq(Entries), NEW L, Placed(w, a, L), NEW c,
         NEW b, b = [k \in 1..Len(a) |-> IF a[k].lane = c THEN [a[k] EXCEPT !.lane = None] ELSE a[k]]
  PROVE  /\ OffLane(w, c) \in Seq(Packets) /\ b \in Seq(Entries)
         /\ Placed(OffLane(w, c), b, L \ {c})
<1> DEFINE v == OffLane(w, c)
<1>1. /\ v \in Seq(Packets)
      /\ \A i \in 1..Len(v) : \E j \in 1..Len(w) : v[i] = w[j] /\ w[j].lane # c
  BY OffLaneKeeps
<1>2. \A k \in 1..Len(a) : a[k] \in Entries
  OBVIOUS
<1>3. /\ b \in Seq(Entries) /\ Len(b) = Len(a)
      /\ \A k \in 1..Len(a) : b[k].flow = a[k].flow /\ (a[k].lane # c => b[k] = a[k])
  <2>1. \A k \in 1..Len(a) : b[k] \in Entries
    BY <1>2 DEF Entries
  <2>2. b \in Seq(Entries) /\ Len(b) = Len(a)
    BY <2>1
  <2>3. \A k \in 1..Len(a) : b[k].flow = a[k].flow /\ (a[k].lane # c => b[k] = a[k])
    BY <1>2 DEF Entries
  <2>4. QED BY <2>2, <2>3
<1> HIDE DEF v
<1>4. \A i \in 1..Len(v) : v[i].lane \in L \ {c}
  BY <1>1 DEF Placed
<1>5. \A i \in 1..Len(v) : ~v[i].lost =>
        \E k \in 1..Len(b) : b[k].flow = v[i].flow /\ b[k].lane = v[i].lane
  <2> SUFFICES ASSUME NEW i \in 1..Len(v), ~v[i].lost
               PROVE  \E k \in 1..Len(b) : b[k].flow = v[i].flow /\ b[k].lane = v[i].lane
    OBVIOUS
  <2>1. PICK j \in 1..Len(w) : v[i] = w[j] /\ w[j].lane # c
    BY <1>1
  <2>2. PICK k \in 1..Len(a) : a[k].flow = w[j].flow /\ a[k].lane = w[j].lane
    BY <2>1, Zenon DEF Placed
  <2>3. b[k] = a[k] /\ k \in 1..Len(b)
    BY <1>3, <2>1, <2>2
  <2>4. QED BY <2>1, <2>2, <2>3
<1>6. Len(b) <= Cap /\ \A i, j \in 1..Len(b) : b[i].flow = b[j].flow => i = j
  BY <1>3 DEF Placed
<1>7. Placed(v, b, L \ {c})
  BY <1>4, <1>5, <1>6 DEF Placed
<1>8. QED BY <1>1, <1>3, <1>7 DEF v

\* The table before a packet's flow is entered: no entry of the flow, and room for one.
LEMMA KeptTable ==
  ASSUME NEW e \in Ends, NEW f \in Flows, NEW k \in Prunable(e, f), NEW L,
         affinity[e] \in Seq(Entries), Placed(waiting[e], affinity[e], L)
  PROVE  /\ Kept(e, f, k) \in Seq(Entries) /\ Len(Kept(e, f, k)) < Cap
         /\ \A i \in 1..Len(Kept(e, f, k)) :
              \E j \in 1..Len(affinity[e]) : Kept(e, f, k)[i] = affinity[e][j] /\ affinity[e][j].flow # f
         /\ \A i, j \in 1..Len(Kept(e, f, k)) : Kept(e, f, k)[i].flow = Kept(e, f, k)[j].flow => i = j
<1> DEFINE a == affinity[e]
           K == Kept(e, f, k)
           Goal == /\ K \in Seq(Entries) /\ Len(K) < Cap
                   /\ \A i \in 1..Len(K) : \E j \in 1..Len(a) : K[i] = a[j] /\ a[j].flow # f
                   /\ \A i, j \in 1..Len(K) : K[i].flow = K[j].flow => i = j
<1>1. /\ a \in Seq(Entries) /\ Len(a) \in Nat /\ Len(a) <= Cap /\ Cap \in Nat
      /\ \A i, j \in 1..Len(a) : a[i].flow = a[j].flow => i = j
  BY PoolAssumption DEF Placed
<1>2. k \in 0..Len(a)
  BY <1>1 DEF Prunable, Idle
<1> DEFINE rest == SubSeq(a, k + 1, Len(a))
<1>3. /\ rest \in Seq(Entries) /\ Len(rest) = Len(a) - k
      /\ \A i \in 1..Len(rest) : rest[i] = a[i + k] /\ i + k \in 1..Len(a)
  BY <1>1, <1>2
<1>4. K = IF Named(e, f) # {} THEN Without(rest, CHOOSE i \in 1..Len(rest) : rest[i].flow = f)
          ELSE IF Len(rest) >= Cap THEN Tail(rest) ELSE rest
  BY DEF Kept
<1> HIDE DEF a, K, rest
<1>5. \A i, j \in 1..Len(rest) : rest[i].flow = rest[j].flow => i = j
  <2> SUFFICES ASSUME NEW i \in 1..Len(rest), NEW j \in 1..Len(rest), rest[i].flow = rest[j].flow
               PROVE  i = j
    OBVIOUS
  <2>1. i + k \in 1..Len(a) /\ j + k \in 1..Len(a) /\ a[i + k].flow = a[j + k].flow
    BY <1>3
  <2>2. i + k = j + k
    BY <1>1, <2>1
  <2>3. QED BY <1>2, <1>3, <2>2
<1>6. CASE Named(e, f) # {}
  <2>1. k = 0 /\ \E i \in 1..Len(a) : a[i].flow = f
    BY <1>6 DEF Prunable, Named, a
  <2>2. \E i \in 1..Len(rest) : rest[i].flow = f
    BY <1>1, <1>3, <2>1
  <2> DEFINE p == CHOOSE i \in 1..Len(rest) : rest[i].flow = f
  <2>3. p \in 1..Len(rest) /\ rest[p].flow = f
    BY <2>2
  <2>4. K = Without(rest, p)
    BY <1>4, <1>6
  <2> HIDE DEF p
  <2>5. /\ K \in Seq(Entries) /\ Len(K) = Len(rest) - 1
        /\ \A i \in 1..(Len(rest) - 1) : K[i] = IF i < p THEN rest[i] ELSE rest[i + 1]
    BY <1>3, <2>3, <2>4, WithoutKeeps
  <2> DEFINE at(i) == IF i < p THEN i ELSE i + 1
  <2>6. \A i \in 1..Len(K) : at(i) \in 1..Len(rest) /\ at(i) # p /\ K[i] = rest[at(i)]
    BY <1>1, <1>2, <1>3, <2>3, <2>5
  <2>7. \A i, j \in 1..Len(K) : at(i) = at(j) => i = j
    BY <2>3, <2>5
  <2> HIDE DEF at
  <2>8. \A i \in 1..Len(K) : K[i].flow # f
    BY <1>5, <2>3, <2>6
  <2>9. \A i, j \in 1..Len(K) : K[i].flow = K[j].flow => i = j
    BY <1>5, <2>6, <2>7
  <2>10. \A i \in 1..Len(K) : \E j \in 1..Len(a) : K[i] = a[j] /\ a[j].flow # f
    BY <1>3, <2>6, <2>8
  <2>11. Len(K) < Cap
    BY <1>1, <1>2, <1>3, <2>5
  <2>12. QED BY <2>5, <2>9, <2>10, <2>11 DEF a, K
<1>7. CASE Named(e, f) = {}
  <2>1. \A j \in 1..Len(a) : a[j].flow # f
    BY <1>7 DEF Named, a
  <2>2. CASE Len(rest) >= Cap
    <3>1. K = Tail(rest) /\ rest # <<>>
      BY <1>1, <1>3, <1>4, <1>7, <2>2, PoolAssumption
    <3>2. /\ K \in Seq(Entries) /\ Len(K) = Len(rest) - 1
          /\ \A i \in 1..Len(K) : K[i] = rest[i + 1] /\ i + 1 \in 1..Len(rest)
      BY <1>3, <3>1
    <3>3. \A i, j \in 1..Len(K) : K[i].flow = K[j].flow => i = j
      <4> SUFFICES ASSUME NEW i \in 1..Len(K), NEW j \in 1..Len(K), K[i].flow = K[j].flow PROVE i = j
        OBVIOUS
      <4>1. i + 1 = j + 1
        BY <1>5, <3>2
      <4>2. QED BY <3>2, <4>1
    <3>4. \A i \in 1..Len(K) : \E j \in 1..Len(a) : K[i] = a[j] /\ a[j].flow # f
      BY <1>3, <2>1, <3>2
    <3>5. Len(K) < Cap
      BY <1>1, <1>2, <1>3, <3>2
    <3>6. QED BY <3>2, <3>3, <3>4, <3>5 DEF a, K
  <2>3. CASE Len(rest) < Cap
    <3>1. K = rest
      BY <1>1, <1>2, <1>3, <1>4, <1>7, <2>3
    <3>2. \A i \in 1..Len(K) : \E j \in 1..Len(a) : K[i] = a[j] /\ a[j].flow # f
      BY <1>3, <2>1, <3>1
    <3>3. QED BY <1>3, <1>5, <2>3, <3>1, <3>2 DEF a, K
  <2>4. QED BY <1>1, <1>2, <1>3, <2>2, <2>3
<1>8. QED BY <1>6, <1>7

\* A flow whose packets wait keeps the lane they are on.
LEMMA ChosenLane ==
  ASSUME NEW e \in Ends, NEW f \in Flows, NEW c \in Choices(e, f),
         affinity[e] \in Seq(Entries), Placed(waiting[e], affinity[e], lanes[e])
  PROVE  /\ c \in lanes[e]
         /\ \A i \in 1..Len(waiting[e]) : waiting[e][i].flow = f /\ ~waiting[e][i].lost => waiting[e][i].lane = c
<1> DEFINE a == affinity[e]
<1>1. \A i, j \in 1..Len(a) : a[i].flow = a[j].flow => i = j
  BY DEF Placed
<1>2. Named(e, f) = {a[i].lane : i \in {j \in 1..Len(a) : a[j].flow = f}}
  BY DEF Named
<1> HIDE DEF a
<1>3. \A x, y \in Named(e, f) : x = y
  BY <1>1, <1>2
<1>4. c \in lanes[e]
  <2>1. CASE Named(e, f) \cap lanes[e] # {}
    BY <1>3, <2>1 DEF Choices
  <2>2. CASE Named(e, f) \cap lanes[e] = {}
    BY <2>2 DEF Choices, Preferred
  <2>3. QED BY <2>1, <2>2
<1>5. ASSUME NEW i \in 1..Len(waiting[e]), waiting[e][i].flow = f, ~waiting[e][i].lost
      PROVE  waiting[e][i].lane = c
  <2>1. PICK k \in 1..Len(a) : a[k].flow = waiting[e][i].flow /\ a[k].lane = waiting[e][i].lane
    BY <1>5, Zenon DEF Placed, a
  <2>2. waiting[e][i].lane \in Named(e, f) \cap lanes[e]
    BY <1>2, <1>5, <2>1 DEF Placed
  <2>3. c \in Named(e, f)
    BY <2>2 DEF Choices
  <2>4. QED BY <1>3, <2>2, <2>3
<1>6. QED BY <1>4, <1>5

Known(e, f, c, k) == Append(Kept(e, f, k), [flow |-> f, lane |-> c])
Marked(e, known) ==
  [i \in 1..Len(waiting[e]) |->
    [waiting[e][i] EXCEPT !.lost = @ \/ waiting[e][i].flow \notin Remembered(known)]]

LEMMA AppendKeeps ==
  ASSUME NEW S, NEW s \in Seq(S), NEW x \in S
  PROVE  /\ Append(s, x) \in Seq(S) /\ Len(Append(s, x)) = Len(s) + 1 /\ Len(s) \in Nat
         /\ Append(s, x)[Len(s) + 1] = x /\ \A i \in 1..Len(s) : Append(s, x)[i] = s[i]
         /\ \A i \in 1..(Len(s) + 1) : i \in 1..Len(s) \/ i = Len(s) + 1
OBVIOUS

\* The queue and the table after a packet of flow f was read for lane c.
LEMMA ReadPlaced ==
  ASSUME NEW e \in Ends, NEW f \in Flows, NEW c \in Choices(e, f), NEW k \in Prunable(e, f),
         waiting[e] \in Seq(Packets), affinity[e] \in Seq(Entries), lanes[e] \subseteq Conns,
         Placed(waiting[e], affinity[e], lanes[e]),
         NEW known, known = Known(e, f, c, k), NEW marked, marked = Marked(e, known)
  PROVE  /\ known \in Seq(Entries) /\ marked \in Seq(Packets)
         /\ Placed(marked, known, lanes[e])
         /\ Append(marked, [flow |-> f, lane |-> c, lost |-> FALSE]) \in Seq(Packets)
         /\ Placed(Append(marked, [flow |-> f, lane |-> c, lost |-> FALSE]), known, lanes[e])
<1> DEFINE w == waiting[e]
           a == affinity[e]
           K == Kept(e, f, k)
           x == [flow |-> f, lane |-> c]
           z == [flow |-> f, lane |-> c, lost |-> FALSE]
<1>1. /\ c \in lanes[e] /\ c \in Conns
      /\ \A i \in 1..Len(w) : w[i].flow = f /\ ~w[i].lost => w[i].lane = c
  BY ChosenLane
<1>2. /\ K \in Seq(Entries) /\ Len(K) < Cap /\ Cap \in Nat
      /\ \A i \in 1..Len(K) : \E j \in 1..Len(a) : K[i] = a[j] /\ a[j].flow # f
      /\ \A i, j \in 1..Len(K) : K[i].flow = K[j].flow => i = j
  BY KeptTable, PoolAssumption
<1>3. x \in Entries /\ x.flow = f /\ x.lane = c
  BY <1>1 DEF Entries
<1>4. z \in Packets /\ z.flow = f /\ z.lane = c /\ z.lost = FALSE
  BY <1>1 DEF Packets
<1>5. w \in Seq(Packets) /\ a \in Seq(Entries) /\ Placed(w, a, lanes[e]) /\ known = Append(K, x)
  BY DEF Known
<1>6. /\ marked \in Seq(Packets) /\ Len(marked) = Len(w) /\ Len(w) \in Nat
      /\ \A i \in 1..Len(w) : /\ marked[i].flow = w[i].flow /\ marked[i].lane = w[i].lane
                              /\ ~marked[i].lost => ~w[i].lost /\ w[i].flow \in Remembered(known)
  <2>1. \A i \in 1..Len(w) : w[i] \in Packets
    BY <1>5
  <2>2. ASSUME NEW i \in 1..Len(w)
        PROVE  /\ marked[i] \in Packets /\ marked[i].flow = w[i].flow /\ marked[i].lane = w[i].lane
               /\ ~marked[i].lost => ~w[i].lost /\ w[i].flow \in Remembered(known)
    <3> DEFINE b == w[i].lost \/ w[i].flow \notin Remembered(known)
    <3>1. marked[i] = [w[i] EXCEPT !.lost = b] /\ b \in BOOLEAN
      BY DEF Marked
    <3>2. w[i] \in Packets
      BY <2>1
    <3> HIDE DEF b, w
    <3>3. marked[i] \in Packets /\ marked[i].flow = w[i].flow /\ marked[i].lane = w[i].lane
      BY <3>1, <3>2 DEF Packets
    <3>4. marked[i].lost = b
      BY <3>1, <3>2, Zenon DEF Packets
    <3>5. ~b => ~w[i].lost /\ w[i].flow \in Remembered(known)
      BY Zenon DEF b
    <3>6. QED BY <3>3, <3>4, <3>5, Zenon
  <2>3. marked \in Seq(Packets) /\ Len(marked) = Len(w) /\ Len(w) \in Nat
    <3>1. Len(w) \in Nat
      BY <1>5
    <3>2. marked \in [1..Len(w) -> Packets]
      <4>1. marked = [i \in 1..Len(w) |-> marked[i]]
        BY DEF Marked
      <4> HIDE DEF w
      <4>2. QED BY <2>2, <4>1
    <3> HIDE DEF w
    <3>3. QED BY <3>1, <3>2
  <2> HIDE DEF w
  <2>4. QED BY <2>2, <2>3, Zenon
<1> HIDE DEF w, a, K, x, z
<1>7. /\ known \in Seq(Entries) /\ Len(known) = Len(K) + 1 /\ Len(K) \in Nat /\ known[Len(K) + 1] = x
      /\ \A i \in 1..Len(K) : known[i] = K[i]
      /\ \A i \in 1..Len(known) : i \in 1..Len(K) \/ i = Len(K) + 1
  <2>1. K \in Seq(Entries) /\ x \in Entries /\ known = Append(K, x) /\ Len(K) \in Nat
    BY <1>2, <1>3, <1>5
  <2>2. QED BY <2>1, AppendKeeps
<1>8. \A i \in 1..Len(K) : known[i].flow # f /\ \E j \in 1..Len(a) : known[i] = a[j]
  BY <1>2, <1>7
<1>9. \A i, j \in 1..Len(known) : known[i].flow = known[j].flow => i = j
  <2> SUFFICES ASSUME NEW i \in 1..Len(known), NEW j \in 1..Len(known), known[i].flow = known[j].flow
               PROVE  i = j
    OBVIOUS
  <2>1. CASE i \in 1..Len(K) /\ j \in 1..Len(K)
    <3>1. K[i].flow = K[j].flow
      BY <1>7, <2>1
    <3>2. QED BY <1>2, <2>1, <3>1
  <2>2. CASE i = Len(K) + 1 /\ j = Len(K) + 1
    BY <2>2
  <2>3. known[Len(K) + 1].flow = f
    BY <1>3, <1>7
  <2>4. (i = Len(K) + 1) <=> (j = Len(K) + 1)
    BY <1>7, <1>8, <2>3
  <2>5. QED BY <1>7, <2>1, <2>2, <2>4
<1>10. Len(known) <= Cap
  BY <1>2, <1>7
<1>11. ASSUME NEW i \in 1..Len(marked), ~marked[i].lost
       PROVE  \E n \in 1..Len(known) : known[n].flow = marked[i].flow /\ known[n].lane = marked[i].lane
  <2>1. /\ i \in 1..Len(w) /\ ~w[i].lost /\ w[i].flow \in Remembered(known)
        /\ marked[i].flow = w[i].flow /\ marked[i].lane = w[i].lane
    BY <1>6, <1>11, Zenon
  <2>2. CASE w[i].flow = f
    <3>1. w[i].lane = c
      BY <1>1, <2>1, <2>2, Zenon DEF w
    <3>2. Len(K) + 1 \in 1..Len(known) /\ known[Len(K) + 1].flow = f /\ known[Len(K) + 1].lane = c
      BY <1>3, <1>7
    <3>3. QED BY <2>1, <2>2, <3>1, <3>2
  <2>3. CASE w[i].flow # f
    <3>1. PICK n \in 1..Len(known) : known[n].flow = w[i].flow
      BY <2>1 DEF Remembered
    <3>2. PICK j \in 1..Len(a) : known[n] = a[j]
      BY <1>3, <1>7, <1>8, <2>3, <3>1
    <3>3. PICK m \in 1..Len(a) : a[m].flow = w[i].flow /\ a[m].lane = w[i].lane
      BY <1>5, <2>1, Zenon DEF Placed
    <3>4. j = m
      BY <1>5, <3>1, <3>2, <3>3 DEF Placed
    <3>5. QED BY <2>1, <3>1, <3>2, <3>3, <3>4
  <2>4. QED BY <2>2, <2>3
<1>12. \A i \in 1..Len(marked) : marked[i].lane \in lanes[e]
  BY <1>5, <1>6 DEF Placed
<1>13. Placed(marked, known, lanes[e])
  <2>1. \A i \in 1..Len(marked) : ~marked[i].lost =>
          \E n \in 1..Len(known) : known[n].flow = marked[i].flow /\ known[n].lane = marked[i].lane
    BY <1>11, Zenon
  <2>2. QED BY <1>9, <1>10, <1>12, <2>1 DEF Placed
<1> DEFINE v == Append(marked, z)
<1>14. /\ v \in Seq(Packets) /\ Len(v) = Len(marked) + 1 /\ v[Len(marked) + 1] = z
       /\ \A i \in 1..Len(marked) : v[i] = marked[i]
       /\ \A i \in 1..Len(v) : i \in 1..Len(marked) \/ i = Len(marked) + 1
  BY <1>4, <1>6, AppendKeeps
<1> HIDE DEF v
<1>15. \A i \in 1..Len(v) : v[i].lane \in lanes[e]
  BY <1>1, <1>4, <1>12, <1>14
<1>16. ASSUME NEW i \in 1..Len(v), ~v[i].lost
       PROVE  \E n \in 1..Len(known) : known[n].flow = v[i].flow /\ known[n].lane = v[i].lane
  <2>1. CASE i \in 1..Len(marked)
    <3>1. v[i] = marked[i]
      BY <1>14, <2>1
    <3>2. ~marked[i].lost
      BY <1>16, <3>1
    <3>3. PICK n \in 1..Len(known) : known[n].flow = marked[i].flow /\ known[n].lane = marked[i].lane
      BY <1>11, <2>1, <3>2
    <3>4. QED BY <3>1, <3>3
  <2>2. CASE i = Len(marked) + 1
    <3>1. v[i].flow = f /\ v[i].lane = c
      BY <1>4, <1>14, <2>2
    <3>2. Len(K) + 1 \in 1..Len(known) /\ known[Len(K) + 1].flow = f /\ known[Len(K) + 1].lane = c
      BY <1>3, <1>7
    <3>3. QED BY <3>1, <3>2
  <2>3. QED BY <1>14, <2>1, <2>2
<1>17. Placed(v, known, lanes[e])
  <2>1. \A i \in 1..Len(v) : ~v[i].lost =>
          \E n \in 1..Len(known) : known[n].flow = v[i].flow /\ known[n].lane = v[i].lane
    BY <1>16, Zenon
  <2>2. QED BY <1>9, <1>10, <1>15, <2>1 DEF Placed
<1>18. QED BY <1>6, <1>7, <1>13, <1>14, <1>17 DEF v, z

------------------------------------------------------------------------------
LEMMA InitData == Init => DataInv
<1> SUFFICES ASSUME Init PROVE DataInv
  OBVIOUS
<1>1. DataTypes /\ \A e \in Ends : waiting[e] = <<>> /\ affinity[e] = <<>>
  BY DEF Init, DataTypes
<1>2. QED BY <1>1, PoolAssumption DEF DataInv, Placed

\* A step that changes the queue and the table of one end only.
LEMMA OneEnd ==
  ASSUME DataInv, NEW e \in Ends, NEW v \in Seq(Packets), NEW b \in Seq(Entries),
         waiting' = [waiting EXCEPT ![e] = v], affinity' = [affinity EXCEPT ![e] = b],
         Placed(v, b, lanes'[e]), \A d \in Ends : d # e => lanes[d] \subseteq lanes'[d]
  PROVE  DataInv'
<1>1. /\ DataTypes' /\ waiting'[e] = v /\ affinity'[e] = b
      /\ \A d \in Ends : d # e => waiting'[d] = waiting[d] /\ affinity'[d] = affinity[d]
  BY DEF DataInv, DataTypes
<1>2. \A d \in Ends : d # e => Placed(waiting[d], affinity[d], lanes'[d])
  BY FewerPlaced DEF DataInv
<1>3. QED BY <1>1, <1>2 DEF DataInv

\* Lanes may be added under the packets.
LEMMA MoreLanes ==
  ASSUME DataInv, UNCHANGED <<waiting, affinity>>, \A d \in Ends : lanes[d] \subseteq lanes'[d]
  PROVE  DataInv'
<1>1. \A d \in Ends : Placed(waiting[d], affinity[d], lanes'[d])
  BY FewerPlaced DEF DataInv
<1>2. QED BY <1>1 DEF DataInv, DataTypes

LEMMA NextData == LaneInv /\ DataInv /\ [Next]_vars => DataInv'
<1> SUFFICES ASSUME LaneInv, DataInv, [Next]_vars PROVE DataInv'
  OBVIOUS
<1>1. LaneTypes /\ DataTypes
  BY DEF LaneInv, DataInv
<1>2. ASSUME NEW e \in Ends
      PROVE  /\ waiting[e] \in Seq(Packets) /\ affinity[e] \in Seq(Entries) /\ lanes[e] \subseteq Conns
             /\ Placed(waiting[e], affinity[e], lanes[e])
             /\ waiting = [waiting EXCEPT ![e] = waiting[e]]
             /\ affinity = [affinity EXCEPT ![e] = affinity[e]]
  BY <1>1 DEF DataInv, DataTypes, LaneTypes
<1>3. ASSUME NEW e \in Ends, Prune(e) PROVE DataInv'
  <2>1. PICK k \in Idle(e) : affinity' = [affinity EXCEPT ![e] = SubSeq(affinity[e], k + 1, Len(affinity[e]))]
    BY <1>2, <1>3 DEF Prune
  <2>2. waiting' = [waiting EXCEPT ![e] = waiting[e]] /\ lanes' = lanes
    BY <1>2, <1>3 DEF Prune, Quiet, laneVars
  <2>3. /\ k \in 0..Len(affinity[e])
        /\ \A i \in 1..k : \A j \in 1..Len(waiting[e]) : waiting[e][j].flow # affinity[e][i].flow
    BY DEF Idle
  <2>4. /\ SubSeq(affinity[e], k + 1, Len(affinity[e])) \in Seq(Entries)
        /\ Placed(waiting[e], SubSeq(affinity[e], k + 1, Len(affinity[e])), lanes[e])
    BY <1>2, <2>3, PrunedPlaced
  <2>5. QED BY <1>2, <2>1, <2>2, <2>4, OneEnd
<1>4. ASSUME NEW e \in Ends, NEW v \in Seq(Packets), waiting' = [waiting EXCEPT ![e] = v],
             UNCHANGED affinity, Quiet,
             \A i \in 1..Len(v) : \E j \in 1..Len(waiting[e]) : v[i] = waiting[e][j]
      PROVE  DataInv'
  <2>1. affinity' = [affinity EXCEPT ![e] = affinity[e]] /\ lanes' = lanes
    BY <1>2, <1>4 DEF Quiet, laneVars
  <2>2. Placed(v, affinity[e], lanes[e])
    BY <1>2, <1>4, FewerPlaced
  <2>3. QED BY <1>2, <1>4, <2>1, <2>2, OneEnd
<1>5. ASSUME NEW e \in Ends, Expire(e) PROVE DataInv'
  <2> DEFINE v == Tail(waiting[e])
  <2>1. /\ v \in Seq(Packets) /\ Len(v) = Len(waiting[e]) - 1
        /\ \A i \in 1..Len(v) : i + 1 \in 1..Len(waiting[e]) /\ v[i] = waiting[e][i + 1]
    BY <1>2, <1>5 DEF Expire
  <2>2. waiting' = [waiting EXCEPT ![e] = v] /\ UNCHANGED affinity /\ Quiet
    BY <1>5 DEF Expire
  <2> HIDE DEF v
  <2>3. \A i \in 1..Len(v) : \E j \in 1..Len(waiting[e]) : v[i] = waiting[e][j]
    BY <2>1
  <2>4. QED BY <1>4, <2>1, <2>2, <2>3
<1>6. ASSUME NEW e \in Ends, NEW c \in Conns, Send(e, c) PROVE DataInv'
  <2>1. PICK i \in 1..Len(waiting[e]) : waiting' = [waiting EXCEPT ![e] = Without(waiting[e], i)]
    BY <1>6 DEF Send
  <2> DEFINE v == Without(waiting[e], i)
  <2>2. /\ v \in Seq(Packets) /\ Len(v) = Len(waiting[e]) - 1
        /\ \A k \in 1..(Len(waiting[e]) - 1) : v[k] = IF k < i THEN waiting[e][k] ELSE waiting[e][k + 1]
    BY <1>2, WithoutKeeps
  <2>3. waiting' = [waiting EXCEPT ![e] = v] /\ UNCHANGED affinity /\ Quiet
    BY <1>6, <2>1 DEF Send
  <2> HIDE DEF v
  <2>4. \A k \in 1..Len(v) : \E j \in 1..Len(waiting[e]) : v[k] = waiting[e][j]
    <3>1. ASSUME NEW k \in 1..Len(v) PROVE \E j \in 1..Len(waiting[e]) : v[k] = waiting[e][j]
      <4>1. k \in 1..Len(waiting[e]) /\ k + 1 \in 1..Len(waiting[e]) /\ k \in 1..(Len(waiting[e]) - 1)
        BY <1>2, <2>2
      <4>2. QED BY <2>2, <4>1
    <3>2. QED BY <3>1
  <2>5. QED BY <1>4, <2>2, <2>3, <2>4
<1>7. ASSUME NEW e \in Ends, NEW f \in Flows, ReadPacket(e, f) PROVE DataInv'
  <2>1. PICK c \in Choices(e, f), k \in Prunable(e, f) :
          LET known == Append(Kept(e, f, k), [flow |-> f, lane |-> c])
              marked == [i \in 1..Len(waiting[e]) |->
                          [waiting[e][i] EXCEPT !.lost = @ \/ waiting[e][i].flow \notin Remembered(known)]]
          IN  /\ affinity' = [affinity EXCEPT ![e] = known]
              /\ waiting' = [waiting EXCEPT ![e] =
                   IF Len(@) >= QueuePackets THEN marked
                   ELSE Append(marked, [flow |-> f, lane |-> c, lost |-> FALSE])]
    BY <1>7 DEF ReadPacket
  <2> DEFINE known == Known(e, f, c, k)
             marked == Marked(e, known)
             longer == Append(marked, [flow |-> f, lane |-> c, lost |-> FALSE])
  <2>2. /\ known \in Seq(Entries) /\ marked \in Seq(Packets) /\ longer \in Seq(Packets)
        /\ Placed(marked, known, lanes[e]) /\ Placed(longer, known, lanes[e])
    BY <1>2, ReadPlaced
  <2>3. /\ affinity' = [affinity EXCEPT ![e] = known]
        /\ waiting' = [waiting EXCEPT ![e] = IF Len(waiting[e]) >= QueuePackets THEN marked ELSE longer]
        /\ lanes' = lanes
    BY <1>2, <1>7, <2>1 DEF ReadPacket, Quiet, laneVars, Known, Marked
  <2> HIDE DEF known, marked, longer
  <2>4. CASE Len(waiting[e]) >= QueuePackets
    <3>1. waiting' = [waiting EXCEPT ![e] = marked]
      BY <2>3, <2>4
    <3>2. QED BY <2>2, <2>3, <3>1, OneEnd
  <2>5. CASE ~(Len(waiting[e]) >= QueuePackets)
    <3>1. waiting' = [waiting EXCEPT ![e] = longer]
      BY <2>3, <2>5
    <3>2. QED BY <2>2, <2>3, <3>1, OneEnd
  <2>6. QED BY <2>4, <2>5
<1>8. ASSUME NEW e \in Ends, NEW c \in Conns, Detach(e, c) PROVE DataInv'
  <2> DEFINE a == affinity[e]
             b == [k \in 1..Len(a) |-> IF a[k].lane = c THEN [a[k] EXCEPT !.lane = None] ELSE a[k]]
             v == OffLane(waiting[e], c)
  <2>1. v \in Seq(Packets) /\ b \in Seq(Entries) /\ Placed(v, b, lanes[e] \ {c})
    BY <1>2, DetachedPlaced
  <2>2. /\ waiting' = [waiting EXCEPT ![e] = v] /\ affinity' = [affinity EXCEPT ![e] = b]
        /\ lanes' = [lanes EXCEPT ![e] = @ \ {c}]
    BY <1>1, <1>8 DEF Detach, DataTypes
  <2> HIDE DEF v, b
  <2>3. lanes'[e] = lanes[e] \ {c} /\ \A d \in Ends : d # e => lanes[d] \subseteq lanes'[d]
    BY <1>1, <2>2 DEF LaneTypes
  <2>4. QED BY <2>1, <2>2, <2>3, OneEnd
<1>9. ASSUME NEW e \in Ends, NEW c \in Conns, DrainComplete(e, c) \/ PeerClosed(e, c) \/ LaneFails(e, c)
      PROVE  DataInv'
  BY <1>8, <1>9 DEF DrainComplete, PeerClosed, LaneFails
<1>10. CASE HarvestLane \/ \E c \in Conns : TakeReady(c)
  <2>1. UNCHANGED <<waiting, affinity>> /\ \A d \in Ends : lanes[d] \subseteq lanes'[d]
    BY <1>1, <1>10 DEF HarvestLane, TakeReady, Attach, dataVars, LaneTypes
  <2>2. QED BY <2>1, MoreLanes
<1>11. CASE \/ HarvestFailure \/ PlanReplacement \/ PlanDial \/ UpgradeDone \/ DialFails \/ Tick
            \/ \E c \in Conns : Claim(c) \/ Obey(c)
  <2>1. UNCHANGED <<waiting, affinity, lanes>>
    BY <1>11 DEF HarvestFailure, PlanReplacement, PlanDial, UpgradeDone, DialFails, Tick, Claim, Obey,
       dataVars, laneVars
  <2>2. QED BY <2>1, MoreLanes
<1>12. CASE UNCHANGED vars
  <2>1. UNCHANGED <<waiting, affinity, lanes>>
    BY <1>12 DEF vars, dataVars, laneVars
  <2>2. QED BY <2>1, MoreLanes
<1>13. CASE Next
  BY <1>3, <1>5, <1>6, <1>7, <1>9, <1>10, <1>11, <1>13 DEF Next, Loop
<1>14. QED BY <1>12, <1>13

\* All waiting packets of a flow that still has its entry are on one lane,
\* whatever lanes fail, drain or are replaced, for every cap of the table.
THEOREM FlowsStayTogether == Spec => []OneLane
<1>1. DataInv => OneLane
  <2> SUFFICES ASSUME DataInv, NEW e \in Ends
               PROVE  /\ Len(affinity[e]) <= Cap
                      /\ \A i, j \in 1..Len(waiting[e]) :
                           /\ waiting[e][i].flow = waiting[e][j].flow
                           /\ ~waiting[e][i].lost /\ ~waiting[e][j].lost
                           => waiting[e][i].lane = waiting[e][j].lane
    BY DEF OneLane
  <2>1. Placed(waiting[e], affinity[e], lanes[e])
    BY DEF DataInv
  <2>2. ASSUME NEW i \in 1..Len(waiting[e]), NEW j \in 1..Len(waiting[e]),
               waiting[e][i].flow = waiting[e][j].flow, ~waiting[e][i].lost, ~waiting[e][j].lost
        PROVE  waiting[e][i].lane = waiting[e][j].lane
    <3>1. PICK k \in 1..Len(affinity[e]) :
            affinity[e][k].flow = waiting[e][i].flow /\ affinity[e][k].lane = waiting[e][i].lane
      BY <2>1, <2>2, Zenon DEF Placed
    <3>2. PICK n \in 1..Len(affinity[e]) :
            affinity[e][n].flow = waiting[e][j].flow /\ affinity[e][n].lane = waiting[e][j].lane
      BY <2>1, <2>2, Zenon DEF Placed
    <3>3. k = n
      BY <2>1, <2>2, <3>1, <3>2 DEF Placed
    <3>4. QED BY <3>1, <3>2, <3>3
  <2>3. QED BY <2>1, <2>2, Zenon DEF Placed
<1>2. QED BY <1>1, InitData, NextData, LanesInv, PTL DEF Spec
=============================================================================
