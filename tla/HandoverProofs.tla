--------------------------- MODULE HandoverProofs ---------------------------
(***************************************************************************)
(* For every number of connections, trial rounds and faults: neither end   *)
(* gets ahead of the commit, and as long as nothing outside the two        *)
(* programs fails, a connected client never dials from cold again.         *)
(***************************************************************************)
EXTENDS Handover, FiniteSetTheorems, TLAPS

\* The types of the variables.
Types ==
  /\ cl \in [Conns -> {"none", "shake", "open", "rejected"}]
  /\ sv \in [Conns -> {"none", "shake", "acked", "ready", "live"}]
  /\ sent \in [Conns -> 0..Commit] /\ answered \in [Conns -> 0..Commit]
  /\ link \in [Conns -> BOOLEAN]
  /\ mode \in {"dial", "online", "await"}
  /\ dialing \in Conns \cup {None} /\ active \in Conns \cup {None} /\ warm \in Conns \cup {None}
  /\ ready \in Seq(Conns) /\ live \in Conns \cup {None}
  /\ faults \in 0..MaxFaults

\* The exchange is in lock step, and each end moves on only when the commit has
\* been sent, respectively answered.
LockStep ==
  \A c \in Conns :
    /\ answered[c] <= sent[c]
    /\ sv[c] = "shake" => answered[c] < Commit
    /\ sv[c] \in {"acked", "ready", "live"} => sent[c] = Commit /\ answered[c] = Commit
    /\ cl[c] = "open" => answered[c] = Commit

\* What the client's loop holds in each of its modes.
Roles ==
  /\ mode = "dial" => active = None /\ warm = None
  /\ mode = "online" => active \in Conns /\ cl[active] = "open" /\ dialing = None
  /\ mode = "await" => active = None /\ dialing = None /\ warm \in Conns
  /\ warm # None => warm # active /\ cl[warm] # "none"
  /\ dialing # None => cl[dialing] # "none"

\* The queue and the tunnel of the server are the connections in these states.
Queue ==
  /\ \A i, j \in DOMAIN ready : ready[i] = ready[j] => i = j
  /\ \A c \in Conns : sv[c] = "ready" <=> c \in Range(ready)
  /\ \A c \in Conns : sv[c] = "live" <=> c = live

IInv == Types /\ LockStep /\ Roles /\ Queue

\* The state while the budget of faults is untouched.  A connection the client
\* gave up went no further at the server, and one it still uses is known there,
\* save the tunnel a replacement has displaced.
Known ==
  /\ \A c \in Conns : link[c]
  /\ \A c \in Conns : cl[c] = "rejected" => sv[c] \in {"none", "shake"} /\ sent[c] = answered[c]
  /\ \A c \in Conns : cl[c] = "none" => sv[c] \in {"none", "live"}
  /\ \A c \in Conns : cl[c] \in {"shake", "open"} =>
       c = active \/ (c \in {dialing, warm} /\ sv[c] # "none")

\* At most one connection waits to be taken, and nothing is acknowledged behind
\* it, so a slot is free when the worker claims one.
OneQueued ==
  /\ ready # <<>> => Len(ready) = 1
  /\ \A c \in Conns : sv[c] = "acked" => ready = <<>>

\* A trial starts only on a live tunnel, and by the time that tunnel is closed
\* under it the server has already queued the replacement.
Covered ==
  /\ mode = "dial" =>
       /\ \A c \in Conns : c # dialing => sv[c] = "none"
       /\ dialing # None => cl[dialing] # "rejected"
  /\ mode = "online" /\ warm = None => sv[active] # "none"
  /\ mode = "online" /\ warm # None => sv[active] \in {"none", "live"}
  /\ warm # None /\ sv[warm] \in {"none", "shake", "acked"} =>
       ready = <<>> /\ mode = "online" /\ sv[active] = "live"

Undisturbed == Known /\ OneQueued /\ Covered

Calm == faults = MaxFaults => Undisturbed

------------------------------------------------------------------------------
LEMMA Constants == TrialRounds \in Nat /\ Commit \in Nat /\ Commit >= 3 /\ MaxFaults \in Nat /\ None \notin Conns
BY HandoverAssumption DEF Commit, Steps

LEMMA InitInv == Init => IInv
<1> SUFFICES ASSUME Init PROVE IInv
  OBVIOUS
<1>1. Types
  BY Constants DEF Init, Types
<1>2. LockStep
  BY Constants DEF Init, LockStep
<1>3. Roles
  BY Constants DEF Init, Roles
<1>4. Queue
  BY Constants DEF Init, Queue, Range
<1>5. QED BY <1>1, <1>2, <1>3, <1>4 DEF IInv

\* Appending to the queue and taking its head, as sets.
LEMMA QueueAppend ==
  ASSUME NEW q \in Seq(Conns), NEW c \in Conns, c \notin Range(q),
         \A i, j \in DOMAIN q : q[i] = q[j] => i = j
  PROVE  /\ Append(q, c) \in Seq(Conns) /\ Len(Append(q, c)) = Len(q) + 1 /\ Len(q) \in Nat
         /\ Range(Append(q, c)) = Range(q) \cup {c}
         /\ \A i, j \in DOMAIN Append(q, c) : Append(q, c)[i] = Append(q, c)[j] => i = j
<1>1. /\ Append(q, c) \in Seq(Conns) /\ Len(Append(q, c)) = Len(q) + 1 /\ Len(q) \in Nat
      /\ DOMAIN q = 1..Len(q) /\ DOMAIN Append(q, c) = 1..(Len(q) + 1)
      /\ \A i \in 1..Len(q) : Append(q, c)[i] = q[i]
      /\ Append(q, c)[Len(q) + 1] = c
  OBVIOUS
<1>2. \A i \in 1..(Len(q) + 1) : i \in 1..Len(q) \/ i = Len(q) + 1
  BY <1>1
<1>3. 1..Len(q) \subseteq 1..(Len(q) + 1) /\ Len(q) + 1 \in 1..(Len(q) + 1)
  BY <1>1
<1>4. Range(Append(q, c)) = Range(q) \cup {c}
  <2>1. \A x : x \in Range(q) <=> \E i \in 1..Len(q) : q[i] = x
    BY <1>1, Zenon DEF Range
  <2>2. \A x : x \in Range(Append(q, c)) <=> \E i \in 1..(Len(q) + 1) : Append(q, c)[i] = x
    BY <1>1, Zenon DEF Range
  <2>3. QED BY <1>1, <1>2, <1>3, <2>1, <2>2
<1>5. \A i, j \in DOMAIN Append(q, c) : Append(q, c)[i] = Append(q, c)[j] => i = j
  BY <1>1 DEF Range
<1>6. QED BY <1>1, <1>4, <1>5

LEMMA QueueTake ==
  ASSUME ready \in Seq(Conns), ready # <<>>,
         \A i, j \in DOMAIN ready : ready[i] = ready[j] => i = j, ready' = Tail(ready)
  PROVE  /\ Head(ready) \in Conns /\ Head(ready) \in Range(ready)
         /\ ready' \in Seq(Conns) /\ Len(ready) \in Nat \ {0}
         /\ Len(ready) = 1 => ready' = <<>>
         /\ Range(ready') = Range(ready) \ {Head(ready)}
         /\ \A i, j \in DOMAIN ready' : ready'[i] = ready'[j] => i = j
<1>1. /\ Len(ready) \in Nat \ {0} /\ DOMAIN ready = 1..Len(ready)
      /\ ready' \in Seq(Conns) /\ Len(ready') = Len(ready) - 1 /\ DOMAIN ready' = 1..(Len(ready) - 1)
      /\ \A i \in 1..(Len(ready) - 1) : ready'[i] = ready[i + 1]
      /\ Head(ready) = ready[1] /\ 1 \in 1..Len(ready) /\ ready[1] \in Conns
  OBVIOUS
<1>2. Len(ready) = 1 => ready' = <<>>
  BY <1>1
<1>3. \A i, j \in DOMAIN ready' : ready'[i] = ready'[j] => i = j
  BY <1>1
<1>4. Range(ready') \subseteq Range(ready) /\ Head(ready) \in Range(ready)
  BY <1>1 DEF Range
<1>5. Head(ready) \notin Range(ready')
  BY <1>1 DEF Range
<1>6. ASSUME NEW x \in Range(ready), x # Head(ready)
      PROVE  x \in Range(ready')
  <2>1. PICK i \in 1..Len(ready) : ready[i] = x
    BY <1>1 DEF Range
  <2>2. i - 1 \in 1..(Len(ready) - 1) /\ (i - 1) + 1 = i
    BY <1>1, <1>6, <2>1
  <2>3. ready'[i - 1] = x
    BY <1>1, <2>1, <2>2
  <2>4. QED BY <1>1, <2>2, <2>3 DEF Range
<1>7. QED BY <1>1, <1>2, <1>3, <1>4, <1>5, <1>6

------------------------------------------------------------------------------
\* One step per action keeps the invariant.
LEMMA HandshakeInv ==
  ASSUME NEW c \in Conns, IInv,
         \/ Handshake(c) \/ RejectSlow(c) \/ ClientGiveUp(c) \/ ClientDeadline(c)
         \/ ServerGiveUp(c) \/ ServerDeadline(c) \/ Cut(c)
  PROVE  IInv'
<1> USE Constants DEF IInv
<1>1. CASE ClientSend(c)
  <2> USE <1>1 DEF ClientSend, cvars, svars
  <2>1. Types'
    BY DEF Types
  <2>2. LockStep'
    BY DEF LockStep, Types
  <2>3. QED BY <2>1, <2>2 DEF Roles, Queue
<1>2. CASE ClientOpen(c)
  <2> USE <1>2 DEF ClientOpen, cvars, svars
  <2>1. Types' /\ Queue'
    BY DEF Types, Queue
  <2>2. LockStep'
    BY DEF LockStep, Types
  <2>3. Roles'
    BY DEF Roles, Types
  <2>4. QED BY <2>1, <2>2, <2>3
<1>3. CASE RejectSlow(c) \/ ClientGiveUp(c) \/ ClientDeadline(c)
  <2> USE <1>3 DEF RejectSlow, ClientGiveUp, ClientDeadline, ClientFail, Fault, cvars, svars
  <2>0. faults' \in 0..MaxFaults
    BY DEF Types
  <2>1. Types' /\ Queue'
    BY <2>0 DEF Types, Queue
  <2>2. LockStep'
    BY DEF LockStep, Types
  <2>3. Roles'
    BY DEF Roles, Types
  <2>4. QED BY <2>1, <2>2, <2>3
<1>4. CASE ServerAnswer(c)
  <2> USE <1>4 DEF ServerAnswer, cvars, svars
  <2>1. Types'
    BY DEF Types
  <2>2. LockStep'
    BY DEF LockStep, Types
  <2>3. Roles'
    BY DEF Roles
  <2>4. Queue'
    BY DEF Queue, Types
  <2>5. QED BY <2>1, <2>2, <2>3, <2>4
<1>5. CASE ServerClaim(c)
  <2> USE <1>5 DEF ServerClaim, cvars
  <2>1. CASE sv' = [sv EXCEPT ![c] = "ready"] /\ ready' = Append(ready, c)
    <3>1. c \notin Range(ready)
      BY DEF Queue
    <3>2. /\ ready' \in Seq(Conns) /\ Range(ready') = Range(ready) \cup {c}
          /\ \A i, j \in DOMAIN ready' : ready'[i] = ready'[j] => i = j
      BY <2>1, <3>1, QueueAppend DEF Types, Queue
    <3>3. Types'
      BY <2>1, <3>2 DEF Types
    <3>4. LockStep'
      BY <2>1 DEF LockStep, Types
    <3>5. Queue'
      BY <2>1, <3>2 DEF Queue, Types
    <3>6. QED BY <3>3, <3>4, <3>5 DEF Roles
  <2>2. CASE sv' = [sv EXCEPT ![c] = "none"] /\ UNCHANGED ready
    <3>1. Types' /\ LockStep'
      BY <2>2 DEF Types, LockStep
    <3>2. Queue'
      BY <2>2 DEF Queue, Types
    <3>3. QED BY <3>1, <3>2 DEF Roles
  <2>3. QED BY <2>1, <2>2
<1>6. CASE ServerGiveUp(c) \/ ServerDeadline(c)
  <2> USE <1>6 DEF ServerGiveUp, ServerDeadline, ServerFail, Fault, cvars, svars
  <2>0. faults' \in 0..MaxFaults
    BY DEF Types
  <2>1. Types'
    BY <2>0 DEF Types
  <2>2. LockStep'
    BY DEF LockStep, Types
  <2>3. Queue'
    BY DEF Queue, Types
  <2>4. QED BY <2>1, <2>2, <2>3 DEF Roles
<1>7. CASE Cut(c)
  <2> USE <1>7 DEF Cut, Fault, cvars, svars
  <2>1. Types'
    BY DEF Types
  <2>2. QED BY <2>1 DEF LockStep, Roles, Queue
<1>8. QED BY <1>1, <1>2, <1>3, <1>4, <1>5, <1>6, <1>7 DEF Handshake

LEMMA ClientInv ==
  IInv /\ ((\E c \in Conns : Dial(c) \/ WarmStart(c)) \/ DialDone \/ WarmCommit \/ WarmRejected
           \/ AwaitWarm \/ ClientLose \/ ClientWatchdog) => IInv'
<1> USE Constants DEF IInv
<1>1. ASSUME IInv, NEW c \in Conns, Dial(c) \/ WarmStart(c) PROVE IInv'
  <2> USE <1>1 DEF Dial, WarmStart, Connect, Closed, svars
  <2>0. /\ Connect(c) /\ UNCHANGED <<mode, active, ready, live, faults>>
        /\ dialing' \in Conns \cup {None} /\ warm' \in Conns \cup {None}
    BY DEF Types
  <2>1. Types'
    BY <2>0 DEF Types
  <2>2. LockStep'
    BY <2>0 DEF LockStep, Types
  <2>3. Roles'
    BY DEF Roles, Types
  <2>4. Queue'
    BY DEF Queue, Types
  <2>5. QED BY <2>1, <2>2, <2>3, <2>4
<1>2. ASSUME IInv, DialDone \/ WarmRejected \/ AwaitWarm PROVE IInv'
  <2> USE <1>2 DEF DialDone, WarmRejected, AwaitWarm, hvars, svars
  <2>1. Types'
    BY DEF Types
  <2>2. Roles'
    BY DEF Roles, Types
  <2>3. QED BY <2>1, <2>2 DEF LockStep, Queue
<1>3. ASSUME IInv, WarmCommit PROVE IInv'
  <2> USE <1>3 DEF WarmCommit, svars
  <2>1. Types'
    BY DEF Types
  <2>2. Roles'
    BY DEF Roles, Types
  <2>3. LockStep'
    BY DEF LockStep, Types
  <2>4. QED BY <2>1, <2>2, <2>3 DEF Queue
<1>4. ASSUME IInv, ClientLose \/ ClientWatchdog PROVE IInv'
  <2> USE <1>4 DEF ClientLose, ClientWatchdog, ClientDown, Fault, svars
  <2>0. faults' \in 0..MaxFaults
    BY DEF Types
  <2>1. Types'
    BY <2>0 DEF Types
  <2>2. Roles'
    BY DEF Roles, Types
  <2>3. LockStep'
    BY DEF LockStep, Types
  <2>4. QED BY <2>1, <2>2, <2>3 DEF Queue
<1>5. QED BY <1>1, <1>2, <1>3, <1>4

LEMMA ServerInv == IInv /\ (Take \/ Switch \/ ServerLose \/ ServerWatchdog) => IInv'
<1> USE Constants DEF IInv
<1>1. ASSUME IInv, Take PROVE IInv'
  <2> USE <1>1 DEF Take, cvars
  <2>1. /\ Head(ready) \in Conns /\ Head(ready) \in Range(ready)
        /\ ready' \in Seq(Conns)
        /\ Range(ready') = Range(ready) \ {Head(ready)}
        /\ \A i, j \in DOMAIN ready' : ready'[i] = ready'[j] => i = j
    BY QueueTake DEF Types, Queue
  <2>2. sv[Head(ready)] = "ready"
    BY <2>1 DEF Queue
  <2>3. Types'
    BY <2>1 DEF Types
  <2>4. LockStep'
    BY <2>1, <2>2 DEF LockStep, Types
  <2>5. Queue'
    BY <2>1, <2>2 DEF Queue, Types
  <2>6. QED BY <2>3, <2>4, <2>5 DEF Roles
<1>2. ASSUME IInv, Switch \/ ServerLose \/ ServerWatchdog PROVE IInv'
  <2> USE <1>2 DEF Switch, ServerLose, ServerWatchdog, ServerDown, Fault, cvars
  <2>0. faults' \in 0..MaxFaults
    BY DEF Types
  <2>1. Types'
    BY <2>0 DEF Types
  <2>2. LockStep'
    BY DEF LockStep, Types
  <2>3. Queue'
    BY DEF Queue, Types
  <2>4. QED BY <2>1, <2>2, <2>3 DEF Roles
<1>3. QED BY <1>1, <1>2

LEMMA NextInv == IInv /\ [Next]_vars => IInv'
<1> SUFFICES ASSUME IInv, [Next]_vars PROVE IInv'
  OBVIOUS
<1>1. CASE Next
  BY <1>1, HandshakeInv, ClientInv, ServerInv DEF Next, ClientLoop
<1>2. CASE UNCHANGED vars
  BY <1>2 DEF IInv, Types, LockStep, Roles, Queue, vars, hvars, cvars, svars
<1>3. QED BY <1>1, <1>2

\* The commit orders the two ends: whatever is lost, late or closed, the server
\* carries only connections whose client committed after every measured round,
\* and the client only ones the server acknowledged, for any number of rounds.
THEOREM CommitComesFirst == Spec => []CommittedOnly
<1>1. IInv => CommittedOnly
  BY DEF IInv, Types, LockStep, Roles, CommittedOnly
<1>2. QED BY <1>1, InitInv, NextInv, PTL DEF Spec

------------------------------------------------------------------------------
\* With one connection at most in the server's slots a claim succeeds.
LEMMA SlotFree ==
  ASSUME IInv, ready = <<>>
  PROVE  Claimed < MaxActive
<1>1. {c \in Conns : sv[c] \in {"ready", "live"}} \subseteq {live}
  BY DEF IInv, Queue, Range
<1>2. IsFiniteSet({live}) /\ Cardinality({live}) = 1
  BY FS_Singleton
<1>3. Claimed <= 1 /\ Claimed \in Nat
  BY <1>1, <1>2, FS_Subset, FS_CardinalityType DEF Claimed
<1>4. QED BY <1>3 DEF MaxActive

\* A queue without members is empty.
LEMMA QueueMembers ==
  ASSUME ready \in Seq(Conns), ready # <<>>
  PROVE  \E c \in Conns : c \in Range(ready)
<1>1. 1 \in DOMAIN ready /\ ready[1] \in Conns
  OBVIOUS
<1>2. QED BY <1>1 DEF Range

\* Without a fault every step keeps the undisturbed state.
LEMMA HandshakeCalm ==
  ASSUME NEW c \in Conns, IInv, Undisturbed, faults' = faults,
         \/ Handshake(c) \/ RejectSlow(c) \/ ClientGiveUp(c) \/ ClientDeadline(c)
         \/ ServerGiveUp(c) \/ ServerDeadline(c) \/ Cut(c)
  PROVE  Undisturbed'
<1> USE Constants DEF IInv, Undisturbed
<1>0. ~Fault
  BY DEF Fault, Types
<1>1. CASE ClientSend(c)
  <2> USE <1>1 DEF ClientSend, cvars, svars
  <2>1. Known'
    BY DEF Known, Types
  <2>2. QED BY <2>1 DEF OneQueued, Covered
<1>2. CASE ClientOpen(c)
  <2> USE <1>2 DEF ClientOpen, cvars, svars
  <2>1. Known'
    BY DEF Known, Types
  <2>2. Covered'
    BY DEF Covered, Types
  <2>3. QED BY <2>1, <2>2 DEF OneQueued
<1>3. CASE RejectSlow(c)
  <2> USE <1>3 DEF RejectSlow, cvars, svars
  <2>0. sent[c] # Commit
    BY DEF Types
  <2>1. sv[c] = "shake"
    <3>1. sv[c] # "none" /\ sv[c] \in {"none", "shake", "acked", "ready", "live"}
      BY DEF Known, Roles, Types
    <3>2. QED BY <2>0, <3>1 DEF LockStep
  <2>2. Known'
    BY <2>1 DEF Known, Types
  <2>3. Covered'
    BY DEF Covered, Types, Roles
  <2>4. QED BY <2>2, <2>3 DEF OneQueued
<1>4. CASE ClientGiveUp(c) \/ ClientDeadline(c)
  <2>1. cl[c] = "shake" /\ ((sv[c] = "none" /\ answered[c] < Commit) \/ ~link[c])
    BY <1>0, <1>4 DEF ClientGiveUp, ClientDeadline, ClientFail
  <2>2. sv[c] # "none" \/ c = active
    BY <2>1 DEF Known
  <2>3. c # active
    BY <2>1 DEF Roles, Types
  <2>4. QED BY <2>1, <2>2, <2>3 DEF Known
<1>5. CASE ServerAnswer(c)
  <2> USE <1>5 DEF ServerAnswer, cvars, svars
  <2>0. sv[c] = "shake" /\ sent[c] # answered[c]
    BY DEF Types
  <2>1. sv[c] = "shake" /\ cl[c] # "rejected" /\ cl[c] # "none" /\ sent[c] # answered[c]
    BY <2>0 DEF Known
  <2>2. Known'
    BY <2>1 DEF Known, Types
  <2>3. cl[c] # "open" \/ c = warm
    BY <2>1 DEF LockStep, Types
  <2>4. c # active /\ c \in {dialing, warm}
    BY <2>1, <2>3 DEF Known, LockStep, Roles, Types
  <2>5. OneQueued'
    <3>1. c = warm => ready = <<>>
      BY <2>1 DEF Covered, Types
    <3>2. mode = "dial" => ready = <<>>
      <4>1. mode = "dial" => \A d \in Conns : sv[d] # "ready"
        BY <2>1, <2>4 DEF Covered, Roles
      <4>2. QED BY <4>1, QueueMembers DEF Queue, Types
    <3>3. ready = <<>>
      BY <2>1, <2>4, <3>1, <3>2 DEF Roles, Types
    <3>4. QED BY <3>3 DEF OneQueued
  <2>6. Covered'
    BY <2>1, <2>4 DEF Covered, Types, Roles
  <2>7. QED BY <2>2, <2>5, <2>6
<1>6. CASE ServerClaim(c)
  <2> USE <1>6 DEF ServerClaim, cvars
  <2>1. ready = <<>>
    BY DEF OneQueued
  <2>2. sv' = [sv EXCEPT ![c] = "ready"] /\ ready' = Append(ready, c) /\ Len(ready') = 1
    BY <2>1, SlotFree DEF Types
  <2>3. cl[c] # "rejected" /\ cl[c] # "none"
    BY DEF Known, Types
  <2>4. Known'
    BY <2>2, <2>3 DEF Known, Types
  <2>5. \A d \in Conns : sv[d] = "acked" => d = c
    <3> SUFFICES ASSUME NEW d \in Conns, sv[d] = "acked" PROVE d = c
      OBVIOUS
    <3>1. c \in {active, dialing, warm} /\ d \in {active, dialing, warm}
      BY <2>3 DEF Known, Types
    <3>2. sv[c] = "acked" /\ c # None /\ d # None
      OBVIOUS
    <3>3. warm # None /\ sv[warm] = "acked" => sv[active] = "live"
      BY DEF Covered
    <3>4. CASE mode = "online"
      BY <3>1, <3>2, <3>3, <3>4 DEF Roles
    <3>5. CASE mode # "online"
      BY <3>1, <3>2, <3>5 DEF Roles, Types
    <3>6. QED BY <3>4, <3>5
  <2>6. OneQueued'
    BY <2>2, <2>5 DEF OneQueued, Types
  <2>7. Covered'
    BY <2>2, <2>3, <2>5 DEF Covered, Known, Types, Roles
  <2>8. QED BY <2>4, <2>6, <2>7
<1>7. CASE ServerGiveUp(c) \/ ServerDeadline(c)
  <2> USE <1>7 DEF ServerGiveUp, ServerDeadline, ServerFail, cvars, svars
  <2>1. sv[c] = "shake" /\ cl[c] # "shake" /\ link[c] /\ sv' = [sv EXCEPT ![c] = "none"]
    BY <1>0 DEF Known
  <2>2. cl[c] = "rejected"
    BY <2>1 DEF Known, LockStep, Types
  <2>3. Known'
    BY <2>1, <2>2 DEF Known, Types
  <2>4. OneQueued'
    BY <2>1 DEF OneQueued, Types
  <2>5. Covered'
    BY <2>1, <2>2 DEF Covered, Types, Roles
  <2>6. QED BY <2>3, <2>4, <2>5
<1>8. CASE Cut(c)
  BY <1>0, <1>8 DEF Cut
<1>9. QED BY <1>1, <1>2, <1>3, <1>4, <1>5, <1>6, <1>7, <1>8 DEF Handshake

LEMMA ClientCalm ==
  ASSUME IInv, Undisturbed, faults' = faults,
         \/ \E c \in Conns : Dial(c) \/ WarmStart(c)
         \/ DialDone \/ WarmCommit \/ WarmRejected \/ AwaitWarm \/ ClientLose \/ ClientWatchdog
  PROVE  Undisturbed' /\ (mode # "dial" => mode' # "dial")
<1> USE Constants DEF IInv, Undisturbed
<1>0. ~Fault
  BY DEF Fault, Types
<1>1. ASSUME NEW c \in Conns, Dial(c) PROVE Undisturbed' /\ mode' = mode
  <2> USE <1>1 DEF Dial, Connect, Closed, svars
  <2>1. Known'
    BY DEF Known, Types, Roles
  <2>2. OneQueued'
    BY DEF OneQueued, Types
  <2>3. Covered'
    BY DEF Covered, Types, Roles
  <2>4. QED BY <2>1, <2>2, <2>3
<1>2. ASSUME NEW c \in Conns, WarmStart(c) PROVE Undisturbed' /\ mode' = mode
  <2> USE <1>2 DEF WarmStart, Connect, Closed, svars
  <2>1. active \in Conns /\ cl[active] = "open" /\ c # active
    BY DEF Roles
  <2>2. sv[active] = "live"
    <3>1. sv[active] # "none" /\ sv[active] # "acked"
      BY <2>1 DEF Covered
    <3>2. sv[active] # "shake"
      BY <2>1 DEF LockStep, Types
    <3>3. sv[active] # "ready"
      BY <2>1 DEF Queue, Range
    <3>4. QED BY <2>1, <3>1, <3>2, <3>3 DEF Types
  <2>3. Known'
    BY <2>1 DEF Known, Types
  <2>4. OneQueued'
    BY DEF OneQueued, Types
  <2>5. Covered'
    BY <2>1, <2>2 DEF Covered, Types, Roles
  <2>6. QED BY <2>3, <2>4, <2>5
<1>3. CASE DialDone
  <2> USE <1>3 DEF DialDone, hvars, svars
  <2>1. dialing \in Conns /\ cl[dialing] = "open" /\ mode' = "online" /\ active' = dialing
    BY DEF Covered, Types
  <2>2. sv[dialing] # "none" /\ active = None /\ warm = None
    BY <2>1 DEF Known, Roles
  <2>3. Known'
    BY <2>1, <2>2 DEF Known
  <2>4. Covered'
    BY <2>1, <2>2 DEF Covered
  <2>5. QED BY <2>1, <2>3, <2>4 DEF OneQueued
<1>4. CASE WarmCommit
  <2> USE <1>4 DEF WarmCommit, svars
  <2>1. active \in Conns /\ warm \in Conns /\ warm # active /\ sv[active] \in {"none", "live"}
    BY DEF Roles, Types, Covered
  <2>2. sv[warm] # "none"
    BY <2>1 DEF Known
  <2>3. Known'
    BY <2>1, <2>2 DEF Known, Types, Roles
  <2>4. Covered'
    BY <2>1, <2>2 DEF Covered
  <2>5. QED BY <2>3, <2>4 DEF OneQueued
<1>5. CASE WarmRejected
  <2> USE <1>5 DEF WarmRejected, hvars, svars
  <2>1. warm \in Conns /\ sv[active] = "live"
    BY DEF Known, Covered, Types
  <2>2. Known'
    BY <2>1 DEF Known
  <2>3. Covered'
    BY <2>1 DEF Covered
  <2>4. QED BY <2>2, <2>3 DEF OneQueued
<1>6. CASE ClientLose \/ ClientWatchdog
  <2> USE <1>6 DEF ClientLose, ClientWatchdog, ClientDown, svars
  <2>1. active \in Conns /\ sv[active] = "none"
    BY <1>0 DEF Known, Roles
  <2>2. warm # None /\ mode' = "await" /\ sv[warm] \notin {"none", "shake", "acked"}
    BY <2>1 DEF Covered
  <2>3. Known'
    BY <2>1 DEF Known, Types
  <2>4. Covered'
    BY <2>1, <2>2 DEF Covered, Types
  <2>5. QED BY <2>2, <2>3, <2>4 DEF OneQueued
<1>7. CASE AwaitWarm
  <2> USE <1>7 DEF AwaitWarm, hvars, svars
  <2>1. warm \in Conns /\ active = None /\ dialing = None /\ sv[warm] \notin {"none", "shake", "acked"}
    BY DEF Roles, Covered, Types
  <2>2. cl[warm] = "open" /\ active' = warm /\ mode' = "online"
    BY <2>1 DEF Known
  <2>3. Known'
    BY <2>1, <2>2 DEF Known
  <2>4. Covered'
    BY <2>1, <2>2 DEF Covered
  <2>5. QED BY <2>2, <2>3, <2>4 DEF OneQueued
<1>8. QED BY <1>1, <1>2, <1>3, <1>4, <1>5, <1>6, <1>7 DEF Types

LEMMA ServerCalm ==
  ASSUME IInv, Undisturbed, faults' = faults, Take \/ Switch \/ ServerLose \/ ServerWatchdog
  PROVE  Undisturbed'
<1> USE Constants DEF IInv, Undisturbed
<1>0. ~Fault
  BY DEF Fault, Types
<1>1. CASE Take
  <2> USE <1>1 DEF Take, cvars
  <2> DEFINE x == Head(ready)
  <2>1. x \in Conns /\ x \in Range(ready) /\ ready' = <<>>
    BY QueueTake DEF Types, Queue, OneQueued
  <2>2. sv[x] = "ready" /\ sv' = [sv EXCEPT ![x] = "live"]
    BY <2>1 DEF Queue
  <2> HIDE DEF x
  <2>3. Known'
    BY <2>1, <2>2 DEF Known, Types
  <2>4. OneQueued'
    BY <2>1 DEF OneQueued
  <2>5. Covered'
    BY <2>1, <2>2 DEF Covered, Types, Roles
  <2>6. QED BY <2>3, <2>4, <2>5
<1>2. CASE Switch
  <2> USE <1>2 DEF Switch, cvars
  <2>1. PICK x \in Conns : x \in Range(ready)
    BY QueueMembers DEF Types
  <2>2. sv[x] = "ready" /\ live \in Conns /\ sv[live] = "live" /\ x # live
    BY <2>1 DEF Queue, Types
  <2>3. x \in {active, dialing, warm}
    BY <2>2 DEF Known, Types
  <2>4. mode # "dial" => dialing = None
    BY DEF Roles, Types
  <2>5. mode # "dial"
    BY <2>2 DEF Covered
  <2>6. warm = None => x = active
    BY <2>3, <2>4, <2>5
  <2>7. x = active => warm = None
    BY <2>2, <2>5 DEF Covered, Roles, Types
  <2>8. live # warm
    BY <2>2, <2>3, <2>4, <2>5, <2>7
  <2>9. live # dialing
    BY <2>2, <2>4, <2>5
  <2>10. Known'
    BY <2>2, <2>8, <2>9 DEF Known, Types
  <2>11. OneQueued'
    BY <2>2 DEF OneQueued, Types
  <2>12. Covered'
    BY <2>2, <2>5, <2>6, <2>8 DEF Covered, Types, Roles
  <2>13. QED BY <2>10, <2>11, <2>12
<1>3. CASE ServerLose \/ ServerWatchdog
  <2> USE <1>3 DEF ServerLose, ServerWatchdog, ServerDown, cvars
  <2>1. live \in Conns /\ sv[live] = "live" /\ sv' = [sv EXCEPT ![live] = "none"]
    BY DEF Queue, Types
  <2>2. cl[live] = "none"
    BY <1>0, <2>1 DEF Known
  <2>3. live # warm /\ live # active /\ live # dialing
    BY <2>1, <2>2 DEF Roles, Types
  <2>4. Known'
    BY <2>1, <2>2 DEF Known, Types
  <2>5. OneQueued'
    BY <2>1 DEF OneQueued, Types
  <2>6. Covered'
    BY <2>1, <2>3 DEF Covered, Types, Roles
  <2>7. QED BY <2>4, <2>5, <2>6
<1>4. QED BY <1>1, <1>2, <1>3

LEMMA InitCalm == Init => Calm
BY Constants DEF Init, Calm, Undisturbed, Known, OneQueued, Covered

LEMMA NextCalm ==
  IInv /\ Calm /\ [Next]_vars =>
    Calm' /\ (faults = MaxFaults /\ mode # "dial" => mode' # "dial" \/ faults' # faults)
<1> SUFFICES ASSUME IInv, Calm, [Next]_vars
             PROVE  Calm' /\ (faults = MaxFaults /\ mode # "dial" => mode' # "dial" \/ faults' # faults)
  OBVIOUS
<1>1. faults' = faults \/ (faults' # MaxFaults /\ faults' # faults)
  BY Constants DEF IInv, Types, Next, Handshake, ClientSend, ClientOpen, RejectSlow, ClientGiveUp,
     ClientDeadline, ServerAnswer, ServerClaim, ServerGiveUp, ServerDeadline, WarmStart, Cut, ClientLoop,
     Dial, DialDone, WarmCommit, WarmRejected, AwaitWarm, ClientLose, ClientWatchdog, Take, Switch,
     ServerLose, ServerWatchdog, Fault, vars
<1>2. CASE faults' = faults /\ faults = MaxFaults
  <2>0. Undisturbed
    BY <1>2 DEF Calm
  <2>1. ASSUME NEW c \in Conns,
               \/ Handshake(c) \/ RejectSlow(c) \/ ClientGiveUp(c) \/ ClientDeadline(c)
               \/ ServerGiveUp(c) \/ ServerDeadline(c) \/ Cut(c)
        PROVE  Undisturbed' /\ mode' = mode
    <3>1. Undisturbed'
      BY <1>2, <2>0, <2>1, HandshakeCalm
    <3>2. mode' = mode
      BY <2>1 DEF Handshake, ClientSend, ClientOpen, RejectSlow, ClientGiveUp, ClientDeadline, ClientFail,
         ServerAnswer, ServerClaim, ServerGiveUp, ServerDeadline, ServerFail, Cut, cvars
    <3>3. QED BY <3>1, <3>2
  <2>2. CASE \/ \E c \in Conns : Dial(c) \/ WarmStart(c)
             \/ DialDone \/ WarmCommit \/ WarmRejected \/ AwaitWarm \/ ClientLose \/ ClientWatchdog
    BY <1>2, <2>0, <2>2, ClientCalm DEF Calm
  <2>3. CASE Take \/ Switch \/ ServerLose \/ ServerWatchdog
    <3>1. mode' = mode
      BY <2>3 DEF Take, Switch, ServerLose, ServerWatchdog, ServerDown, cvars
    <3>2. QED BY <1>2, <2>0, <2>3, <3>1, ServerCalm DEF Calm
  <2>4. CASE UNCHANGED vars
    BY <2>0, <2>4 DEF Calm, Undisturbed, Known, OneQueued, Covered, vars, hvars, cvars, svars
  <2>5. QED BY <2>1, <2>2, <2>3, <2>4 DEF Next, ClientLoop, Calm
<1>3. CASE ~(faults' = faults /\ faults = MaxFaults)
  BY <1>1, <1>3 DEF Calm
<1>4. QED BY <1>2, <1>3

\* As long as the paths hold and no deadline or watchdog fires against a live
\* peer, a client that has been online never dials from cold: in every order of
\* commit, claim, switch and close, the replacement is already the server's when
\* the old tunnel goes.
THEOREM NeverDialsCold == Spec => NoColdRedial
<1>1. IInv /\ Calm /\ [Next]_vars =>
        [faults = MaxFaults /\ mode # "dial" => mode' # "dial" \/ faults' # faults]_vars
  BY NextCalm
<1>2. QED BY <1>1, InitInv, NextInv, InitCalm, NextCalm, PTL DEF Spec, NoColdRedial
=============================================================================
