----------------------------- MODULE LimitProofs ----------------------------
(***************************************************************************)
(* The parts that keep count, for every value of their constants:          *)
(*                                                                         *)
(*   Admission: each socket has one owner, the claim counter is exact and  *)
(*     bounded, and the destructor leaves nothing behind;                  *)
(*   FlowQueue: its counters are exact and within their limits, and it     *)
(*     implements one FIFO line per flow;                                  *)
(*   Padding: the caps hold in every window of time.  A cap alone is not   *)
(*     inductive, since a full bucket after heavy spending would break it  *)
(*     at the next record: PadInv adds ledgers, which count what is still  *)
(*     in a budget as if it were spent, and distinguishes a window that    *)
(*     began after the budget was last used (nothing spent in it so far)   *)
(*     from one that began before.                                         *)
(***************************************************************************)
EXTENDS Admission, FlowQueue, Padding, FiniteSetTheorems, FunctionTheorems,
        WellFoundedInduction, TLAPS

\* A worker holds a socket exactly while it authenticates it, the acceptor
\* exactly between accept and the queue.
Holding ==
  /\ \A w \in Workers : job[w] # None <=> wpc[w] \in {"upgrade", "claim"}
  /\ hand # None <=> apc = "got"

\* The inductive invariant: the count changes by one only because a connection
\* that is moved was in no other place before.
IInv == TypeOK /\ Holding /\ OneOwner /\ ClaimsExact

------------------------------------------------------------------------------
\* What appending and taking the head do to the members of a queue.
LEMMA AppendRange ==
  ASSUME NEW S, NEW s \in Seq(S), NEW e \in S
  PROVE  /\ Append(s, e) \in Seq(S)
         /\ Len(Append(s, e)) = Len(s) + 1
         /\ Range(Append(s, e)) = Range(s) \cup {e}
         /\ (e \notin Range(s) /\ \A i, j \in DOMAIN s : s[i] = s[j] => i = j)
              => \A i, j \in DOMAIN Append(s, e) : Append(s, e)[i] = Append(s, e)[j] => i = j
<1>1. /\ Append(s, e) \in Seq(S) /\ Len(Append(s, e)) = Len(s) + 1
      /\ DOMAIN s = 1..Len(s) /\ DOMAIN Append(s, e) = 1..(Len(s) + 1)
      /\ Len(s) \in Nat
      /\ \A i \in 1..Len(s) : Append(s, e)[i] = s[i]
      /\ Append(s, e)[Len(s) + 1] = e
  OBVIOUS
<1>2. Range(Append(s, e)) = Range(s) \cup {e}
  <2>1. \A i \in 1..(Len(s) + 1) : i \in 1..Len(s) \/ i = Len(s) + 1
    BY <1>1
  <2>2. 1..Len(s) \subseteq 1..(Len(s) + 1) /\ Len(s) + 1 \in 1..(Len(s) + 1)
    BY <1>1
  <2>3. QED BY <1>1, <2>1, <2>2, Zenon DEF Range
<1>3. ASSUME e \notin Range(s), \A i, j \in DOMAIN s : s[i] = s[j] => i = j
      PROVE  \A i, j \in DOMAIN Append(s, e) : Append(s, e)[i] = Append(s, e)[j] => i = j
  BY <1>1, <1>3 DEF Range
<1>4. QED BY <1>1, <1>2, <1>3

LEMMA TakeRange ==
  ASSUME NEW S, NEW s \in Seq(S), s # <<>>
  PROVE  /\ Head(s) \in S /\ Tail(s) \in Seq(S)
         /\ Len(Tail(s)) = Len(s) - 1 /\ Len(s) \in Nat \ {0}
         /\ Head(s) \in Range(s) /\ Range(Tail(s)) \subseteq Range(s)
         /\ (\A i, j \in DOMAIN s : s[i] = s[j] => i = j)
              => /\ Head(s) \notin Range(Tail(s))
                 /\ \A i, j \in DOMAIN Tail(s) : Tail(s)[i] = Tail(s)[j] => i = j
<1>1. /\ Len(s) \in Nat \ {0} /\ DOMAIN s = 1..Len(s)
      /\ Tail(s) \in Seq(S) /\ Len(Tail(s)) = Len(s) - 1 /\ DOMAIN Tail(s) = 1..(Len(s) - 1)
      /\ \A i \in 1..(Len(s) - 1) : Tail(s)[i] = s[i + 1]
      /\ Head(s) = s[1] /\ 1 \in 1..Len(s) /\ s[1] \in S
  OBVIOUS
<1>2. Head(s) \in Range(s) /\ Range(Tail(s)) \subseteq Range(s)
  BY <1>1 DEF Range
<1>3. ASSUME \A i, j \in DOMAIN s : s[i] = s[j] => i = j
      PROVE  /\ Head(s) \notin Range(Tail(s))
             /\ \A i, j \in DOMAIN Tail(s) : Tail(s)[i] = Tail(s)[j] => i = j
  BY <1>1, <1>3 DEF Range
<1>4. QED BY <1>1, <1>2, <1>3

\* lanes is finite because Conns is.
LEMMA LanesCount ==
  ASSUME TypeOK
  PROVE  IsFiniteSet(lanes) /\ Cardinality(lanes) \in Nat
BY AdmissionAssumption, FS_Subset, FS_CardinalityType DEF TypeOK

------------------------------------------------------------------------------
LEMMA InitInv == Init => IInv
<1> SUFFICES ASSUME Init PROVE IInv
  OBVIOUS
<1>1. Range(<<>>) = {} /\ Range(job) \subseteq {None} /\ Len(<<>>) = 0
  BY DEF Init, Range
<1>2. TypeOK
  <2>1. <<>> \in Seq(Conns)
    OBVIOUS
  <2>2. wpc \in [Workers -> {"top", "lock", "block", "waiting", "upgrade", "claim", "exit"}]
        /\ job \in [Workers -> Conns \cup {None}]
    BY DEF Init
  <2>3. QED BY <2>1, <2>2 DEF Init, TypeOK
<1>3. Holding
  BY DEF Init, Holding
<1>4. OneOwner
  BY <1>1 DEF Init, OneOwner
<1>5. ClaimsExact
  BY <1>1, FS_EmptySet, AdmissionAssumption DEF Init, ClaimsExact, MaxActive
<1>6. QED BY <1>2, <1>3, <1>4, <1>5 DEF IInv

\* A step that moves no connection keeps the owners and the count.
LEMMA SameOwners ==
  ASSUME IInv, UNCHANGED <<pool, pending, ready, claimed, hand, job, lanes>>
  PROVE  OneOwner' /\ ClaimsExact'
BY DEF IInv, OneOwner, ClaimsExact, MaxActive

------------------------------------------------------------------------------
LEMMA AcceptorInv == IInv /\ Acceptor => IInv'
<1> SUFFICES ASSUME IInv, Acceptor PROVE IInv'
  OBVIOUS
<1> USE AdmissionAssumption DEF IInv
<1>1. CASE AcceptorTop
  <2>1. TypeOK' /\ Holding'
    BY <1>1 DEF AcceptorTop, TypeOK, Holding, wvars, mvars
  <2>2. QED BY <1>1, <2>1, SameOwners DEF AcceptorTop, wvars, mvars
<1>2. CASE AcceptorPoll
  <2> USE <1>2 DEF AcceptorPoll, wvars, mvars
  <2>1. TypeOK' /\ Holding'
    BY DEF TypeOK, Holding, Fresh
  <2>2. OneOwner'
    <3>1. CASE hand' = hand
      BY <3>1, SameOwners
    <3>2. CASE hand' \in Fresh
      BY <3>2 DEF OneOwner, Fresh, Inside
    <3>3. QED BY <3>1, <3>2
  <2>3. ClaimsExact'
    BY DEF ClaimsExact, MaxActive
  <2>4. QED BY <2>1, <2>2, <2>3
<1>3. CASE AcceptorQueue
  <2> USE <1>3 DEF AcceptorQueue, mvars
  <2>1. hand \in Conns /\ hand \notin Range(pending)
    BY DEF TypeOK, Holding, OneOwner
  <2>2. wpc' \in [Workers -> {"top", "lock", "block", "waiting", "upgrade", "claim", "exit"}]
        /\ \A w \in Workers : wpc'[w] = wpc[w] \/ (wpc[w] = "waiting" /\ wpc'[w] = "lock")
    BY DEF TypeOK, NotifyOnePending, WakeUp, Waiting
  <2>3. pending' = pending \/ pending' = Append(pending, hand)
    OBVIOUS
  <2>4. TypeOK'
    <3>1. pending' \in Seq(Conns)
      BY <2>1, <2>3, AppendRange DEF TypeOK
    <3>2. QED BY <2>2, <3>1 DEF TypeOK
  <2>5. Holding'
    BY <2>2 DEF TypeOK, Holding
  <2>6. OneOwner'
    <3> None \notin Range(pending) \cup Range(ready) \cup lanes
      BY DEF TypeOK, Range
    <3>1. CASE pending' = pending
      BY <3>1 DEF OneOwner
    <3>2. CASE pending' = Append(pending, hand)
      <4>1. Range(pending') = Range(pending) \cup {hand}
            /\ \A i, j \in DOMAIN pending' : pending'[i] = pending'[j] => i = j
        BY <2>1, <3>2, AppendRange DEF TypeOK, OneOwner
      <4>2. QED BY <2>1, <4>1 DEF OneOwner
    <3>3. QED BY <2>3, <3>1, <3>2
  <2>7. ClaimsExact'
    BY DEF ClaimsExact, MaxActive
  <2>8. QED BY <2>4, <2>5, <2>6, <2>7
<1>4. QED BY <1>1, <1>2, <1>3 DEF Acceptor

LEMMA WorkerInv == ASSUME NEW w \in Workers, IInv, Worker(w) \/ SpuriousWake(w) PROVE IInv'
<1> USE AdmissionAssumption DEF IInv
<1>0. None \notin Range(pending) \cup Range(ready) \cup lanes
  BY DEF TypeOK, Range
<1>1. CASE WorkerTop(w) \/ WorkerBlock(w) \/ SpuriousWake(w)
  <2>1. TypeOK' /\ Holding'
    BY <1>1 DEF WorkerTop, WorkerBlock, SpuriousWake, WakeUp, TypeOK, Holding, avars, mvars
  <2>2. QED BY <1>1, <2>1, SameOwners DEF WorkerTop, WorkerBlock, SpuriousWake, avars, mvars
<1>2. CASE WorkerCheck(w)
  <2> USE <1>2 DEF WorkerCheck, avars, mvars
  <2>1. CASE pending' = pending /\ job' = job
    <3>1. TypeOK' /\ Holding'
      BY <2>1 DEF TypeOK, Holding
    <3>2. QED BY <2>1, <3>1, SameOwners
  <2>2. CASE /\ ~stop /\ pending # <<>>
             /\ job' = [job EXCEPT ![w] = Head(pending)] /\ pending' = Tail(pending)
             /\ wpc' = [wpc EXCEPT ![w] = "upgrade"] /\ UNCHANGED mu
    <3>1. /\ Head(pending) \in Conns /\ pending' \in Seq(Conns)
          /\ Head(pending) \in Range(pending) /\ Range(pending') \subseteq Range(pending)
          /\ Head(pending) \notin Range(pending')
          /\ \A i, j \in DOMAIN pending' : pending'[i] = pending'[j] => i = j
      BY <2>2, TakeRange DEF TypeOK, OneOwner
    <3>2. TypeOK' /\ Holding'
      BY <2>2, <3>1 DEF TypeOK, Holding
    <3>3. /\ Range(job') \subseteq Range(job) \cup {Head(pending)}
          /\ \A v \in Workers : job'[v] = IF v = w THEN Head(pending) ELSE job[v]
          /\ \A v \in Workers : job[v] \in Range(job)
      BY <2>2, <3>1 DEF TypeOK, Range
    <3>4. OneOwner'
      <4>1. \A u, v \in Workers : job'[u] = job'[v] /\ job'[u] # None => u = v
        BY <3>1, <3>3 DEF OneOwner
      <4>2. QED BY <1>0, <3>1, <3>3, <4>1 DEF OneOwner
    <3>5. QED BY <3>2, <3>4 DEF ClaimsExact, MaxActive
  <2>3. QED BY <2>1, <2>2
<1>3. CASE WorkerUpgrade(w)
  <2> USE <1>3 DEF WorkerUpgrade, avars, mvars
  <2>1. TypeOK' /\ Holding'
    BY DEF TypeOK, Holding
  <2>2. CASE job' = job
    BY <2>1, <2>2, SameOwners
  <2>3. CASE job' = [job EXCEPT ![w] = None]
    <3>1. /\ Range(job') \subseteq Range(job) \cup {None}
          /\ \A v \in Workers : job'[v] = IF v = w THEN None ELSE job[v]
      BY <2>3 DEF TypeOK, Range
    <3>2. OneOwner'
      BY <1>0, <3>1 DEF OneOwner
    <3>3. QED BY <2>1, <3>2 DEF ClaimsExact, MaxActive
  <2>4. QED BY <2>2, <2>3
<1>4. CASE WorkerClaim(w)
  <2>1. /\ pool' = pool
        /\ pending' = pending /\ hand' = hand /\ apc' = apc /\ lanes' = lanes
        /\ stop' = stop /\ mu' = mu /\ mpc' = mpc /\ missed' = missed
        /\ job' = [job EXCEPT ![w] = None] /\ wpc' = [wpc EXCEPT ![w] = "top"]
        /\ wpc[w] = "claim"
    BY <1>4 DEF WorkerClaim, avars, mvars
  <2>2. /\ job[w] \in Conns /\ job[w] \in Range(job) /\ job[w] # None
        /\ Range(job') \subseteq Range(job) \cup {None}
        /\ \A v \in Workers : job'[v] = IF v = w THEN None ELSE job[v]
    BY <2>1 DEF TypeOK, Holding, Range
  <2>3. job[w] \notin Range(job')
    BY <2>1, <2>2 DEF OneOwner, TypeOK, Range
  <2>4. \A u, v \in Workers : job'[u] = job'[v] /\ job'[u] # None => u = v
    BY <2>2 DEF OneOwner
  <2>5. CASE ready' = ready /\ claimed' = claimed
    <3>1. TypeOK' /\ Holding'
      BY <2>1, <2>5 DEF TypeOK, Holding
    <3>2. OneOwner'
      <4>1. pending' = pending /\ hand' = hand /\ lanes' = lanes /\ ready' = ready
        BY <2>1, <2>5
      <4>2. Range(pending') \cap (Range(ready') \cup {hand'} \cup Range(job') \cup lanes') = {}
        BY <1>0, <2>2, <4>1 DEF OneOwner
      <4>3. Range(ready') \cap ({hand'} \cup Range(job') \cup lanes') = {}
        BY <1>0, <2>2, <4>1 DEF OneOwner
      <4>4. lanes' \cap ({hand'} \cup Range(job')) = {}
        BY <1>0, <2>2, <4>1 DEF OneOwner
      <4>5. hand' # None => hand' \notin Range(job')
        BY <2>2, <4>1 DEF OneOwner
      <4>6. QED BY <2>4, <4>1, <4>2, <4>3, <4>4, <4>5 DEF OneOwner
    <3>3. QED BY <2>1, <2>5, <3>1, <3>2 DEF ClaimsExact, MaxActive
  <2>6. CASE ~Busy /\ claimed' = claimed + 1 /\ ready' = Append(ready, job[w])
    <3>1. job[w] \notin Range(ready)
      BY <2>2 DEF OneOwner
    <3>2. /\ ready' \in Seq(Conns) /\ Len(ready') = Len(ready) + 1
          /\ Range(ready') = Range(ready) \cup {job[w]}
          /\ \A i, j \in DOMAIN ready' : ready'[i] = ready'[j] => i = j
      BY <2>2, <2>6, <3>1, AppendRange DEF TypeOK, OneOwner
    <3>3. TypeOK' /\ Holding'
      BY <2>1, <2>6, <3>2 DEF TypeOK, Holding
    <3>4. OneOwner'
      <4>1. pending' = pending /\ hand' = hand /\ lanes' = lanes
        BY <2>1
      <4>2. Range(pending') \cap (Range(ready') \cup {hand'} \cup Range(job') \cup lanes') = {}
        BY <1>0, <2>2, <3>2, <4>1 DEF OneOwner
      <4>3. Range(ready') \cap ({hand'} \cup Range(job') \cup lanes') = {}
        BY <1>0, <2>2, <2>3, <3>2, <4>1 DEF OneOwner
      <4>4. lanes' \cap ({hand'} \cup Range(job')) = {}
        BY <1>0, <2>2, <4>1 DEF OneOwner
      <4>5. hand' # None => hand' \notin Range(job')
        BY <2>2, <4>1 DEF OneOwner
      <4>6. QED BY <2>4, <3>2, <4>1, <4>2, <4>3, <4>4, <4>5 DEF OneOwner
    <3>5. ClaimsExact'
      BY <2>1, <2>6, <3>2, LanesCount DEF ClaimsExact, Busy, MaxActive, TypeOK
    <3>6. QED BY <3>3, <3>4, <3>5
  <2>7. QED BY <1>4, <2>5, <2>6 DEF WorkerClaim
<1>5. QED BY <1>1, <1>2, <1>3, <1>4 DEF Worker

LEMMA MainInv ==
  IInv /\ (Serve \/ (\E c \in Conns : MainDrop(c)) \/ MainLeave \/ Destructor) => IInv'
<1> SUFFICES ASSUME IInv, Serve \/ (\E c \in Conns : MainDrop(c)) \/ MainLeave \/ Destructor
             PROVE  IInv'
  OBVIOUS
<1> USE AdmissionAssumption DEF IInv
<1>1. CASE MainTake
  <2> USE <1>1 DEF MainTake, avars, wvars
  <2>1. /\ Head(ready) \in Conns /\ ready' \in Seq(Conns)
        /\ Len(ready') = Len(ready) - 1 /\ Len(ready) \in Nat \ {0}
        /\ Head(ready) \in Range(ready) /\ Range(ready') \subseteq Range(ready)
        /\ Head(ready) \notin Range(ready')
        /\ \A i, j \in DOMAIN ready' : ready'[i] = ready'[j] => i = j
    BY TakeRange DEF TypeOK, OneOwner
  <2>2. Head(ready) \notin lanes
    BY <2>1 DEF OneOwner
  <2>3. Cardinality(lanes') = Cardinality(lanes) + 1
    BY <2>2, LanesCount, FS_AddElement
  <2>4. TypeOK' /\ Holding'
    BY <2>1 DEF TypeOK, Holding
  <2>5. OneOwner'
    BY <2>1 DEF OneOwner
  <2>6. ClaimsExact'
    BY <2>1, <2>3, LanesCount DEF ClaimsExact, MaxActive, TypeOK
  <2>7. QED BY <2>4, <2>5, <2>6
<1>2. ASSUME NEW c \in Conns, MainSwitch(c) \/ MainDrop(c)
      PROVE  IInv'
  <2> USE <1>2 DEF MainSwitch, MainDrop, Release, avars, wvars
  <2>1. Cardinality(lanes') = Cardinality(lanes) - 1 /\ Cardinality(lanes') \in Nat
    <3>1. c \in lanes /\ lanes' = lanes \ {c}
      OBVIOUS
    <3>2. IsFiniteSet(lanes') /\ Cardinality(lanes') = Cardinality(lanes) - 1
      BY <3>1, LanesCount, FS_RemoveElement
    <3>3. QED BY <3>2, FS_CardinalityType
  <2>2. Len(ready) \in Nat
    BY DEF TypeOK
  <2>3. claimed' = Len(ready) + Cardinality(lanes') /\ claimed' \in Nat /\ claimed' <= claimed
    BY <2>1, <2>2, LanesCount DEF ClaimsExact, TypeOK
  <2>4. TypeOK' /\ Holding'
    BY <2>3 DEF TypeOK, Holding
  <2>5. OneOwner'
    BY DEF OneOwner
  <2>6. ClaimsExact'
    BY <2>3 DEF ClaimsExact, MaxActive, TypeOK
  <2>7. QED BY <2>4, <2>5, <2>6
<1>3. CASE MainLeave
  <2> USE <1>3 DEF MainLeave, avars, wvars
  <2>1. Cardinality(lanes') = 0
    BY FS_EmptySet
  <2>2. Len(ready) \in Nat
    BY DEF TypeOK
  <2>3. claimed' = Len(ready) /\ claimed' <= claimed
    BY <2>2, LanesCount DEF ClaimsExact, MaxActive
  <2>4. TypeOK' /\ Holding' /\ OneOwner'
    BY <2>2, <2>3 DEF TypeOK, Holding, OneOwner
  <2>5. QED BY <2>1, <2>2, <2>3, <2>4 DEF ClaimsExact, MaxActive, TypeOK
<1>4. CASE DtorStop \/ DtorNotify
  <2>1. TypeOK' /\ Holding'
    BY <1>4 DEF DtorStop, DtorNotify, WakeUp, Waiting, TypeOK, Holding, avars, wvars
  <2>2. QED BY <1>4, <2>1, SameOwners DEF DtorStop, DtorNotify, avars, wvars
<1>5. CASE DtorJoin
  <2> USE <1>5 DEF DtorJoin, avars, wvars
  <2>1. <<>> \in Seq(Conns) /\ Len(<<>>) = 0 /\ Range(<<>>) = {} /\ Len(ready) \in Nat
    BY DEF TypeOK, Range
  <2>2. claimed' = Cardinality(lanes) /\ claimed' <= claimed /\ claimed' \in Nat
    BY <2>1, LanesCount DEF ClaimsExact, MaxActive
  <2>3. TypeOK' /\ Holding'
    BY <2>1, <2>2 DEF TypeOK, Holding
  <2>4. OneOwner'
    BY <2>1 DEF OneOwner
  <2>5. QED BY <2>1, <2>2, <2>3, <2>4, LanesCount DEF ClaimsExact, MaxActive, TypeOK
<1>6. QED BY <1>1, <1>2, <1>3, <1>4, <1>5 DEF Serve, Destructor

------------------------------------------------------------------------------
LEMMA NextInv == IInv /\ [Next]_vars => IInv'
<1> SUFFICES ASSUME IInv, [Next]_vars PROVE IInv'
  OBVIOUS
<1>1. CASE Next
  BY <1>1, AcceptorInv, WorkerInv, MainInv DEF Next
<1>2. CASE UNCHANGED vars
  <2>1. TypeOK' /\ Holding'
    BY <1>2 DEF IInv, TypeOK, Holding, vars, avars, wvars, mvars
  <2>2. QED BY <1>2, <2>1, SameOwners DEF IInv, vars, avars, wvars, mvars
<1>3. QED BY <1>1, <1>2

\* The state of the admission stage is always well typed: no queue, slot or
\* counter leaves its range, for any number of threads.
THEOREM TypeCorrect == Spec => []TypeOK
<1>1. IInv => TypeOK
  BY DEF IInv
<1>2. QED BY <1>1, InitInv, NextInv, PTL DEF Spec

\* Sockets are never owned twice, so none is closed twice or served by two
\* threads, for any number of workers and any queue limit.
THEOREM SocketsHaveOneOwner == Spec => []OneOwner
<1>1. IInv => OneOwner
  BY DEF IInv
<1>2. QED BY <1>1, InitInv, NextInv, PTL DEF Spec

\* The claim counter shared by the workers and the main thread equals the
\* number of live authenticated connections and respects the active limit, for
\* every pool size.
THEOREM ClaimsAreExact == Spec => []ClaimsExact
<1>1. IInv => ClaimsExact
  BY DEF IInv
<1>2. QED BY <1>1, InitInv, NextInv, PTL DEF Spec

------------------------------------------------------------------------------
\* What the threads have left behind once the destructor runs: mu_ is held only
\* by a worker about to block, the main loop's connections went with its scope,
\* and after the joins nothing is queued and no thread moves.
Winding ==
  /\ mu # None => mu \in Workers /\ wpc[mu] = "block"
  /\ mpc # "serve" => lanes = {}
  /\ mpc = "done" => /\ apc = "exit" /\ \A w \in Workers : wpc[w] = "exit"
                     /\ pending = <<>> /\ ready = <<>>

LEMMA InitWinding == Init => Winding
BY DEF Init, Winding

LEMMA NextWinding == IInv /\ Winding /\ [Next]_vars => Winding'
<1> SUFFICES ASSUME IInv, Winding, [Next]_vars PROVE Winding'
  OBVIOUS
<1> USE AdmissionAssumption DEF Winding
<1>0. TypeOK
  BY DEF IInv
<1>1. CASE Acceptor
  BY <1>0, <1>1 DEF Acceptor, AcceptorTop, AcceptorPoll, AcceptorQueue, NotifyOnePending, Waiting,
                    WakeUp, TypeOK, wvars, mvars
<1>2. ASSUME NEW w \in Workers, Worker(w) \/ SpuriousWake(w) PROVE Winding'
  <2>1. CASE WorkerTop(w) \/ WorkerBlock(w) \/ WorkerUpgrade(w)
    BY <1>0, <2>1 DEF WorkerTop, WorkerBlock, WorkerUpgrade, TypeOK, avars, mvars
  <2>2. CASE WorkerCheck(w)
    BY <1>0, <2>2 DEF WorkerCheck, TypeOK, avars, mvars
  <2>3. CASE WorkerClaim(w)
    BY <1>0, <2>3 DEF WorkerClaim, TypeOK, avars, mvars
  <2>4. CASE SpuriousWake(w)
    BY <1>0, <2>4 DEF SpuriousWake, WakeUp, TypeOK, avars, mvars
  <2>5. QED BY <1>2, <2>1, <2>2, <2>3, <2>4 DEF Worker
<1>3. CASE Serve \/ \E c \in Conns : MainDrop(c)
  BY <1>0, <1>3 DEF Serve, MainTake, MainSwitch, MainDrop, Release, TypeOK, avars, wvars
<1>4. CASE MainLeave \/ Destructor
  BY <1>0, <1>4 DEF MainLeave, Destructor, DtorStop, DtorNotify, DtorJoin, WakeUp, Waiting, TypeOK,
                    avars, wvars
<1>5. CASE UNCHANGED vars
  BY <1>5 DEF vars, avars, wvars, mvars
<1>6. QED BY <1>1, <1>2, <1>3, <1>4, <1>5 DEF Next

\* When ~AdmissionServer has joined its threads, every socket it ever accepted
\* has been closed, no slot is claimed and mu_ is free, for any number of
\* workers and connections and whatever they were doing when stop_ was set.
THEOREM ExitIsClean == Spec => []CleanExit
<1>1. IInv /\ Winding => CleanExit
  <2> SUFFICES ASSUME IInv, Winding, mpc = "done" PROVE CleanExit
    BY DEF CleanExit
  <2>1. lanes = {} /\ pending = <<>> /\ ready = <<>> /\ mu = None
    BY DEF Winding, IInv, TypeOK
  <2>2. hand = None /\ \A w \in Workers : job[w] = None
    BY DEF Winding, IInv, Holding
  <2>3. Range(pending) = {} /\ Range(ready) = {} /\ Range(job) \subseteq {None}
    BY <2>1, <2>2 DEF Range, IInv, TypeOK
  <2>4. claimed = 0
    BY <2>1, FS_EmptySet DEF IInv, ClaimsExact
  <2>5. QED BY <2>1, <2>2, <2>3, <2>4 DEF CleanExit, Inside
<1>2. QED BY <1>1, InitInv, NextInv, InitWinding, NextWinding, PTL DEF Spec

------------------------------------------------------------------------------
\* The flow queue.  Its counters are compared with the lines that FlowFifo sees,
\* so pruning and clearing change nothing that is counted.

Entries == [key : Flows, packets : Seq(Packet), interactive : BOOLEAN]
Lines == [Flows -> Seq(Packet)]
LinesOf(fs) == [k \in Flows |-> LineOf(fs, k)]
Distinct(fs) == \A i, j \in 1..Len(fs) : fs[i].key = fs[j].key => i = j

\* The places of the lines L and their bytes, as FlowFifo counts them.
SlotsOf(L) == UNION {{k} \X DOMAIN L[k] : k \in Flows}
OctetsOf(L, S) == UNION {{x} \X (1..L[x[1]][x[2]].size) : x \in S}
Counts(S, n) == IsFiniteSet(S) /\ Cardinality(S) = n
Counted(L, n, b) == Counts(SlotsOf(L), n) /\ Counts(OctetsOf(L, SlotsOf(L)), b)

\* Older packets come first.
Aged(L) == \A k \in Flows : \A i, j \in 1..Len(L[k]) : i <= j => L[k][j].age <= L[k][i].age

Sound(q) ==
  /\ q = Queue(q.flows, q.packets, q.bytes, q.icursor, q.bcursor, q.turns)
  /\ q.flows \in Seq(Entries) /\ Distinct(q.flows)
  /\ q.packets \in Nat /\ q.bytes \in Nat /\ q.turns \in Nat
  /\ q.icursor \in 0..Len(q.flows) /\ q.bcursor \in 0..Len(q.flows)
  /\ Counted(LinesOf(q.flows), q.packets, q.bytes)
  /\ Aged(LinesOf(q.flows))

Sparse(q) == Len(q.flows) <= q.packets + PruneSlack

FlowInv == Sound(This) /\ Sparse(This) /\ packets <= MaxPackets /\ bytes <= MaxBytes

------------------------------------------------------------------------------
\* Counting

LEMMA CountColumn ==
  ASSUME NEW e, NEW n \in Nat
  PROVE  Counts({e} \X (1..n), n)
<1>1. IsFiniteSet(1..n) /\ Cardinality(1..n) = n
  <2>1. 1 \in Int /\ n \in Int /\ (1 > n => n = 0) /\ n - 1 + 1 = n
    OBVIOUS
  <2>2. IsFiniteSet(1..n) /\ Cardinality(1..n) = IF 1 > n THEN 0 ELSE n - 1 + 1
    BY <2>1, FS_Interval
  <2>3. QED BY <2>1, <2>2
<1>2. IsFiniteSet({e}) /\ Cardinality({e}) = 1
  BY FS_Singleton
<1> DEFINE A == {e}
           B == 1..n
<1> HIDE DEF A, B
<1>3. IsFiniteSet(A \X B) /\ Cardinality(A \X B) = 1 * n
  <2>1. IsFiniteSet(A) /\ IsFiniteSet(B) /\ Cardinality(A) = 1 /\ Cardinality(B) = n
    BY <1>1, <1>2 DEF A, B
  <2>2. IsFiniteSet(A \X B) /\ Cardinality(A \X B) = Cardinality(A) * Cardinality(B)
    BY <2>1, FS_Product, Zenon
  <2>3. QED BY <2>1, <2>2
<1>4. QED BY <1>3 DEF A, B, Counts

LEMMA CountUnion ==
  ASSUME NEW S, NEW T, NEW a \in Nat, NEW b \in Nat, Counts(S, a), Counts(T, b), S \cap T = {}
  PROVE  Counts(S \cup T, a + b)
<1>1. IsFiniteSet(S) /\ IsFiniteSet(T) /\ Cardinality(S) = a /\ Cardinality(T) = b
  BY DEF Counts
<1>2. /\ IsFiniteSet(S \cup T)
      /\ Cardinality(S \cup T) = Cardinality(S) + Cardinality(T) - Cardinality(S \cap T)
  BY <1>1, FS_Union, Zenon
<1>3. Cardinality(S \cap T) = 0
  BY FS_EmptySet
<1>4. QED BY <1>1, <1>2, <1>3 DEF Counts

LEMMA CountRest ==
  ASSUME NEW S, NEW T, NEW a \in Nat, Counts(S, a), T \subseteq S
  PROVE  \E b \in Nat : Counts(T, b) /\ b <= a /\ Counts(S \ T, a - b)
<1>1. IsFiniteSet(S) /\ Cardinality(S) = a
  BY DEF Counts
<1>2. IsFiniteSet(T) /\ Cardinality(T) <= Cardinality(S)
  BY <1>1, FS_Subset
<1>3. Cardinality(T) \in Nat
  BY <1>2, FS_CardinalityType
<1>4. IsFiniteSet(S \ T) /\ Cardinality(S \ T) = Cardinality(S) - Cardinality(S \cap T)
  BY <1>1, FS_Difference, Zenon
<1>5. S \cap T = T
  OBVIOUS
<1>6. QED BY <1>1, <1>2, <1>3, <1>4, <1>5 DEF Counts

\* Renaming the elements keeps their number.
LEMMA CountMoved ==
  ASSUME NEW S, NEW T, NEW n, Counts(S, n), NEW f \in [S -> T],
         \A x, y \in S : f[x] = f[y] => x = y, \A z \in T : \E x \in S : f[x] = z
  PROVE  Counts(T, n)
<1>1. f \in Bijection(S, T)
  BY DEF Bijection, Injection, Surjection, IsInjective
<1>2. ExistsBijection(S, T)
  BY <1>1 DEF ExistsBijection
<1>3. QED BY <1>2, FS_Bijection DEF Counts

LEMMA SlotFacts ==
  ASSUME NEW L \in Lines
  PROVE  \A x : x \in SlotsOf(L) <=> \E k \in Flows : \E i \in 1..Len(L[k]) : x = <<k, i>>
<1>1. \A k \in Flows : DOMAIN L[k] = 1..Len(L[k])
  BY DEF Lines
<1>2. QED BY <1>1 DEF SlotsOf

LEMMA OctetFacts ==
  ASSUME NEW L, NEW S
  PROVE  \A y : y \in OctetsOf(L, S) <=>
           \E x \in S : \E b \in 1..L[x[1]][x[2]].size : y = <<x, b>>
BY DEF OctetsOf

\* A packet more.
Grown(L, M, k, p) == M = [L EXCEPT ![k] = Append(@, p)]

LEMMA CountAppend ==
  ASSUME NEW L \in Lines, NEW n \in Nat, NEW b \in Nat, Counted(L, n, b),
         NEW k \in Flows, NEW p \in Packet, p.size \in Nat,
         NEW M, Grown(L, M, k, p)
  PROVE  M \in Lines /\ Counted(M, n + 1, b + p.size)
<1> DEFINE m == Len(L[k]) + 1
           e == <<k, m>>
           S == SlotsOf(L)
           O == OctetsOf(L, S)
           N == {e} \X (1..p.size)
<1>0. Len(L[k]) \in Nat /\ L[k] \in Seq(Packet) /\ m \in Nat
  BY DEF Lines
<1>1. M \in Lines /\ Len(M[k]) = m /\ \A j \in Flows : j # k => M[j] = L[j]
  BY <1>0 DEF Lines, Grown
<1>2. M[k][m] = p /\ \A i \in 1..Len(L[k]) : M[k][i] = L[k][i]
  BY <1>0 DEF Lines, Grown
<1>3. e \notin S
  <2>1. ~(m \in 1..Len(L[k]))
    BY <1>0
  <2>2. QED BY <2>1, SlotFacts
<1>4. SlotsOf(M) = S \cup {e}
  <2>1. \A i : i \in 1..Len(M[k]) <=> i \in 1..Len(L[k]) \/ i = m
    BY <1>0, <1>1
  <2>2. \A x : x \in SlotsOf(M) <=> x \in S \/ x = e
    <3>1. \A x : x \in S <=> \E j \in Flows : \E i \in 1..Len(L[j]) : x = <<j, i>>
      BY SlotFacts
    <3>2. \A x : x \in SlotsOf(M) <=> \E j \in Flows : \E i \in 1..Len(M[j]) : x = <<j, i>>
      BY <1>1, SlotFacts
    <3> HIDE DEF S, m
    <3>3. ASSUME NEW x \in SlotsOf(M) PROVE x \in S \/ x = e
      <4>1. PICK j \in Flows : \E i \in 1..Len(M[j]) : x = <<j, i>>
        BY <3>2
      <4>2. PICK i \in 1..Len(M[j]) : x = <<j, i>>
        BY <4>1
      <4>3. CASE j # k
        <5>1. i \in 1..Len(L[j])
          BY <1>1, <4>3
        <5>2. QED BY <3>1, <4>2, <5>1
      <4>4. CASE j = k
        <5>1. i \in 1..Len(L[k]) \/ i = m
          BY <2>1, <4>4
        <5>2. QED BY <3>1, <4>2, <4>4, <5>1
      <4>5. QED BY <4>3, <4>4
    <3>4. ASSUME NEW x \in S PROVE x \in SlotsOf(M)
      <4>1. PICK j \in Flows : \E i \in 1..Len(L[j]) : x = <<j, i>>
        BY <3>1
      <4>2. PICK i \in 1..Len(L[j]) : x = <<j, i>>
        BY <4>1
      <4>3. i \in 1..Len(M[j])
        BY <1>1, <2>1
      <4>4. QED BY <3>2, <4>2, <4>3
    <3>5. e \in SlotsOf(M)
      <4>1. m \in 1..Len(M[k])
        BY <2>1
      <4>2. QED BY <3>2, <4>1
    <3> HIDE DEF e
    <3>6. QED BY <3>3, <3>4, <3>5, Zenon
  <2>3. QED BY <2>2
<1>5. IsFiniteSet(S) /\ Cardinality(S) = n /\ IsFiniteSet(O) /\ Cardinality(O) = b
  BY DEF Counted, Counts
<1>6. Counts(SlotsOf(M), n + 1)
  <2> HIDE DEF S, e
  <2>1. IsFiniteSet(S \cup {e}) /\ Cardinality(S \cup {e}) = Cardinality(S) + 1
    BY <1>3, <1>5, FS_AddElement
  <2>2. QED BY <1>4, <1>5, <2>1 DEF Counts
<1>7. OctetsOf(M, SlotsOf(M)) = O \cup N
  <2>1. \A x \in S : M[x[1]][x[2]] = L[x[1]][x[2]]
    <3>1. ASSUME NEW j \in Flows, NEW i \in 1..Len(L[j]) PROVE M[j][i] = L[j][i]
      BY <1>1, <1>2
    <3>2. QED BY <3>1, SlotFacts
  <2>2. M[e[1]][e[2]] = p
    BY <1>2
  <2>3. \A y : y \in OctetsOf(M, SlotsOf(M)) <=>
          \E x \in S \cup {e} : \E c \in 1..M[x[1]][x[2]].size : y = <<x, c>>
    <3> DEFINE A == SlotsOf(M)
               B == S \cup {e}
    <3>1. A = B
      BY <1>4
    <3> HIDE DEF A, B
    <3>2. \A y : y \in OctetsOf(M, A) <=>
            \E x \in A : \E c \in 1..M[x[1]][x[2]].size : y = <<x, c>>
      BY OctetFacts
    <3>3. \A y : y \in OctetsOf(M, A) <=>
            \E x \in B : \E c \in 1..M[x[1]][x[2]].size : y = <<x, c>>
      BY <3>1, <3>2
    <3>4. QED BY <3>3 DEF A, B
  <2>4. \A y : y \in O <=> \E x \in S : \E c \in 1..L[x[1]][x[2]].size : y = <<x, c>>
    BY OctetFacts
  <2>5. \A y : y \in N <=> \E c \in 1..p.size : y = <<e, c>>
    OBVIOUS
  <2> HIDE DEF S, e, O, N
  <2>6. ASSUME NEW y \in OctetsOf(M, SlotsOf(M)) PROVE y \in O \/ y \in N
    <3>1. PICK x \in S \cup {e} : \E c \in 1..M[x[1]][x[2]].size : y = <<x, c>>
      BY <2>3
    <3>2. CASE x \in S
      BY <2>1, <2>4, <3>1, <3>2
    <3>3. CASE x = e
      BY <2>2, <2>5, <3>1, <3>3
    <3>4. QED BY <3>2, <3>3
  <2>7. ASSUME NEW y \in O PROVE y \in OctetsOf(M, SlotsOf(M))
    BY <2>1, <2>3, <2>4
  <2>8. ASSUME NEW y \in N PROVE y \in OctetsOf(M, SlotsOf(M))
    BY <2>2, <2>3, <2>5
  <2>9. QED BY <2>6, <2>7, <2>8
<1>8. O \cap N = {}
  <2>1. \A y \in O : \E x \in S : y[1] = x
    BY OctetFacts
  <2>2. \A y \in N : y[1] = e
    OBVIOUS
  <2> HIDE DEF S, e, O, N
  <2>3. QED BY <1>3, <2>1, <2>2
<1>9. Counts(N, p.size)
  BY CountColumn
<1>10. Counts(OctetsOf(M, SlotsOf(M)), b + p.size)
  <2> HIDE DEF N, O
  <2>0. Counts(O, b)
    BY <1>5 DEF Counts
  <2>1. Counts(O \cup N, b + p.size)
    <3> DEFINE z == p.size
    <3>1. z \in Nat /\ Counts(N, z)
      BY <1>9
    <3> HIDE DEF z
    <3>2. Counts(O \cup N, b + z)
      BY <1>8, <2>0, <3>1, CountUnion
    <3>3. QED BY <3>2 DEF z
  <2>2. QED BY <1>7, <2>1
<1>11. QED BY <1>1, <1>6, <1>10 DEF Counted

\* The first packets of every line leave.
Shrunk(L, M, g) ==
  /\ g \in [Flows -> Nat] /\ \A k \in Flows : g[k] <= Len(L[k])
  /\ M = [k \in Flows |-> SubSeq(L[k], g[k] + 1, Len(L[k]))]
Gone(g) == UNION {{k} \X (1..g[k]) : k \in Flows}

LEMMA ShrunkFacts ==
  ASSUME NEW L \in Lines, NEW g, NEW M, Shrunk(L, M, g)
  PROVE  /\ M \in Lines
         /\ \A k \in Flows : Len(L[k]) \in Nat /\ g[k] \in Nat /\ g[k] <= Len(L[k])
         /\ \A k \in Flows : Len(M[k]) = Len(L[k]) - g[k]
         /\ \A k \in Flows : \A i \in 1..Len(M[k]) : M[k][i] = L[k][i + g[k]]
<1>1. ASSUME NEW k \in Flows
      PROVE  /\ Len(L[k]) \in Nat /\ g[k] \in Nat /\ g[k] <= Len(L[k])
             /\ M[k] \in Seq(Packet) /\ Len(M[k]) = Len(L[k]) - g[k]
             /\ \A i \in 1..Len(M[k]) : M[k][i] = L[k][i + g[k]]
  <2> DEFINE s == L[k]
             n == g[k]
  <2>1. s \in Seq(Packet) /\ n \in Nat /\ n <= Len(s) /\ M[k] = SubSeq(s, n + 1, Len(s))
    BY DEF Lines, Shrunk
  <2> HIDE DEF s, n
  <2>2. Len(s) \in Nat
    BY <2>1
  <2>3. /\ SubSeq(s, n + 1, Len(s)) \in Seq(Packet)
        /\ Len(SubSeq(s, n + 1, Len(s))) = Len(s) - n
        /\ \A i \in 1..(Len(s) - n) : SubSeq(s, n + 1, Len(s))[i] = s[i + n]
    BY <2>1, <2>2
  <2>4. QED BY <2>1, <2>2, <2>3 DEF s, n
<1>2. M = [k \in Flows |-> M[k]]
  BY DEF Shrunk
<1>3. QED BY <1>1, <1>2 DEF Lines

LEMMA GoneFacts ==
  ASSUME NEW g
  PROVE  \A x : x \in Gone(g) <=> \E k \in Flows : \E i \in 1..g[k] : x = <<k, i>>
BY DEF Gone

LEMMA CountShrunk ==
  ASSUME NEW L \in Lines, NEW n \in Nat, NEW b \in Nat, Counted(L, n, b),
         NEW g, NEW M, Shrunk(L, M, g)
  PROVE  \E d, o \in Nat : /\ d <= n /\ o <= b /\ Counts(Gone(g), d)
                           /\ Counts(OctetsOf(L, Gone(g)), o)
                           /\ Counted(M, n - d, b - o)
<1> DEFINE S == SlotsOf(L)
           O == OctetsOf(L, S)
           D == Gone(g)
           E == OctetsOf(L, D)
           T == SlotsOf(M)
           P == OctetsOf(M, T)
           f == [x \in S \ D |-> <<x[1], x[2] - g[x[1]]>>]
           h == [y \in O \ E |-> <<f[y[1]], y[2]>>]
<1>1. /\ M \in Lines
      /\ \A k \in Flows : Len(L[k]) \in Nat /\ g[k] \in Nat /\ g[k] <= Len(L[k])
      /\ \A k \in Flows : Len(M[k]) = Len(L[k]) - g[k]
      /\ \A k \in Flows : \A i \in 1..Len(M[k]) : M[k][i] = L[k][i + g[k]]
  BY ShrunkFacts
<1>2. \A x : x \in S <=> \E k \in Flows : \E i \in 1..Len(L[k]) : x = <<k, i>>
  BY SlotFacts
<1>3. \A x : x \in D <=> \E k \in Flows : \E i \in 1..g[k] : x = <<k, i>>
  BY GoneFacts
<1>4. \A x : x \in T <=> \E k \in Flows : \E i \in 1..Len(M[k]) : x = <<k, i>>
  BY <1>1, SlotFacts
<1>5. \A y : y \in O <=> \E x \in S : \E c \in 1..L[x[1]][x[2]].size : y = <<x, c>>
  BY OctetFacts
<1>6. \A y : y \in E <=> \E x \in D : \E c \in 1..L[x[1]][x[2]].size : y = <<x, c>>
  BY OctetFacts
<1>7. \A y : y \in P <=> \E x \in T : \E c \in 1..M[x[1]][x[2]].size : y = <<x, c>>
  BY OctetFacts
<1>8. Counts(S, n) /\ Counts(O, b)
  BY DEF Counted
<1> HIDE DEF S, O, D, E, T, P
<1>9. D \subseteq S
  <2>1. \A k \in Flows : \A i \in 1..g[k] : i \in 1..Len(L[k])
    BY <1>1
  <2>2. QED BY <1>2, <1>3, <2>1
<1>10. E \subseteq O
  BY <1>5, <1>6, <1>9
\* What stays, and where it moves.
<1>11. \A x : x \in S \ D <=> \E k \in Flows : \E i \in (g[k] + 1)..Len(L[k]) : x = <<k, i>>
  <2>1. \A k \in Flows : \A i : i \in (g[k] + 1)..Len(L[k]) <=> i \in 1..Len(L[k]) /\ ~(i \in 1..g[k])
    BY <1>1
  <2>2. \A k \in Flows : \A i \in (g[k] + 1)..Len(L[k]) : <<k, i>> \in S /\ <<k, i>> \notin D
    BY <1>2, <1>3, <2>1
  <2>3. ASSUME NEW x \in S \ D
        PROVE  \E k \in Flows : \E i \in (g[k] + 1)..Len(L[k]) : x = <<k, i>>
    <3>1. PICK k \in Flows : \E i \in 1..Len(L[k]) : x = <<k, i>>
      BY <1>2
    <3>2. PICK i \in 1..Len(L[k]) : x = <<k, i>>
      BY <3>1
    <3>3. ~(i \in 1..g[k])
      BY <1>3, <3>2
    <3>4. QED BY <2>1, <3>2, <3>3
  <2>4. QED BY <2>2, <2>3
<1>12. \A k \in Flows : \A i \in (g[k] + 1)..Len(L[k]) :
         /\ <<k, i>> \in S \ D /\ f[<<k, i>>] = <<k, i - g[k]>>
         /\ i - g[k] \in 1..Len(M[k]) /\ <<k, i - g[k]>> \in T
         /\ M[k][i - g[k]] = L[k][i]
  <2> SUFFICES ASSUME NEW k \in Flows, NEW i \in (g[k] + 1)..Len(L[k])
               PROVE  /\ <<k, i>> \in S \ D /\ f[<<k, i>>] = <<k, i - g[k]>>
                      /\ i - g[k] \in 1..Len(M[k]) /\ <<k, i - g[k]>> \in T
                      /\ M[k][i - g[k]] = L[k][i]
    OBVIOUS
  <2>1. <<k, i>> \in S \ D
    BY <1>11
  <2>2. f[<<k, i>>] = <<k, i - g[k]>>
    BY <2>1
  <2>3. i - g[k] \in 1..Len(M[k]) /\ (i - g[k]) + g[k] = i
    BY <1>1
  <2>4. M[k][i - g[k]] = L[k][i]
    BY <1>1, <2>3
  <2>5. <<k, i - g[k]>> \in T
    BY <1>4, <2>3
  <2>6. QED BY <2>1, <2>2, <2>3, <2>4, <2>5
<1>13. \A z \in T : \E k \in Flows : \E i \in (g[k] + 1)..Len(L[k]) : z = <<k, i - g[k]>>
  <2> SUFFICES ASSUME NEW k \in Flows, NEW i \in 1..Len(M[k])
               PROVE  \E j \in (g[k] + 1)..Len(L[k]) : i = j - g[k]
    BY <1>4
  <2>1. i + g[k] \in (g[k] + 1)..Len(L[k]) /\ i = (i + g[k]) - g[k]
    BY <1>1
  <2>2. QED BY <2>1
<1>14. f \in [S \ D -> T]
  <2>1. ASSUME NEW x \in S \ D PROVE f[x] \in T
    <3>1. PICK k \in Flows : \E i \in (g[k] + 1)..Len(L[k]) : x = <<k, i>>
      BY <1>11
    <3>2. PICK i \in (g[k] + 1)..Len(L[k]) : x = <<k, i>>
      BY <3>1
    <3> HIDE DEF f
    <3>3. QED BY <1>12, <3>2
  <2>2. QED BY <2>1
<1>15. \A x, y \in S \ D : f[x] = f[y] => x = y
  <2> SUFFICES ASSUME NEW x \in S \ D, NEW y \in S \ D, f[x] = f[y] PROVE x = y
    OBVIOUS
  <2>01. PICK k \in Flows : \E i \in (g[k] + 1)..Len(L[k]) : x = <<k, i>>
    BY <1>11
  <2>1. PICK i \in (g[k] + 1)..Len(L[k]) : x = <<k, i>>
    BY <2>01
  <2>02. PICK j \in Flows : \E c \in (g[j] + 1)..Len(L[j]) : y = <<j, c>>
    BY <1>11
  <2>2. PICK c \in (g[j] + 1)..Len(L[j]) : y = <<j, c>>
    BY <2>02
  <2>3. f[x] = <<k, i - g[k]>> /\ f[y] = <<j, c - g[j]>>
    BY <1>12, <2>1, <2>2
  <2>4. k = j /\ i - g[k] = c - g[k]
    <3>1. <<k, i - g[k]>> = <<j, c - g[j]>>
      BY <2>3
    <3>2. QED BY <3>1
  <2>5. i = c
    BY <1>1, <2>4
  <2>6. QED BY <2>1, <2>2, <2>4, <2>5
<1>16. \A z \in T : \E x \in S \ D : f[x] = z
  <2> HIDE DEF f
  <2> SUFFICES ASSUME NEW z \in T PROVE \E x \in S \ D : f[x] = z
    OBVIOUS
  <2>1. PICK k \in Flows : \E i \in (g[k] + 1)..Len(L[k]) : z = <<k, i - g[k]>>
    BY <1>13
  <2>2. PICK i \in (g[k] + 1)..Len(L[k]) : z = <<k, i - g[k]>>
    BY <2>1
  <2>3. <<k, i>> \in S \ D /\ f[<<k, i>>] = <<k, i - g[k]>>
    BY <1>12
  <2>4. QED BY <2>2, <2>3
<1>17. PICK d \in Nat : Counts(D, d) /\ d <= n /\ Counts(S \ D, n - d)
  BY <1>8, <1>9, CountRest
<1>18. Counts(T, n - d)
  <2> HIDE DEF f
  <2>1. QED BY <1>14, <1>15, <1>16, <1>17, CountMoved
<1>19. \A x \in S \ D : M[f[x][1]][f[x][2]] = L[x[1]][x[2]]
  <2> HIDE DEF f
  <2> SUFFICES ASSUME NEW x \in S \ D PROVE M[f[x][1]][f[x][2]] = L[x[1]][x[2]]
    OBVIOUS
  <2>1. PICK k \in Flows : \E i \in (g[k] + 1)..Len(L[k]) : x = <<k, i>>
    BY <1>11
  <2>2. PICK i \in (g[k] + 1)..Len(L[k]) : x = <<k, i>>
    BY <2>1
  <2>3. f[x] = <<k, i - g[k]>> /\ M[k][i - g[k]] = L[k][i]
    BY <1>12, <2>2
  <2>4. f[x][1] = k /\ f[x][2] = i - g[k] /\ x[1] = k /\ x[2] = i
    BY <2>2, <2>3
  <2>5. QED BY <2>3, <2>4
<1>20. \A y : y \in O \ E <=> \E x \in S \ D : \E c \in 1..L[x[1]][x[2]].size : y = <<x, c>>
  <2>1. ASSUME NEW y \in O \ E
        PROVE  \E x \in S \ D : \E c \in 1..L[x[1]][x[2]].size : y = <<x, c>>
    <3>1. PICK x \in S : \E c \in 1..L[x[1]][x[2]].size : y = <<x, c>>
      BY <1>5
    <3>2. x \notin D
      BY <1>6, <3>1
    <3>3. QED BY <3>1, <3>2
  <2>2. ASSUME NEW x \in S \ D, NEW c \in 1..L[x[1]][x[2]].size PROVE <<x, c>> \in O \ E
    <3>1. <<x, c>> \in O
      BY <1>5
    <3>2. <<x, c>> \notin E
      BY <1>6
    <3>3. QED BY <3>1, <3>2
  <2>3. QED BY <2>1, <2>2
<1> HIDE DEF f
<1>21. h \in [O \ E -> P]
  <2>1. ASSUME NEW y \in O \ E PROVE <<f[y[1]], y[2]>> \in P
    <3>1. PICK x \in S \ D : \E c \in 1..L[x[1]][x[2]].size : y = <<x, c>>
      BY <1>20
    <3>2. PICK c \in 1..L[x[1]][x[2]].size : y = <<x, c>>
      BY <3>1
    <3>3. f[x] \in T /\ c \in 1..M[f[x][1]][f[x][2]].size
      BY <1>14, <1>19
    <3>4. <<f[x], c>> \in P
      BY <1>7, <3>3
    <3>5. QED BY <3>2, <3>4
  <2>2. QED BY <2>1
<1>22. \A x, y \in O \ E : h[x] = h[y] => x = y
  <2> SUFFICES ASSUME NEW x \in O \ E, NEW y \in O \ E, h[x] = h[y] PROVE x = y
    OBVIOUS
  <2>1. PICK u \in S \ D : \E c \in 1..L[u[1]][u[2]].size : x = <<u, c>>
    BY <1>20
  <2>2. PICK v \in S \ D : \E c \in 1..L[v[1]][v[2]].size : y = <<v, c>>
    BY <1>20
  <2>3. x = <<u, x[2]>> /\ y = <<v, y[2]>>
    BY <2>1, <2>2
  <2>4. h[x] = <<f[u], x[2]>> /\ h[y] = <<f[v], y[2]>>
    BY <2>3
  <2>5. f[u] = f[v] /\ x[2] = y[2]
    BY <2>4
  <2>6. QED BY <1>15, <2>3, <2>5
<1>23. \A z \in P : \E y \in O \ E : h[y] = z
  <2> SUFFICES ASSUME NEW z \in P PROVE \E y \in O \ E : h[y] = z
    OBVIOUS
  <2>1. PICK t \in T : \E c \in 1..M[t[1]][t[2]].size : z = <<t, c>>
    BY <1>7
  <2>2. PICK c \in 1..M[t[1]][t[2]].size : z = <<t, c>>
    BY <2>1
  <2>3. PICK x \in S \ D : f[x] = t
    BY <1>16
  <2>4. c \in 1..L[x[1]][x[2]].size
    BY <1>19, <2>3
  <2>5. <<x, c>> \in O \ E
    BY <1>20, <2>4
  <2>6. h[<<x, c>>] = z
    BY <2>2, <2>3, <2>5
  <2>7. QED BY <2>5, <2>6
<1>24. PICK o \in Nat : Counts(E, o) /\ o <= b /\ Counts(O \ E, b - o)
  BY <1>8, <1>10, CountRest
<1>25. Counts(P, b - o)
  <2> HIDE DEF h
  <2>1. QED BY <1>21, <1>22, <1>23, <1>24, CountMoved
<1>26. Counted(M, n - d, b - o)
  BY <1>18, <1>25 DEF Counted, P, T
<1>27. QED BY <1>17, <1>24, <1>26 DEF D, E

\* Packets change nothing that is counted.
LEMMA CountSame ==
  ASSUME NEW L \in Lines, NEW n, NEW b, Counted(L, n, b), NEW M \in Lines,
         \A k \in Flows : Len(M[k]) = Len(L[k]),
         \A k \in Flows : \A i \in 1..Len(L[k]) : M[k][i].size = L[k][i].size
  PROVE  Counted(M, n, b)
<1>1. \A x : x \in SlotsOf(L) <=> \E k \in Flows : \E i \in 1..Len(L[k]) : x = <<k, i>>
  BY SlotFacts
<1>2. \A x : x \in SlotsOf(M) <=> \E k \in Flows : \E i \in 1..Len(M[k]) : x = <<k, i>>
  BY SlotFacts
<1>3. SlotsOf(M) = SlotsOf(L)
  BY <1>1, <1>2
<1>4. \A x \in SlotsOf(L) : M[x[1]][x[2]].size = L[x[1]][x[2]].size
  BY <1>1
<1>5. OctetsOf(M, SlotsOf(L)) = OctetsOf(L, SlotsOf(L))
  <2> DEFINE S == SlotsOf(L)
  <2>0. \A x \in S : M[x[1]][x[2]].size = L[x[1]][x[2]].size
    BY <1>4
  <2> HIDE DEF S
  <2>1. \A y : y \in OctetsOf(L, S) <=> \E x \in S : \E c \in 1..L[x[1]][x[2]].size : y = <<x, c>>
    BY OctetFacts
  <2>2. \A y : y \in OctetsOf(M, S) <=> \E x \in S : \E c \in 1..M[x[1]][x[2]].size : y = <<x, c>>
    BY OctetFacts
  <2>3. \A y : y \in OctetsOf(L, S) <=> y \in OctetsOf(M, S)
    BY <2>0, <2>1, <2>2
  <2>4. OctetsOf(M, S) = OctetsOf(L, S)
    BY <2>3
  <2>5. QED BY <2>4 DEF S
<1>6. QED BY <1>3, <1>5 DEF Counted

------------------------------------------------------------------------------
\* Lines

LEMMA EntryFacts ==
  ASSUME NEW fs \in Seq(Entries)
  PROVE  /\ Len(fs) \in Nat /\ DOMAIN fs = 1..Len(fs)
         /\ \A i \in 1..Len(fs) : fs[i] \in Entries /\ fs[i].key \in Flows /\ fs[i].packets \in Seq(Packet)
<1>1. Len(fs) \in Nat /\ DOMAIN fs = 1..Len(fs) /\ \A i \in 1..Len(fs) : fs[i] \in Entries
  OBVIOUS
<1>2. QED BY <1>1 DEF Entries

LEMMA LineAt ==
  ASSUME NEW fs \in Seq(Entries), Distinct(fs), NEW i \in 1..Len(fs)
  PROVE  LineOf(fs, fs[i].key) = fs[i].packets
<1>1. DOMAIN fs = 1..Len(fs)
  BY EntryFacts
<1> DEFINE j == CHOOSE c \in 1..Len(fs) : fs[c].key = fs[i].key
<1>2. j \in 1..Len(fs) /\ fs[j].key = fs[i].key
  OBVIOUS
<1>3. LineOf(fs, fs[i].key) = fs[j].packets
  BY <1>1 DEF LineOf
<1> HIDE DEF j
<1>4. j = i
  BY <1>2 DEF Distinct
<1>5. QED BY <1>3, <1>4

LEMMA LineNone ==
  ASSUME NEW fs \in Seq(Entries), NEW k, \A i \in 1..Len(fs) : fs[i].key # k
  PROVE  LineOf(fs, k) = <<>>
BY EntryFacts DEF LineOf

LEMMA LinesTyped ==
  ASSUME NEW fs \in Seq(Entries), Distinct(fs)
  PROVE  LinesOf(fs) \in Lines
<1>1. ASSUME NEW k \in Flows PROVE LineOf(fs, k) \in Seq(Packet)
  <2>1. CASE \E i \in 1..Len(fs) : fs[i].key = k
    BY <2>1, LineAt, EntryFacts
  <2>2. CASE \A i \in 1..Len(fs) : fs[i].key # k
    <3>1. LineOf(fs, k) = <<>>
      BY <2>2, LineNone
    <3>2. QED BY <3>1
  <2>3. QED BY <2>1, <2>2
<1>2. QED BY <1>1 DEF LinesOf, Lines

\* Entries without packets make no difference.
LEMMA SameLines ==
  ASSUME NEW fs \in Seq(Entries), Distinct(fs), NEW gs \in Seq(Entries), Distinct(gs),
         \A i \in 1..Len(gs) : HasPackets(gs[i]) =>
           \E j \in 1..Len(fs) : fs[j].key = gs[i].key /\ fs[j].packets = gs[i].packets,
         \A j \in 1..Len(fs) : HasPackets(fs[j]) =>
           \E i \in 1..Len(gs) : fs[j].key = gs[i].key /\ fs[j].packets = gs[i].packets
  PROVE  LinesOf(gs) = LinesOf(fs)
<1>1. ASSUME NEW k \in Flows PROVE LineOf(gs, k) = LineOf(fs, k)
  <2>1. CASE \E i \in 1..Len(gs) : gs[i].key = k /\ HasPackets(gs[i])
    <3>1. PICK i \in 1..Len(gs) : gs[i].key = k /\ HasPackets(gs[i])
      BY <2>1
    <3>2. PICK j \in 1..Len(fs) : fs[j].key = k /\ fs[j].packets = gs[i].packets
      BY <3>1
    <3>3. LineOf(gs, k) = gs[i].packets
      BY <3>1, LineAt
    <3>4. LineOf(fs, k) = fs[j].packets
      BY <3>2, LineAt
    <3>5. QED BY <3>2, <3>3, <3>4
  <2>2. CASE \A i \in 1..Len(gs) : gs[i].key = k => ~HasPackets(gs[i])
    <3>1. LineOf(gs, k) = <<>>
      <4>1. CASE \E i \in 1..Len(gs) : gs[i].key = k
        BY <2>2, <4>1, LineAt DEF HasPackets
      <4>2. CASE \A i \in 1..Len(gs) : gs[i].key # k
        BY <4>2, LineNone
      <4>3. QED BY <4>1, <4>2
    <3>2. LineOf(fs, k) = <<>>
      <4>1. CASE \E j \in 1..Len(fs) : fs[j].key = k
        <5>1. PICK j \in 1..Len(fs) : fs[j].key = k
          BY <4>1
        <5>2. ~HasPackets(fs[j])
          <6>1. SUFFICES ASSUME HasPackets(fs[j]) PROVE FALSE
            OBVIOUS
          <6>2. PICK i \in 1..Len(gs) : fs[j].key = gs[i].key /\ fs[j].packets = gs[i].packets
            BY <6>1
          <6>3. HasPackets(gs[i]) /\ gs[i].key = k
            BY <5>1, <6>1, <6>2 DEF HasPackets
          <6>4. QED BY <2>2, <6>3
        <5>3. LineOf(fs, k) = fs[j].packets
          BY <5>1, LineAt
        <5>4. QED BY <5>2, <5>3 DEF HasPackets
      <4>2. CASE \A j \in 1..Len(fs) : fs[j].key # k
        BY <4>2, LineNone
      <4>3. QED BY <4>1, <4>2
    <3>3. QED BY <3>1, <3>2
  <2>3. QED BY <2>1, <2>2
<1>2. QED BY <1>1 DEF LinesOf

------------------------------------------------------------------------------
\* Every set of natural numbers has a least element.
LEMMA LeastNat ==
  ASSUME NEW T, T \subseteq Nat, T # {}
  PROVE  \E x \in T : \A y \in T : x <= y
<1> DEFINE R == OpToRel(<, Nat)
<1>1. IsWellFoundedOn(R, Nat)
  BY NatLessThanWellFounded
<1>2. \A x, y \in Nat : <<y, x>> \in R <=> y < x
  BY DEF OpToRel
<1> HIDE DEF R
<1>3. \E x \in T : \A y \in T : ~(<<y, x>> \in R)
  BY <1>1, WFMin
<1>4. PICK x \in T : \A y \in T : ~(<<y, x>> \in R)
  BY <1>3
<1>5. \A y \in T : ~(y < x)
  BY <1>2, <1>4
<1>6. \A y \in T : x <= y
  BY <1>5
<1>7. QED BY <1>6

\* Induction, for a set instead of a predicate.
LEMMA Induction ==
  ASSUME NEW S, 0 \in S, \A n \in Nat : n \in S => n + 1 \in S
  PROVE  Nat \subseteq S
<1> SUFFICES ASSUME Nat \ S # {} PROVE FALSE
  OBVIOUS
<1>1. PICK x \in Nat \ S : \A y \in Nat \ S : x <= y
  BY LeastNat
<1>2. x # 0 /\ x - 1 \in Nat /\ x - 1 \in S
  BY <1>1
<1>3. QED BY <1>1, <1>2

\* What a recursive definition needs: for every start and every step there is a
\* function on 0..N that follows them.
Follows(g, N, A, a, step) ==
  g \in [0..N -> A] /\ g[0] = a /\ \A m \in 1..N : g[m] = step[<<g[m - 1], m>>]

LEMMA Recursion ==
  ASSUME NEW N \in Nat, NEW A, NEW a \in A, NEW step \in [A \X (1..N) -> A]
  PROVE  \E g : Follows(g, N, A, a, step)
<1> DEFINE Part(g, n) == g[0] = a /\ \A m \in 1..n : g[m] = step[<<g[m - 1], m>>]
           Made == {n \in Nat : n <= N => \E g \in [0..n -> A] : Part(g, n)}
<1>1. 0 \in Made
  <2>1. [m \in 0..0 |-> a] \in [0..0 -> A] /\ Part([m \in 0..0 |-> a], 0)
    OBVIOUS
  <2>2. QED BY <2>1
<1>2. ASSUME NEW n \in Nat, n \in Made PROVE n + 1 \in Made
  <2>1. SUFFICES ASSUME n + 1 <= N PROVE \E g \in [0..(n + 1) -> A] : Part(g, n + 1)
    OBVIOUS
  <2>2. n <= N /\ n + 1 \in 1..N
    BY <2>1
  <2>3. PICK g \in [0..n -> A] : Part(g, n)
    BY <1>2, <2>2
  <2> DEFINE h == [m \in 0..(n + 1) |-> IF m <= n THEN g[m] ELSE step[<<g[n], n + 1>>]]
  <2>4. h \in [0..(n + 1) -> A]
    BY <2>2
  <2>5. h[0] = a
    BY <2>3
  <2>6. ASSUME NEW m \in 1..(n + 1) PROVE h[m] = step[<<h[m - 1], m>>]
    <3>1. m - 1 \in 0..n /\ h[m - 1] = g[m - 1]
      OBVIOUS
    <3>2. CASE m <= n
      BY <2>3, <3>1, <3>2
    <3>3. CASE m = n + 1
      <4>1. m - 1 = n /\ h[m] = step[<<g[n], n + 1>>]
        BY <3>3
      <4>2. QED BY <3>1, <3>3, <4>1
    <3>4. QED BY <3>2, <3>3
  <2>7. Part(h, n + 1)
    BY <2>5, <2>6
  <2> HIDE DEF h, Part
  <2>8. QED BY <2>4, <2>7
<1>3. \A n \in Nat : n \in Made => n + 1 \in Made
  <2> HIDE DEF Made
  <2> QED BY <1>2
<1>4. N \in Made
  <2> HIDE DEF Made
  <2> QED BY <1>1, <1>3, Induction
<1>5. QED BY <1>4 DEF Follows


\* Pruning keeps the entries with packets, each once, and nothing else.
LEMMA OccupiedFacts ==
  ASSUME NEW fs \in Seq(Entries), Distinct(fs)
  PROVE  /\ Occupied(fs) \in Seq(Entries) /\ Distinct(Occupied(fs))
         /\ \A i \in 1..Len(Occupied(fs)) :
              \E j \in 1..Len(fs) : Occupied(fs)[i] = fs[j] /\ HasPackets(fs[j])
         /\ \A j \in 1..Len(fs) : HasPackets(fs[j]) =>
              \E i \in 1..Len(Occupied(fs)) : Occupied(fs)[i] = fs[j]
<1> DEFINE N == Len(fs)
           Def(f) == [n \in 0..N |-> IF n = 0 THEN <<>>
                                     ELSE IF HasPackets(fs[n]) THEN Append(f[n - 1], fs[n]) ELSE f[n - 1]]
           kept == CHOOSE f : f = Def(f)
           Right(t, n) == /\ t \in Seq(Entries) /\ Distinct(t)
                          /\ \A i \in 1..Len(t) : \E j \in 1..n : t[i] = fs[j] /\ HasPackets(fs[j])
                          /\ \A j \in 1..n : HasPackets(fs[j]) => \E i \in 1..Len(t) : t[i] = fs[j]
           Good == {n \in Nat : n <= N => Right(kept[n], n)}
<1>0. N \in Nat /\ \A n \in 1..N : fs[n] \in Entries
  BY EntryFacts
<1>1. Occupied(fs) = kept[N]
  BY DEF Occupied
<1>2. kept = Def(kept)
  <2> DEFINE step == [x \in Seq(Entries) \X (1..N) |->
                        IF HasPackets(fs[x[2]]) THEN Append(x[1], fs[x[2]]) ELSE x[1]]
  <2>1. step \in [Seq(Entries) \X (1..N) -> Seq(Entries)] /\ <<>> \in Seq(Entries)
    BY <1>0
  <2>2. \A t \in Seq(Entries), m \in 1..N :
          step[<<t, m>>] = IF HasPackets(fs[m]) THEN Append(t, fs[m]) ELSE t
    OBVIOUS
  <2> DEFINE A == Seq(Entries)
             a == <<>>
  <2> HIDE DEF step, N, A, a
  <2>0. a \in A /\ step \in [A \X (1..N) -> A]
    BY <2>1 DEF A, a
  <2>a. \E g : Follows(g, N, A, a, step)
    <3>1. N \in Nat
      BY <1>0
    <3>2. a \in A
      BY <2>0
    <3>3. step \in [A \X (1..N) -> A]
      BY <2>0
    <3>4. QED BY <3>1, <3>2, <3>3, Recursion, Zenon
  <2>3. PICK g \in [0..N -> Seq(Entries)] : g[0] = <<>> /\ \A m \in 1..N : g[m] = step[<<g[m - 1], m>>]
    BY <2>a DEF A, a, Follows
  <2>4. \A m \in 1..N : m - 1 \in 0..N /\ g[m - 1] \in Seq(Entries)
    BY <1>0
  <2>5. \A m \in 1..N : g[m] = IF HasPackets(fs[m]) THEN Append(g[m - 1], fs[m]) ELSE g[m - 1]
    BY <2>2, <2>3, <2>4
  <2>6. \A n \in 0..N : g[n] = IF n = 0 THEN <<>>
                               ELSE IF HasPackets(fs[n]) THEN Append(g[n - 1], fs[n]) ELSE g[n - 1]
    <3>1. \A n \in 0..N : n = 0 \/ n \in 1..N
      BY <1>0
    <3>2. \A n \in 1..N : n # 0
      BY <1>0
    <3>3. QED BY <2>3, <2>5, <3>1, <3>2, Zenon
  <2>7. g = Def(g)
    BY <2>6
  <2>8. QED BY <2>7
<1> HIDE DEF kept
<1>3. kept[0] = <<>>
  BY <1>0, <1>2
<1>4. \A n \in 1..N : kept[n] = IF HasPackets(fs[n]) THEN Append(kept[n - 1], fs[n]) ELSE kept[n - 1]
  <2> HIDE DEF N
  <2>1. \A n \in 1..N : n \in 0..N /\ n # 0
    BY <1>0
  <2>2. \A n \in 0..N : kept[n] = Def(kept)[n]
    BY <1>2, Zenon
  <2>3. QED BY <2>1, <2>2, Zenon
<1>5. ASSUME NEW t, NEW n \in Nat, n + 1 \in 1..N, Right(t, n), HasPackets(fs[n + 1])
      PROVE  Right(Append(t, fs[n + 1]), n + 1)
  <2> DEFINE f == fs[n + 1]
             u == Append(t, f)
             m == Len(t)
  <2>1. f \in Entries /\ m \in Nat /\ t \in Seq(Entries)
    BY <1>0, <1>5
  <2>2. /\ u \in Seq(Entries) /\ Len(u) = m + 1 /\ u[m + 1] = f
        /\ \A i \in 1..m : u[i] = t[i]
    BY <2>1
  <2> HIDE DEF u, m
  <2>3. \A i \in 1..m : \E j \in 1..n : u[i] = fs[j] /\ HasPackets(fs[j])
    BY <1>5, <2>2 DEF m
  <2>4. \A i \in 1..m : u[i].key # f.key
    <3> SUFFICES ASSUME NEW i \in 1..m PROVE u[i].key # f.key
      OBVIOUS
    <3>1. PICK j \in 1..n : u[i] = fs[j]
      BY <2>3
    <3>2. j \in 1..N /\ j # n + 1 /\ n + 1 \in 1..N
      BY <1>0, <1>5
    <3>3. fs[j].key = fs[n + 1].key => j = n + 1
      BY <3>2 DEF Distinct
    <3>4. QED BY <3>1, <3>2, <3>3
  <2>5. Distinct(u)
    <3>1. \A i, j \in 1..m : u[i].key = u[j].key => i = j
      BY <1>5, <2>2 DEF Distinct, m
    <3>2. \A i \in 1..(m + 1) : i \in 1..m \/ i = m + 1
      BY <2>1
    <3>3. QED BY <2>2, <2>4, <3>1, <3>2 DEF Distinct
  <2>6. \A i \in 1..Len(u) : \E j \in 1..(n + 1) : u[i] = fs[j] /\ HasPackets(fs[j])
    <3>1. \A i \in 1..(m + 1) : i \in 1..m \/ i = m + 1
      BY <2>1
    <3>2. n + 1 \in 1..(n + 1) /\ \A j \in 1..n : j \in 1..(n + 1)
      OBVIOUS
    <3> SUFFICES ASSUME NEW i \in 1..(m + 1)
                 PROVE  \E j \in 1..(n + 1) : u[i] = fs[j] /\ HasPackets(fs[j])
      BY <2>2
    <3>3. CASE i \in 1..m
      BY <2>3, <3>2, <3>3
    <3>4. CASE i = m + 1
      <4>1. u[i] = fs[n + 1] /\ HasPackets(fs[n + 1])
        BY <1>5, <2>2, <3>4
      <4>2. QED BY <3>2, <4>1
    <3>5. QED BY <3>1, <3>3, <3>4
  <2>7. \A j \in 1..(n + 1) : HasPackets(fs[j]) => \E i \in 1..Len(u) : u[i] = fs[j]
    <3>1. \A j \in 1..(n + 1) : j \in 1..n \/ j = n + 1
      OBVIOUS
    <3>2. \A j \in 1..n : HasPackets(fs[j]) => \E i \in 1..m : u[i] = fs[j]
      BY <1>5, <2>2 DEF m
    <3>3. m + 1 \in 1..(m + 1) /\ \A i \in 1..m : i \in 1..(m + 1)
      BY <2>1
    <3>4. QED BY <2>2, <3>1, <3>2, <3>3
  <2>8. Right(u, n + 1)
    BY <2>2, <2>5, <2>6, <2>7
  <2>9. QED BY <2>8 DEF u
<1>6. ASSUME NEW t, NEW n \in Nat, Right(t, n), ~HasPackets(fs[n + 1])
      PROVE  Right(t, n + 1)
  <2>1. \A j \in 1..(n + 1) : j \in 1..n \/ j = n + 1
    OBVIOUS
  <2>2. \A j \in 1..n : j \in 1..(n + 1)
    OBVIOUS
  <2>3. \A i \in 1..Len(t) : \E j \in 1..(n + 1) : t[i] = fs[j] /\ HasPackets(fs[j])
    BY <1>6, <2>2
  <2>4. \A j \in 1..(n + 1) : HasPackets(fs[j]) => \E i \in 1..Len(t) : t[i] = fs[j]
    BY <1>6, <2>1
  <2>5. QED BY <1>6, <2>3, <2>4
<1>7. N \in Good
  <2>1. 0 \in Good
    <3>1. Right(<<>>, 0)
      <4>1. Len(<<>>) = 0 /\ <<>> \in Seq(Entries)
        OBVIOUS
      <4>2. QED BY <4>1 DEF Distinct
    <3> HIDE DEF Right
    <3>2. QED BY <1>3, <3>1
  <2>2. ASSUME NEW n \in Nat, n \in Good PROVE n + 1 \in Good
    <3>1. SUFFICES ASSUME n + 1 <= N PROVE Right(kept[n + 1], n + 1)
      OBVIOUS
    <3>2. n + 1 \in 1..N /\ Right(kept[n], n) /\ (n + 1) - 1 = n
      BY <1>0, <2>2, <3>1
    <3> HIDE DEF Right, N
    <3>3. kept[n + 1] = IF HasPackets(fs[n + 1]) THEN Append(kept[n], fs[n + 1]) ELSE kept[n]
      BY <1>4, <3>2
    <3>4. CASE HasPackets(fs[n + 1])
      BY <1>5, <3>2, <3>3, <3>4
    <3>5. CASE ~HasPackets(fs[n + 1])
      BY <1>6, <3>2, <3>3, <3>5
    <3>6. QED BY <3>4, <3>5
  <2>3. \A n \in Nat : n \in Good => n + 1 \in Good
    <3> HIDE DEF Good
    <3> QED BY <2>2
  <2> HIDE DEF Good
  <2>4. QED BY <1>0, <2>1, <2>3, Induction
<1>8. Right(kept[N], N)
  BY <1>0, <1>7
<1>9. Right(Occupied(fs), N)
  <2> HIDE DEF Right, N
  <2>1. QED BY <1>1, <1>8
<1>10. QED BY <1>9, Zenon

LEMMA OccupiedBound ==
  ASSUME NEW fs \in Seq(Entries), Distinct(fs), NEW n \in Nat, Counts(SlotsOf(LinesOf(fs)), n)
  PROVE  Len(Occupied(fs)) <= n
<1> DEFINE t == Occupied(fs)
           S == SlotsOf(LinesOf(fs))
           f == [i \in 1..Len(t) |-> <<t[i].key, 1>>]
<1>1. t \in Seq(Entries) /\ Distinct(t)
  BY OccupiedFacts
<1>2. \A i \in 1..Len(t) : \E j \in 1..Len(fs) : t[i] = fs[j] /\ HasPackets(fs[j])
  BY OccupiedFacts
<1>3. Len(t) \in Nat
  BY <1>1
<1> HIDE DEF t, S
<1>4. ASSUME NEW i \in 1..Len(t) PROVE <<t[i].key, 1>> \in S
  <2>1. PICK j \in 1..Len(fs) : t[i] = fs[j] /\ HasPackets(fs[j])
    BY <1>2
  <2>2. fs[j].key \in Flows /\ fs[j].packets \in Seq(Packet)
    BY EntryFacts
  <2>3. LinesOf(fs)[fs[j].key] = fs[j].packets
    BY <2>2, LineAt DEF LinesOf
  <2>4. 1 \in 1..Len(fs[j].packets)
    BY <2>1, <2>2 DEF HasPackets
  <2>5. <<fs[j].key, 1>> \in SlotsOf(LinesOf(fs))
    BY <2>2, <2>3, <2>4, SlotFacts, LinesTyped
  <2>6. QED BY <2>1, <2>5 DEF S
<1>5. f \in [1..Len(t) -> S]
  BY <1>4
<1>6. \A i, j \in 1..Len(t) : f[i] = f[j] => i = j
  BY <1>1 DEF Distinct
<1> HIDE DEF f
<1>7. f \in Injection(1..Len(t), S)
  BY <1>5, <1>6 DEF Injection, IsInjective
<1>8. IsFiniteSet(S) /\ Cardinality(S) = n
  BY DEF Counts, S
<1>9. Cardinality(1..Len(t)) <= Cardinality(S)
  BY <1>7, <1>8, FS_Injection DEF ExistsInjection
<1>10. Cardinality(1..Len(t)) = Len(t)
  <2> DEFINE m == Len(t)
  <2> HIDE DEF m
  <2>0. m \in Nat
    BY <1>3 DEF m
  <2>1. 1 \in Int /\ m \in Int /\ (1 > m => m = 0) /\ m - 1 + 1 = m
    BY <2>0
  <2>2. Cardinality(1..m) = IF 1 > m THEN 0 ELSE m - 1 + 1
    BY <2>1, FS_Interval
  <2>3. Cardinality(1..m) = m
    BY <2>1, <2>2
  <2>4. QED BY <2>3 DEF m
<1>11. QED BY <1>8, <1>9, <1>10 DEF t

LEMMA PruneSound ==
  ASSUME NEW q, Sound(q)
  PROVE  /\ Sound(PruneIfNeeded(q)) /\ Sparse(PruneIfNeeded(q))
         /\ PruneIfNeeded(q).packets = q.packets /\ PruneIfNeeded(q).bytes = q.bytes
         /\ LinesOf(PruneIfNeeded(q).flows) = LinesOf(q.flows)
<1>0. Len(q.flows) \in Nat /\ PruneSlack \in Nat /\ q.packets \in Nat
  BY FlowQueueAssumption DEF Sound
<1>1. CASE Len(q.flows) <= q.packets + PruneSlack
  BY <1>1 DEF PruneIfNeeded, Sparse
<1>2. CASE ~(Len(q.flows) <= q.packets + PruneSlack)
  <2> DEFINE t == Occupied(q.flows)
             r == PruneIfNeeded(q)
  <2>1. q.flows \in Seq(Entries) /\ Distinct(q.flows)
    BY DEF Sound
  <2>2. r = Queue(t, q.packets, q.bytes, 0, 0, 0)
    BY <1>2 DEF PruneIfNeeded
  <2>3. t \in Seq(Entries) /\ Distinct(t) /\ Len(t) <= q.packets
    <3>1. Counts(SlotsOf(LinesOf(q.flows)), q.packets)
      BY DEF Sound, Counted
    <3>2. Len(t) <= q.packets
      BY <1>0, <2>1, <3>1, OccupiedBound
    <3>3. QED BY <2>1, <3>2, OccupiedFacts
  <2>4. LinesOf(t) = LinesOf(q.flows)
    <3> DEFINE fs == q.flows
    <3>1. \A i \in 1..Len(t) : \E j \in 1..Len(fs) : t[i] = fs[j]
      BY <2>1, OccupiedFacts
    <3>2. \A j \in 1..Len(fs) : HasPackets(fs[j]) => \E i \in 1..Len(t) : t[i] = fs[j]
      BY <2>1, OccupiedFacts
    <3>3. fs \in Seq(Entries) /\ Distinct(fs) /\ t \in Seq(Entries) /\ Distinct(t)
      BY <2>1, <2>3
    <3> HIDE DEF fs, t
    <3>4. LinesOf(t) = LinesOf(fs)
      BY <3>1, <3>2, <3>3, SameLines
    <3>5. QED BY <3>4 DEF fs
  <2>5. /\ r.flows = t /\ r.packets = q.packets /\ r.bytes = q.bytes
        /\ r.icursor = 0 /\ r.bcursor = 0 /\ r.turns = 0
    BY <2>2 DEF Queue
  <2> HIDE DEF r, t
  <2>6. Len(t) \in Nat
    BY <2>3
  <2>7. Sound(r)
    BY <2>2, <2>3, <2>4, <2>5, <2>6 DEF Sound
  <2>8. Sparse(r)
    BY <1>0, <2>3, <2>5, <2>6 DEF Sparse
  <2>9. QED BY <2>4, <2>5, <2>7, <2>8 DEF r
<1>3. QED BY <1>1, <1>2

LEMMA LinesEmpty == LinesOf(<<>>) = [k \in Flows |-> <<>>] /\ <<>> \in Seq(Entries) /\ Distinct(<<>>)
<1>1. <<>> \in Seq(Entries) /\ Len(<<>>) = 0
  OBVIOUS
<1>2. \A i \in 1..Len(<<>>) : FALSE
  BY <1>1
<1>3. \A k : LineOf(<<>>, k) = <<>>
  BY <1>1, <1>2, LineNone
<1>4. QED BY <1>1, <1>2, <1>3 DEF LinesOf, Distinct

\* No packets, no bytes: clear() loses nothing.
LEMMA NothingLeft ==
  ASSUME NEW L \in Lines, NEW b, Counted(L, 0, b)
  PROVE  L = [k \in Flows |-> <<>>] /\ b = 0
<1>1. SlotsOf(L) = {}
  BY FS_EmptySet DEF Counted, Counts
<1>2. ASSUME NEW k \in Flows PROVE L[k] = <<>>
  <2>1. L[k] \in Seq(Packet) /\ Len(L[k]) \in Nat
    BY DEF Lines
  <2>2. ~(1 \in 1..Len(L[k]))
    BY <1>1, SlotFacts
  <2>3. Len(L[k]) = 0
    BY <2>1, <2>2
  <2>4. QED BY <2>1, <2>3
<1>3. OctetsOf(L, SlotsOf(L)) = {}
  BY <1>1 DEF OctetsOf
<1>4. b = 0
  BY <1>3, FS_EmptySet DEF Counted, Counts
<1>5. QED BY <1>2, <1>4 DEF Lines

LEMMA SettleSound ==
  ASSUME NEW q, Sound(q)
  PROVE  /\ Sound(Settle(q)) /\ Sparse(Settle(q))
         /\ Settle(q).packets = q.packets /\ Settle(q).bytes = q.bytes
         /\ LinesOf(Settle(q).flows) = LinesOf(q.flows)
<1>1. CASE q.packets # 0
  BY <1>1, PruneSound DEF Settle
<1>2. CASE q.packets = 0
  <2> DEFINE L == LinesOf(q.flows)
  <2>1. L \in Lines /\ Counted(L, 0, q.bytes) /\ Aged(L)
    BY <1>2, LinesTyped DEF Sound
  <2>2. L = LinesOf(<<>>) /\ q.bytes = 0
    BY <2>1, NothingLeft, LinesEmpty
  <2> HIDE DEF L
  <2>3. Settle(q) = Clear
    BY <1>2 DEF Settle
  <2>4. /\ Clear = Queue(<<>>, 0, 0, 0, 0, 0) /\ Clear.flows = <<>> /\ Clear.packets = 0 /\ Clear.bytes = 0
        /\ Clear.icursor = 0 /\ Clear.bcursor = 0 /\ Clear.turns = 0 /\ Len(<<>>) = 0
    BY DEF Clear, Queue
  <2>5. Counted(LinesOf(<<>>), 0, 0) /\ Aged(LinesOf(<<>>))
    BY <2>1, <2>2
  <2>6. Sound(Clear)
    <3> DEFINE fs == <<>>
    <3>1. fs \in Seq(Entries) /\ Distinct(fs) /\ 0 \in 0..Len(fs) /\ Clear.flows = fs
          /\ Clear = Queue(fs, 0, 0, 0, 0, 0) /\ Counted(LinesOf(fs), 0, 0) /\ Aged(LinesOf(fs))
      BY <2>4, <2>5, LinesEmpty
    <3> HIDE DEF fs
    <3>2. QED BY <2>4, <3>1 DEF Sound
  <2>7. Sparse(Clear)
    BY <2>4, FlowQueueAssumption DEF Sparse
  <2>8. QED BY <1>2, <2>2, <2>3, <2>4, <2>6, <2>7 DEF L
<1>3. QED BY <1>1, <1>2

\* Other packets in the same entries.
LEMMA Rewritten ==
  ASSUME NEW fs \in Seq(Entries), Distinct(fs), NEW gs \in Seq(Entries), Len(gs) = Len(fs),
         \A i \in 1..Len(fs) : gs[i].key = fs[i].key
  PROVE  /\ Distinct(gs) /\ LinesOf(gs) \in Lines
         /\ \A i \in 1..Len(fs) : /\ LinesOf(gs)[fs[i].key] = gs[i].packets
                                  /\ LinesOf(fs)[fs[i].key] = fs[i].packets
         /\ \A k \in Flows : (\A i \in 1..Len(fs) : fs[i].key # k) =>
              LinesOf(gs)[k] = <<>> /\ LinesOf(fs)[k] = <<>>
<1>1. Distinct(gs)
  BY DEF Distinct
<1>2. LinesOf(gs) \in Lines
  BY <1>1, LinesTyped
<1>3. ASSUME NEW i \in 1..Len(fs)
      PROVE  LinesOf(gs)[fs[i].key] = gs[i].packets /\ LinesOf(fs)[fs[i].key] = fs[i].packets
  <2>1. fs[i].key \in Flows
    BY EntryFacts
  <2>2. LineOf(gs, gs[i].key) = gs[i].packets /\ LineOf(fs, fs[i].key) = fs[i].packets
    BY <1>1, LineAt
  <2>3. QED BY <2>1, <2>2 DEF LinesOf
<1>4. ASSUME NEW k \in Flows, \A i \in 1..Len(fs) : fs[i].key # k
      PROVE  LinesOf(gs)[k] = <<>> /\ LinesOf(fs)[k] = <<>>
  <2>1. LineOf(fs, k) = <<>>
    BY <1>4, LineNone
  <2>2. LineOf(gs, k) = <<>>
    BY <1>4, LineNone
  <2>3. QED BY <2>1, <2>2 DEF LinesOf
<1>5. QED BY <1>1, <1>2, <1>3, <1>4

Changed(fs, gs, i, s) == gs = [fs EXCEPT ![i].packets = s]

LEMMA EntryChanged ==
  ASSUME NEW fs \in Seq(Entries), Distinct(fs), NEW i \in 1..Len(fs), NEW s \in Seq(Packet),
         NEW gs, Changed(fs, gs, i, s)
  PROVE  /\ gs \in Seq(Entries) /\ Len(gs) = Len(fs) /\ Distinct(gs)
         /\ LinesOf(gs) = [LinesOf(fs) EXCEPT ![fs[i].key] = s]
<1>1. Len(fs) \in Nat /\ DOMAIN fs = 1..Len(fs) /\ \A j \in 1..Len(fs) : fs[j] \in Entries
  BY EntryFacts
<1>2. [fs[i] EXCEPT !.packets = s] \in Entries /\ [fs[i] EXCEPT !.packets = s].packets = s
      /\ [fs[i] EXCEPT !.packets = s].key = fs[i].key
  BY <1>1 DEF Entries
<1>3. gs = [j \in 1..Len(fs) |-> IF j = i THEN [fs[i] EXCEPT !.packets = s] ELSE fs[j]]
  BY <1>1 DEF Changed
<1>4. gs \in Seq(Entries) /\ Len(gs) = Len(fs)
  BY <1>1, <1>2, <1>3
<1>5. /\ gs[i].packets = s /\ gs[i].key = fs[i].key
      /\ \A j \in 1..Len(fs) : j # i => gs[j] = fs[j]
  BY <1>2, <1>3
<1> DEFINE L == LinesOf(fs)
           M == LinesOf(gs)
<1>6. \A j \in 1..Len(fs) : gs[j].key = fs[j].key
  BY <1>5
<1>7. /\ Distinct(gs) /\ M \in Lines
      /\ \A j \in 1..Len(fs) : M[fs[j].key] = gs[j].packets /\ L[fs[j].key] = fs[j].packets
      /\ \A k \in Flows : (\A j \in 1..Len(fs) : fs[j].key # k) => M[k] = <<>> /\ L[k] = <<>>
  BY <1>4, <1>6, Rewritten
<1>8. L \in Lines
  BY LinesTyped
<1> HIDE DEF L, M
<1>9. ASSUME NEW k \in Flows, k # fs[i].key PROVE M[k] = L[k]
  <2>1. CASE \E j \in 1..Len(fs) : fs[j].key = k
    <3>1. PICK j \in 1..Len(fs) : fs[j].key = k
      BY <2>1
    <3>2. gs[j] = fs[j]
      BY <1>5, <1>9, <3>1
    <3>3. QED BY <1>7, <3>1, <3>2
  <2>2. CASE \A j \in 1..Len(fs) : fs[j].key # k
    BY <1>7, <2>2
  <2>3. QED BY <2>1, <2>2
<1>10. M[fs[i].key] = s /\ fs[i].key \in Flows
  BY <1>1, <1>5, <1>7 DEF Entries
<1>11. M = [L EXCEPT ![fs[i].key] = s]
  BY <1>7, <1>8, <1>9, <1>10 DEF Lines
<1>12. QED BY <1>4, <1>7, <1>11 DEF L, M

LEMMA PacketFacts ==
  ASSUME NEW p \in Packet
  PROVE  p.size \in Nat /\ p.age \in Nat /\ Ttl \in Nat
<1>1. p.size \in Sizes /\ p.age \in 0..(Ttl + 1)
  BY DEF Packet
<1>2. Sizes \subseteq Nat /\ Ttl \in Nat
  BY FlowQueueAssumption
<1> DEFINE z == p.size
           a == p.age
<1> HIDE DEF z, a
<1>3. z \in Sizes /\ a \in 0..(Ttl + 1)
  BY <1>1 DEF z, a
<1>4. z \in Nat /\ a \in Nat
  BY <1>2, <1>3
<1>5. QED BY <1>2, <1>4 DEF z, a

\* The entry of a packet is found, or made and empty.
LEMMA WithFlowFacts ==
  ASSUME NEW fs \in Seq(Entries), Distinct(fs), NEW k \in Flows, NEW p \in Packet,
         NEW gs, gs = WithFlow(fs, k, p)
  PROVE  /\ gs \in Seq(Entries) /\ Distinct(gs) /\ LinesOf(gs) = LinesOf(fs)
         /\ Len(gs) \in Len(fs)..(Len(fs) + 1)
         /\ \E i \in 1..Len(gs) : gs[i].key = k
<1>0. Len(fs) \in Nat /\ DOMAIN fs = 1..Len(fs) /\ \A i \in 1..Len(fs) : fs[i] \in Entries
  BY EntryFacts
<1>1. CASE \E i \in 1..Len(fs) : fs[i].key = k
  <2>1. gs = fs
    BY <1>0, <1>1 DEF WithFlow
  <2>2. QED BY <1>0, <1>1, <2>1
<1>2. CASE \A i \in 1..Len(fs) : fs[i].key # k
  <2> DEFINE f == [key |-> k, packets |-> <<>>, interactive |-> p.size <= InteractiveMax]
             n == Len(fs)
  <2>0. n \in Nat
    BY <1>0
  <2>1. gs = Append(fs, f)
    BY <1>0, <1>2 DEF WithFlow
  <2>2. f \in Entries /\ f.key = k /\ f.packets = <<>>
    <3>1. (p.size <= InteractiveMax) \in BOOLEAN
      OBVIOUS
    <3>2. QED BY <3>1 DEF Entries
  <2> HIDE DEF f
  <2>3. gs \in Seq(Entries) /\ Len(gs) = n + 1 /\ gs[n + 1] = f /\ \A i \in 1..n : gs[i] = fs[i]
    BY <1>0, <2>1, <2>2
  <2> HIDE DEF n
  <2>4. \A i \in 1..(n + 1) : i \in 1..n \/ i = n + 1
    BY <2>0
  <2>5. \A i \in 1..n : i \in 1..(n + 1)
    BY <2>0
  <2>6. Distinct(gs)
    <3>1. \A i, j \in 1..n : gs[i].key = gs[j].key => i = j
      BY <2>3 DEF Distinct, n
    <3>2. \A i \in 1..n : gs[i].key # gs[n + 1].key
      BY <1>2, <2>2, <2>3 DEF n
    <3>3. QED BY <2>3, <2>4, <3>1, <3>2 DEF Distinct
  <2>7. LinesOf(gs) = LinesOf(fs)
    <3>1. \A i \in 1..Len(gs) : HasPackets(gs[i]) =>
            \E j \in 1..Len(fs) : fs[j].key = gs[i].key /\ fs[j].packets = gs[i].packets
      <4>1. ~HasPackets(gs[n + 1])
        BY <2>2, <2>3 DEF HasPackets
      <4>2. QED BY <2>3, <2>4, <4>1 DEF n
    <3>2. \A j \in 1..Len(fs) : HasPackets(fs[j]) =>
            \E i \in 1..Len(gs) : fs[j].key = gs[i].key /\ fs[j].packets = gs[i].packets
      BY <2>3, <2>5 DEF n
    <3>3. QED BY <2>3, <2>6, <3>1, <3>2, SameLines
  <2>8. n + 1 \in 1..(n + 1) /\ n + 1 \in n..(n + 1)
    BY <2>0
  <2>9. QED BY <2>2, <2>3, <2>6, <2>7, <2>8 DEF n
<1>3. QED BY <1>1, <1>2

LEMMA PushedSound ==
  ASSUME NEW q, Sound(q), NEW k \in Flows, NEW p \in Packet, p.age = 0,
         NEW r, r = Pushed(q, k, p)
  PROVE  /\ Sound(r) /\ r.packets = q.packets + 1 /\ r.bytes = q.bytes + p.size
         /\ Len(r.flows) <= Len(q.flows) + 1
         /\ Grown(LinesOf(q.flows), LinesOf(r.flows), k, p)
<1> DEFINE fs == WithFlow(q.flows, k, p)
           i == CHOOSE j \in DOMAIN fs : fs[j].key = k
           s == Append(fs[i].packets, p)
           gs == [fs EXCEPT ![i].packets = Append(@, p)]
           L == LinesOf(q.flows)
           M == LinesOf(gs)
<1>1. q.flows \in Seq(Entries) /\ Distinct(q.flows) /\ Len(q.flows) \in Nat
  BY EntryFacts DEF Sound
<1>2. /\ fs \in Seq(Entries) /\ Distinct(fs) /\ LinesOf(fs) = L
      /\ Len(fs) \in Len(q.flows)..(Len(q.flows) + 1)
      /\ \E j \in 1..Len(fs) : fs[j].key = k
  BY <1>1, WithFlowFacts
<1>3. r = Queue(gs, q.packets + 1, q.bytes + p.size, q.icursor, q.bcursor, q.turns)
  BY DEF Pushed
<1>4. /\ r.flows = gs /\ r.packets = q.packets + 1 /\ r.bytes = q.bytes + p.size
      /\ r.icursor = q.icursor /\ r.bcursor = q.bcursor /\ r.turns = q.turns
  BY <1>3 DEF Queue
<1> HIDE DEF fs
<1>5. DOMAIN fs = 1..Len(fs)
  BY <1>2
<1>6. i \in 1..Len(fs) /\ fs[i].key = k
  BY <1>2, <1>5
<1> HIDE DEF i
<1>7. fs[i].packets \in Seq(Packet) /\ s \in Seq(Packet)
  <2>1. fs[i].packets \in Seq(Packet)
    BY <1>2, <1>6, EntryFacts
  <2>2. QED BY <2>1
<1>8. Changed(fs, gs, i, s)
  BY Zenon DEF Changed
<1>9. LinesOf(fs)[k] = fs[i].packets
  BY <1>2, <1>6, LineAt DEF LinesOf
<1> HIDE DEF s, gs
<1>10. gs \in Seq(Entries) /\ Len(gs) = Len(fs) /\ Distinct(gs) /\ M = [L EXCEPT ![k] = s]
  <2>1. gs \in Seq(Entries) /\ Len(gs) = Len(fs) /\ Distinct(gs) /\ M = [LinesOf(fs) EXCEPT ![fs[i].key] = s]
    BY <1>2, <1>6, <1>7, <1>8, EntryChanged
  <2>2. QED BY <1>2, <1>6, <2>1
<1>11. Grown(L, M, k, p)
  BY <1>2, <1>9, <1>10 DEF Grown, s
<1>12. L \in Lines /\ Counted(L, q.packets, q.bytes) /\ Aged(L) /\ q.packets \in Nat /\ q.bytes \in Nat
  BY LinesTyped DEF Sound
<1> HIDE DEF L, M
<1>13. p.size \in Nat
  BY PacketFacts
<1>14. M \in Lines /\ Counted(M, q.packets + 1, q.bytes + p.size)
  <2> DEFINE n == q.packets
             b == q.bytes
  <2>1. n \in Nat /\ b \in Nat /\ Counted(L, n, b)
    BY <1>12
  <2> HIDE DEF n, b
  <2>2. M \in Lines /\ Counted(M, n + 1, b + p.size)
    BY <1>11, <1>12, <1>13, <2>1, CountAppend
  <2>3. QED BY <2>2 DEF n, b
<1>15. Aged(M)
  <2>1. L[k] \in Seq(Packet) /\ Len(L[k]) \in Nat
    BY <1>12 DEF Lines
  <2>2. M = [L EXCEPT ![k] = Append(@, p)]
    BY <1>11 DEF Grown
  <2>3. /\ \A j \in Flows : j # k => M[j] = L[j]
        /\ Len(M[k]) = Len(L[k]) + 1 /\ M[k][Len(L[k]) + 1] = p
        /\ \A c \in 1..Len(L[k]) : M[k][c] = L[k][c]
    BY <1>12, <2>1, <2>2 DEF Lines
  <2>4. \A c \in 1..Len(L[k]) : L[k][c].age \in Nat
    <3>1. \A c \in 1..Len(L[k]) : L[k][c] \in Packet
      BY <2>1
    <3>2. QED BY <3>1, PacketFacts
  <2>5. ASSUME NEW a \in 1..Len(M[k]), NEW c \in 1..Len(M[k]), a <= c
        PROVE  M[k][c].age <= M[k][a].age
    <3>1. CASE c \in 1..Len(L[k])
      <4>1. a \in 1..Len(L[k])
        BY <2>1, <2>5, <3>1
      <4>2. QED BY <1>12, <2>3, <2>5, <3>1, <4>1 DEF Aged
    <3>2. CASE c = Len(L[k]) + 1
      <4>1. M[k][c].age = 0
        BY <2>3, <3>2
      <4>2. CASE a = c
        BY <4>1, <4>2
      <4>3. CASE a # c
        <5>1. a \in 1..Len(L[k])
          BY <2>1, <2>3, <3>2, <4>3
        <5>2. M[k][a].age \in Nat
          BY <2>3, <2>4, <5>1
        <5>3. QED BY <4>1, <5>2
      <4>4. QED BY <4>2, <4>3
    <3>3. QED BY <2>1, <2>3, <3>1, <3>2
  <2>6. ASSUME NEW j \in Flows, NEW a \in 1..Len(M[j]), NEW c \in 1..Len(M[j]), a <= c
        PROVE  M[j][c].age <= M[j][a].age
    <3>1. CASE j = k
      BY <2>5, <2>6, <3>1
    <3>2. CASE j # k
      <4>1. M[j] = L[j]
        BY <2>3, <3>2
      <4>2. QED BY <1>12, <2>6, <4>1 DEF Aged
    <3>3. QED BY <3>1, <3>2
  <2>7. QED BY <2>6 DEF Aged
<1>16. Sound(r)
  <2>1. q.icursor \in 0..Len(gs) /\ q.bcursor \in 0..Len(gs) /\ q.turns \in Nat
    BY <1>1, <1>2, <1>10 DEF Sound
  <2>2. q.packets + 1 \in Nat /\ q.bytes + p.size \in Nat
    BY <1>12, <1>13
  <2>3. Counted(LinesOf(gs), q.packets + 1, q.bytes + p.size) /\ Aged(LinesOf(gs))
    BY <1>14, <1>15 DEF M
  <2>4. QED BY <1>3, <1>4, <1>10, <2>1, <2>2, <2>3 DEF Sound
<1>17. Len(r.flows) <= Len(q.flows) + 1
  BY <1>1, <1>2, <1>4, <1>10
<1>18. QED BY <1>4, <1>11, <1>16, <1>17 DEF L, M

LEMMA Remainder ==
  ASSUME NEW a \in Nat, NEW n \in Nat, n # 0
  PROVE  a % n \in 0..(n - 1)
OBVIOUS

LEMMA ShrunkAged ==
  ASSUME NEW L \in Lines, NEW g, NEW M, Shrunk(L, M, g), Aged(L)
  PROVE  Aged(M)
<1>1. /\ \A k \in Flows : Len(L[k]) \in Nat /\ g[k] \in Nat /\ g[k] <= Len(L[k])
      /\ \A k \in Flows : Len(M[k]) = Len(L[k]) - g[k]
      /\ \A k \in Flows : \A i \in 1..Len(M[k]) : M[k][i] = L[k][i + g[k]]
  BY ShrunkFacts
<1>2. ASSUME NEW k \in Flows, NEW i \in 1..Len(M[k]), NEW j \in 1..Len(M[k]), i <= j
      PROVE  M[k][j].age <= M[k][i].age
  <2>1. i + g[k] \in 1..Len(L[k]) /\ j + g[k] \in 1..Len(L[k]) /\ i + g[k] <= j + g[k]
    BY <1>1, <1>2
  <2>2. L[k][j + g[k]].age <= L[k][i + g[k]].age
    BY <2>1 DEF Aged
  <2>3. QED BY <1>1, <2>2
<1>3. QED BY <1>2 DEF Aged

LEMMA CountUnique ==
  ASSUME NEW S, NEW a, NEW b, Counts(S, a), Counts(S, b)
  PROVE  a = b
BY DEF Counts

\* The head of one line leaves.
LEMMA CountTail ==
  ASSUME NEW L \in Lines, NEW n \in Nat, NEW b \in Nat, Counted(L, n, b), Aged(L),
         NEW k \in Flows, L[k] # <<>>, NEW M, M = [L EXCEPT ![k] = Tail(@)]
  PROVE  /\ M \in Lines /\ Aged(M) /\ n >= 1 /\ b >= L[k][1].size
         /\ Counted(M, n - 1, b - L[k][1].size)
<1> DEFINE g == [j \in Flows |-> IF j = k THEN 1 ELSE 0]
           z == L[k][1].size
<1>1. \A j \in Flows : L[j] \in Seq(Packet) /\ Len(L[j]) \in Nat /\ L[j] = SubSeq(L[j], 1, Len(L[j]))
  BY DEF Lines
<1>2. Len(L[k]) >= 1 /\ Tail(L[k]) = SubSeq(L[k], 2, Len(L[k]))
  BY <1>1
<1>3. g \in [Flows -> Nat] /\ \A j \in Flows : g[j] = IF j = k THEN 1 ELSE 0
  OBVIOUS
<1> HIDE DEF g
<1>4. Shrunk(L, M, g)
  <2>1. \A j \in Flows : g[j] <= Len(L[j])
    BY <1>1, <1>2, <1>3
  <2>2. \A j \in Flows : M[j] = SubSeq(L[j], g[j] + 1, Len(L[j]))
    <3>1. M[k] = SubSeq(L[k], g[k] + 1, Len(L[k]))
      BY <1>2, <1>3 DEF Lines
    <3>2. \A j \in Flows : j # k => M[j] = L[j] /\ g[j] + 1 = 1
      BY <1>3 DEF Lines
    <3>3. QED BY <1>1, <3>1, <3>2
  <2>3. M = [j \in Flows |-> M[j]]
    BY DEF Lines
  <2>4. QED BY <1>3, <2>1, <2>2, <2>3 DEF Shrunk
<1>5. M \in Lines /\ Aged(M)
  BY <1>4, ShrunkFacts, ShrunkAged
<1>6. z \in Nat
  <2>1. L[k][1] \in Packet
    BY <1>1, <1>2
  <2>2. QED BY <2>1, PacketFacts
<1>7. Gone(g) = {<<k, 1>>}
  <2>1. \A x : x \in Gone(g) <=> \E j \in Flows : \E i \in 1..g[j] : x = <<j, i>>
    BY GoneFacts
  <2>2. 1 \in 1..g[k] /\ \A i \in 1..g[k] : i = 1
    BY <1>3
  <2>3. \A j \in Flows : j # k => \A i \in 1..g[j] : FALSE
    BY <1>3
  <2>4. QED BY <2>1, <2>2, <2>3
<1>8. OctetsOf(L, Gone(g)) = {<<k, 1>>} \X (1..z)
  <2>1. OctetsOf(L, {<<k, 1>>}) = {<<k, 1>>} \X (1..z)
    BY DEF OctetsOf
  <2>2. QED BY <1>7, <2>1
<1>9. Counts(Gone(g), 1)
  BY <1>7, FS_Singleton DEF Counts
<1>10. Counts(OctetsOf(L, Gone(g)), z)
  <2> HIDE DEF z
  <2>1. Counts({<<k, 1>>} \X (1..z), z)
    BY <1>6, CountColumn
  <2>2. QED BY <1>8, <2>1
<1>11. PICK d, o \in Nat : /\ d <= n /\ o <= b /\ Counts(Gone(g), d)
                           /\ Counts(OctetsOf(L, Gone(g)), o) /\ Counted(M, n - d, b - o)
  BY <1>4, CountShrunk
<1>12. d = 1 /\ o = z
  BY <1>9, <1>10, <1>11, CountUnique
<1>13. QED BY <1>5, <1>11, <1>12

LEMMA ServedSound ==
  ASSUME NEW q, Sound(q), NEW i \in 1..Len(q.flows), HasPackets(q.flows[i]),
         NEW c, c.index = i - 1, c.turns \in Nat, c.interactive \in BOOLEAN,
         NEW r, r = Served(q, c, q.bytes - Head(q.flows[i].packets).size)
  PROVE  /\ Sound(r) /\ r.packets = q.packets - 1 /\ r.packets <= q.packets /\ r.bytes <= q.bytes
         /\ q.flows[i].key \in Flows /\ LinesOf(q.flows)[q.flows[i].key] # <<>>
         /\ LinesOf(r.flows) = [LinesOf(q.flows) EXCEPT ![q.flows[i].key] = Tail(@)]
<1> DEFINE fs == q.flows
           k == fs[i].key
           s == Tail(fs[i].packets)
           gs == [fs EXCEPT ![i].packets = Tail(@)]
           z == Head(fs[i].packets).size
           next == i % Len(fs)
           L == LinesOf(fs)
           M == LinesOf(gs)
<1>1. fs \in Seq(Entries) /\ Distinct(fs) /\ Len(fs) \in Nat
  BY EntryFacts DEF Sound
<1>2. c.index + 1 = i /\ i \in Nat
  BY <1>1
<1>3. next \in 0..Len(fs)
  <2>1. Len(fs) # 0
    BY <1>1
  <2>2. next \in 0..(Len(fs) - 1)
    BY <1>1, <1>2, <2>1, Remainder
  <2> HIDE DEF next, fs
  <2>3. QED BY <1>1, <2>2
<1> HIDE DEF next
<1> DEFINE ic == IF c.interactive THEN next ELSE q.icursor
           bc == IF c.interactive THEN q.bcursor ELSE next
<1>4. r = Queue(gs, q.packets - 1, q.bytes - z, ic, bc, c.turns)
  BY <1>2 DEF Served, next
<1>5. ic \in 0..Len(fs) /\ bc \in 0..Len(fs)
  BY <1>3 DEF Sound
<1> HIDE DEF ic, bc
<1>6. /\ r.flows = gs /\ r.packets = q.packets - 1 /\ r.bytes = q.bytes - z
      /\ r.icursor = ic /\ r.bcursor = bc /\ r.turns = c.turns
  <2> HIDE DEF gs, z
  <2>1. QED BY <1>4 DEF Queue
<1>7. L \in Lines /\ Counted(L, q.packets, q.bytes) /\ Aged(L) /\ q.packets \in Nat /\ q.bytes \in Nat
  BY LinesTyped DEF Sound
<1> HIDE DEF fs
<1>8. k \in Flows /\ fs[i].packets \in Seq(Packet) /\ fs[i].packets # <<>>
  <2>1. fs[i].packets # <<>>
    BY DEF HasPackets, fs
  <2>2. i \in 1..Len(fs)
    BY DEF fs
  <2>3. QED BY <1>1, <2>1, <2>2, EntryFacts
<1>9. s \in Seq(Packet)
  BY <1>8
<1>10. Changed(fs, gs, i, s)
  BY Zenon DEF Changed
<1>11. L[k] = fs[i].packets
  BY <1>1, <1>8, LineAt DEF LinesOf, fs
<1> HIDE DEF gs, s
<1>12. gs \in Seq(Entries) /\ Len(gs) = Len(fs) /\ Distinct(gs) /\ M = [L EXCEPT ![k] = s]
  <2>1. i \in 1..Len(fs)
    BY DEF fs
  <2>2. QED BY <1>1, <1>9, <1>10, <2>1, EntryChanged
<1> HIDE DEF L, M, k
<1>13. M = [L EXCEPT ![k] = Tail(@)] /\ L[k] # <<>> /\ L[k][1].size = z
  BY <1>8, <1>11, <1>12 DEF s
<1> HIDE DEF z
<1>14. /\ M \in Lines /\ Aged(M) /\ q.packets >= 1 /\ q.bytes >= z
       /\ Counted(M, q.packets - 1, q.bytes - z)
  <2> DEFINE n == q.packets
             b == q.bytes
  <2>1. n \in Nat /\ b \in Nat /\ Counted(L, n, b)
    BY <1>7
  <2> HIDE DEF n, b
  <2>2. /\ M \in Lines /\ Aged(M) /\ n >= 1 /\ b >= L[k][1].size
        /\ Counted(M, n - 1, b - L[k][1].size)
    BY <1>7, <1>8, <1>13, <2>1, CountTail
  <2>3. QED BY <1>13, <2>2 DEF n, b
<1>15. z \in Nat
  <2>1. L[k][1] \in Packet
    BY <1>7, <1>8, <1>13 DEF Lines
  <2>2. QED BY <1>13, <2>1, PacketFacts
<1>16. q.packets - 1 \in Nat /\ q.bytes - z \in Nat /\ q.packets - 1 <= q.packets /\ q.bytes - z <= q.bytes
  BY <1>7, <1>14, <1>15
<1>17. Sound(r)
  <2>1. Counted(LinesOf(gs), q.packets - 1, q.bytes - z) /\ Aged(LinesOf(gs))
    BY <1>14 DEF M
  <2>2. QED BY <1>4, <1>5, <1>6, <1>12, <1>16, <2>1 DEF Sound
<1>18. QED BY <1>6, <1>8, <1>13, <1>16, <1>17 DEF L, M, k, fs

\* A flow that take() finds has a packet.
LEMMA TakeFacts ==
  ASSUME flows \in Seq(Entries), NEW b, NEW cursor \in Nat, Take(b, cursor) # Len(flows)
  PROVE  Take(b, cursor) + 1 \in 1..Len(flows) /\ HasPackets(flows[Take(b, cursor) + 1])
         /\ Take(b, cursor) \in Nat
<1> DEFINE n == Len(flows)
           at(v) == (cursor + v) % n
           hits == {v \in 0..(n - 1) : flows[at(v) + 1].interactive = b /\ HasPackets(flows[at(v) + 1])}
<1>1. n \in Nat
  BY EntryFacts
<1>2. Take(b, cursor) = IF hits = {} THEN n ELSE at(Min(hits))
  BY DEF Take
<1>3. hits # {} /\ hits \subseteq Nat
  BY <1>1, <1>2
<1>4. Min(hits) \in hits
  <2> HIDE DEF hits
  <2>1. \E x \in hits : \A y \in hits : x <= y
    BY <1>3, LeastNat
  <2>2. QED BY <2>1 DEF Min
<1> DEFINE v == Min(hits)
<1>5. v \in 0..(n - 1) /\ HasPackets(flows[at(v) + 1]) /\ Take(b, cursor) = at(v)
  <2>1. v \in 0..(n - 1) /\ HasPackets(flows[at(v) + 1])
    BY <1>4
  <2>2. Take(b, cursor) = at(v)
    BY <1>2, <1>3
  <2>3. QED BY <2>1, <2>2
<1> HIDE DEF v
<1>6. n # 0 /\ cursor + v \in Nat
  BY <1>1, <1>5
<1>7. at(v) \in 0..(n - 1)
  BY <1>1, <1>6, Remainder
<1> HIDE DEF n, at
<1>8. at(v) + 1 \in 1..n /\ at(v) \in Nat
  BY <1>1, <1>7
<1>9. QED BY <1>5, <1>8 DEF n

LEMMA ChoiceFacts ==
  ASSUME flows \in Seq(Entries), icursor \in Nat, bcursor \in Nat, turns \in Nat,
         Choice.index # Len(flows)
  PROVE  /\ Choice.index + 1 \in 1..Len(flows) /\ HasPackets(flows[Choice.index + 1])
         /\ Choice.index \in Nat /\ Choice.turns \in Nat /\ Choice.interactive \in BOOLEAN
<1> DEFINE n == Len(flows)
           i == Take(TRUE, icursor)
           b == Take(FALSE, bcursor)
<1>1. Choice = IF turns < 2 /\ i # n THEN [index |-> i, interactive |-> TRUE, turns |-> turns + 1]
               ELSE IF b # n THEN [index |-> b, interactive |-> FALSE, turns |-> 0]
               ELSE [index |-> i, interactive |-> TRUE, turns |-> 1]
  BY DEF Choice
<1>2. i # n => i + 1 \in 1..n /\ HasPackets(flows[i + 1]) /\ i \in Nat
  BY TakeFacts
<1>3. b # n => b + 1 \in 1..n /\ HasPackets(flows[b + 1]) /\ b \in Nat
  BY TakeFacts
<1> HIDE DEF n, i, b
<1>4. Choice.index # n
  BY DEF n
<1>5. /\ (Choice.index = i \/ Choice.index = b)
      /\ Choice.turns \in Nat /\ Choice.interactive \in BOOLEAN
  BY <1>1
<1>6. QED BY <1>2, <1>3, <1>4, <1>5 DEF n

\* Expired packets are the first of an aged line, all of them.
LEMMA ExpiredFacts ==
  ASSUME NEW s \in Seq(Packet), \A i, j \in 1..Len(s) : i <= j => s[j].age <= s[i].age
  PROVE  /\ ExpiredPrefix(s) \in 0..Len(s)
         /\ \A i \in 1..Len(s) : s[i].age > Ttl <=> i <= ExpiredPrefix(s)
<1> DEFINE N == Len(s)
           P == {n \in 0..N : \A i \in 1..n : s[i].age > Ttl}
           T == {N - n : n \in P}
           m == Max(P)
<1>1. N \in Nat /\ Ttl \in Nat /\ \A i \in 1..N : s[i].age \in Nat
  <2>1. \A i \in 1..N : s[i] \in Packet
    OBVIOUS
  <2>2. Ttl \in Nat
    BY FlowQueueAssumption
  <2>3. QED BY <2>1, <2>2, PacketFacts
<1>2. 0 \in P /\ P \subseteq 0..N
  BY <1>1
<1>3. m \in P /\ \A y \in P : m >= y
  <2>1. T \subseteq Nat /\ T # {}
    <3> HIDE DEF P, N
    <3>1. \A n \in P : N - n \in Nat
      BY <1>1, <1>2
    <3>2. N - 0 \in T
      BY <1>2
    <3>3. QED BY <3>1, <3>2
  <2>2. PICK x \in T : \A y \in T : x <= y
    <3> HIDE DEF T
    <3>1. QED BY <2>1, LeastNat
  <2> HIDE DEF P, N, m
  <2>3. PICK n \in P : x = N - n
    OBVIOUS
  <2>4. \A y \in P : N - n <= N - y
    BY <2>2, <2>3
  <2>5. \A y \in P : n >= y
    BY <1>1, <1>2, <2>4
  <2>6. QED BY <2>5 DEF m, Max
<1>4. ExpiredPrefix(s) = m
  BY DEF ExpiredPrefix
<1> HIDE DEF m
<1>5. m \in 0..N /\ \A i \in 1..m : s[i].age > Ttl
  BY <1>3
<1>6. ASSUME NEW i \in 1..N, s[i].age > Ttl PROVE i <= m
  <2>1. \A j \in 1..i : j \in 1..N /\ j <= i
    BY <1>1
  <2>2. \A j \in 1..i : s[i].age <= s[j].age
    BY <2>1
  <2>3. \A j \in 1..i : s[j].age > Ttl
    BY <1>1, <1>6, <2>1, <2>2
  <2>4. i \in P
    BY <1>1, <2>3
  <2>5. QED BY <1>1, <1>3, <1>5, <2>4
<1>7. ASSUME NEW i \in 1..N, i <= m PROVE s[i].age > Ttl
  BY <1>1, <1>5, <1>7
<1>8. QED BY <1>4, <1>5, <1>6, <1>7

LEMMA CountMovedBack ==
  ASSUME NEW S, NEW T, NEW n, Counts(T, n), NEW f \in [S -> T],
         \A x, y \in S : f[x] = f[y] => x = y, \A z \in T : \E x \in S : f[x] = z
  PROVE  Counts(S, n)
<1>1. f \in Bijection(S, T)
  BY DEF Bijection, Injection, Surjection, IsInjective
<1>2. ExistsBijection(S, T)
  BY <1>1 DEF ExistsBijection
<1>3. ExistsBijection(T, S)
  BY <1>2, Fun_ExistsBijSymmetric
<1>4. QED BY <1>3, FS_Bijection DEF Counts

EntryGone(fs, g) == UNION {{i} \X (1..g[fs[i].key]) : i \in 1..Len(fs)}
EntryOctets(fs, D) == UNION {{x} \X (1..fs[x[1]].packets[x[2]].size) : x \in D}

\* Counted along the entries or along the lines, the same packets leave.
LEMMA CountByEntry ==
  ASSUME NEW fs \in Seq(Entries), Distinct(fs), NEW g \in [Flows -> Nat],
         \A k \in Flows : (\A i \in 1..Len(fs) : fs[i].key # k) => g[k] = 0,
         NEW d, Counts(Gone(g), d), NEW o, Counts(OctetsOf(LinesOf(fs), Gone(g)), o),
         NEW D, D = EntryGone(fs, g), NEW O, O = EntryOctets(fs, D)
  PROVE  Counts(D, d) /\ Counts(O, o)
<1> DEFINE L == LinesOf(fs)
           G == Gone(g)
           E == OctetsOf(L, G)
           f == [x \in D |-> <<fs[x[1]].key, x[2]>>]
           h == [y \in O |-> <<f[y[1]], y[2]>>]
<1>1. \A x : x \in D <=> \E i \in 1..Len(fs) : \E c \in 1..g[fs[i].key] : x = <<i, c>>
  BY DEF EntryGone
<1>2. \A y : y \in O <=> \E x \in D : \E c \in 1..fs[x[1]].packets[x[2]].size : y = <<x, c>>
  BY DEF EntryOctets
<1>3. \A x : x \in G <=> \E k \in Flows : \E c \in 1..g[k] : x = <<k, c>>
  BY GoneFacts
<1>4. \A y : y \in E <=> \E x \in G : \E c \in 1..L[x[1]][x[2]].size : y = <<x, c>>
  BY OctetFacts
<1>5. \A i \in 1..Len(fs) : fs[i].key \in Flows /\ L[fs[i].key] = fs[i].packets
  BY EntryFacts, LineAt DEF LinesOf
<1>6. Counts(G, d) /\ Counts(E, o)
  OBVIOUS
<1>7. \A i, j \in 1..Len(fs) : fs[i].key = fs[j].key => i = j
  BY DEF Distinct
<1> HIDE DEF G, E, L
<1>9. \A i \in 1..Len(fs) : \A c \in 1..g[fs[i].key] :
        <<i, c>> \in D /\ f[<<i, c>>] = <<fs[i].key, c>> /\ <<fs[i].key, c>> \in G
  BY <1>1, <1>3, <1>5
<1>10. ASSUME NEW x \in D PROVE f[x] \in G
  <2>1. PICK i \in 1..Len(fs) : \E c \in 1..g[fs[i].key] : x = <<i, c>>
    BY <1>1
  <2> HIDE DEF f
  <2>2. QED BY <1>9, <2>1
<1>11. f \in [D -> G]
  BY <1>10
<1> HIDE DEF f
<1>12. ASSUME NEW x \in D, NEW y \in D, f[x] = f[y] PROVE x = y
  <2>1. PICK i \in 1..Len(fs) : \E c \in 1..g[fs[i].key] : x = <<i, c>>
    BY <1>1
  <2>2. PICK c \in 1..g[fs[i].key] : x = <<i, c>>
    BY <2>1
  <2>3. PICK j \in 1..Len(fs) : \E b \in 1..g[fs[j].key] : y = <<j, b>>
    BY <1>1
  <2>4. PICK b \in 1..g[fs[j].key] : y = <<j, b>>
    BY <2>3
  <2>5. <<fs[i].key, c>> = <<fs[j].key, b>>
    BY <1>9, <1>12, <2>2, <2>4
  <2>6. fs[i].key = fs[j].key /\ c = b
    BY <2>5
  <2>7. i = j
    BY <1>7, <2>6
  <2>8. QED BY <2>2, <2>4, <2>6, <2>7
<1>13. ASSUME NEW z \in G PROVE \E x \in D : f[x] = z
  <2>1. PICK k \in Flows : \E c \in 1..g[k] : z = <<k, c>>
    BY <1>3
  <2>2. PICK c \in 1..g[k] : z = <<k, c>>
    BY <2>1
  <2>3. g[k] # 0
    BY <2>2
  <2>4. PICK i \in 1..Len(fs) : fs[i].key = k
    BY <2>3
  <2>5. <<i, c>> \in D /\ f[<<i, c>>] = z
    BY <1>9, <2>2, <2>4
  <2>6. QED BY <2>5
<1>14. \A x \in D : L[f[x][1]][f[x][2]] = fs[x[1]].packets[x[2]]
  <2> SUFFICES ASSUME NEW x \in D PROVE L[f[x][1]][f[x][2]] = fs[x[1]].packets[x[2]]
    OBVIOUS
  <2>1. PICK i \in 1..Len(fs) : \E c \in 1..g[fs[i].key] : x = <<i, c>>
    BY <1>1
  <2>2. PICK c \in 1..g[fs[i].key] : x = <<i, c>>
    BY <2>1
  <2>3. f[x] = <<fs[i].key, c>>
    BY <1>9, <2>2
  <2>4. f[x][1] = fs[i].key /\ f[x][2] = c /\ x[1] = i /\ x[2] = c
    BY <2>2, <2>3
  <2>5. QED BY <1>5, <2>4
<1>15. \A x \in D : \A c \in 1..fs[x[1]].packets[x[2]].size :
         <<x, c>> \in O /\ h[<<x, c>>] = <<f[x], c>> /\ <<f[x], c>> \in E
  <2> SUFFICES ASSUME NEW x \in D, NEW c \in 1..fs[x[1]].packets[x[2]].size
               PROVE  <<x, c>> \in O /\ h[<<x, c>>] = <<f[x], c>> /\ <<f[x], c>> \in E
    OBVIOUS
  <2>1. <<x, c>> \in O
    BY <1>2
  <2>2. h[<<x, c>>] = <<f[x], c>>
    BY <2>1
  <2>3. f[x] \in G /\ c \in 1..L[f[x][1]][f[x][2]].size
    BY <1>10, <1>14
  <2>4. <<f[x], c>> \in E
    BY <1>4, <2>3
  <2>5. QED BY <2>1, <2>2, <2>4
<1>16. h \in [O -> E]
  <2>1. ASSUME NEW y \in O PROVE h[y] \in E
    <3>1. PICK x \in D : \E c \in 1..fs[x[1]].packets[x[2]].size : y = <<x, c>>
      BY <1>2
    <3> HIDE DEF h
    <3>2. QED BY <1>15, <3>1
  <2>2. QED BY <2>1
<1> HIDE DEF h
<1>17. ASSUME NEW x \in O, NEW y \in O, h[x] = h[y] PROVE x = y
  <2>1. PICK u \in D : \E c \in 1..fs[u[1]].packets[u[2]].size : x = <<u, c>>
    BY <1>2
  <2>2. PICK c \in 1..fs[u[1]].packets[u[2]].size : x = <<u, c>>
    BY <2>1
  <2>3. PICK v \in D : \E b \in 1..fs[v[1]].packets[v[2]].size : y = <<v, b>>
    BY <1>2
  <2>4. PICK b \in 1..fs[v[1]].packets[v[2]].size : y = <<v, b>>
    BY <2>3
  <2>5. <<f[u], c>> = <<f[v], b>>
    <3>1. h[x] = <<f[u], c>>
      BY <1>15, <2>2
    <3>2. h[y] = <<f[v], b>>
      BY <1>15, <2>4
    <3>3. QED BY <1>17, <3>1, <3>2
  <2>6. f[u] = f[v] /\ c = b
    BY <2>5
  <2>7. u = v
    BY <1>12, <2>6
  <2>8. QED BY <2>2, <2>4, <2>6, <2>7
<1>18. ASSUME NEW z \in E PROVE \E y \in O : h[y] = z
  <2>1. PICK t \in G : \E c \in 1..L[t[1]][t[2]].size : z = <<t, c>>
    BY <1>4
  <2>2. PICK c \in 1..L[t[1]][t[2]].size : z = <<t, c>>
    BY <2>1
  <2>3. PICK x \in D : f[x] = t
    BY <1>13
  <2>4. c \in 1..fs[x[1]].packets[x[2]].size
    BY <1>14, <2>3
  <2>5. <<x, c>> \in O /\ h[<<x, c>>] = z
    <3>1. <<x, c>> \in O /\ h[<<x, c>>] = <<f[x], c>>
      BY <1>15, <2>4
    <3>2. QED BY <2>2, <2>3, <3>1
  <2>6. QED BY <2>5
<1>19. Counts(D, d)
  BY <1>6, <1>11, <1>12, <1>13, CountMovedBack
<1>20. Counts(O, o)
  BY <1>6, <1>16, <1>17, <1>18, CountMovedBack
<1>21. QED BY <1>19, <1>20

\* How many packets of each line are past their time.
Overdue(L) == [k \in Flows |-> ExpiredPrefix(L[k])]

LEMMA DroppedSound ==
  ASSUME Sound(This)
  PROVE  /\ Sound(Dropped) /\ Dropped.packets <= packets /\ Dropped.bytes <= bytes
         /\ Shrunk(LinesOf(flows), LinesOf(Dropped.flows), Overdue(LinesOf(flows)))
<1> DEFINE fs == flows
           L == LinesOf(fs)
           g == Overdue(L)
           gone == [i \in 1..Len(fs) |-> ExpiredPrefix(fs[i].packets)]
           kept == [i \in 1..Len(fs) |->
                     [fs[i] EXCEPT !.packets = SubSeq(@, gone[i] + 1, Len(@))]]
           D == EntryGone(fs, g)
           O == EntryOctets(fs, D)
           M == LinesOf(kept)
<1>1. /\ fs \in Seq(Entries) /\ Distinct(fs) /\ packets \in Nat /\ bytes \in Nat /\ turns \in Nat
      /\ icursor \in 0..Len(fs) /\ bcursor \in 0..Len(fs)
      /\ Counted(L, packets, bytes) /\ Aged(L)
  BY DEF Sound, This, Queue
<1>2. /\ Len(fs) \in Nat /\ DOMAIN fs = 1..Len(fs)
      /\ \A i \in 1..Len(fs) : fs[i] \in Entries /\ fs[i].key \in Flows /\ fs[i].packets \in Seq(Packet)
  BY <1>1, EntryFacts
<1>3. L \in Lines
  BY <1>1, LinesTyped
<1>4. \A i \in 1..Len(fs) : L[fs[i].key] = fs[i].packets
  BY <1>1, <1>2, LineAt DEF LinesOf
<1>5. \A k \in Flows : (\A i \in 1..Len(fs) : fs[i].key # k) => L[k] = <<>>
  BY <1>1, LineNone DEF LinesOf
<1> HIDE DEF L
<1>6. \A k \in Flows : L[k] \in Seq(Packet) /\ g[k] \in 0..Len(L[k])
  <2> SUFFICES ASSUME NEW k \in Flows PROVE L[k] \in Seq(Packet) /\ g[k] \in 0..Len(L[k])
    OBVIOUS
  <2>1. L[k] \in Seq(Packet)
    BY <1>3 DEF Lines
  <2>2. \A i, j \in 1..Len(L[k]) : i <= j => L[k][j].age <= L[k][i].age
    BY <1>1 DEF Aged
  <2>3. ExpiredPrefix(L[k]) \in 0..Len(L[k])
    BY <2>1, <2>2, ExpiredFacts
  <2>4. QED BY <2>1, <2>3 DEF Overdue
<1>7. g \in [Flows -> Nat]
  <2>1. \A k \in Flows : g[k] \in Nat
    <3> HIDE DEF g
    <3>1. QED BY <1>6
  <2>2. g = [k \in Flows |-> g[k]]
    BY DEF Overdue
  <2> HIDE DEF g
  <2>3. QED BY <2>1, <2>2
<1>8. \A i \in 1..Len(fs) : gone[i] = g[fs[i].key]
  BY <1>2, <1>4 DEF Overdue
<1> HIDE DEF g
<1>9. ASSUME NEW i \in 1..Len(fs)
      PROVE  /\ kept[i] \in Entries /\ kept[i].key = fs[i].key
             /\ kept[i].packets = SubSeq(L[fs[i].key], g[fs[i].key] + 1, Len(L[fs[i].key]))
  <2> DEFINE s == SubSeq(fs[i].packets, gone[i] + 1, Len(fs[i].packets))
  <2>1. kept[i] = [fs[i] EXCEPT !.packets = s]
    OBVIOUS
  <2>2. s = SubSeq(L[fs[i].key], g[fs[i].key] + 1, Len(L[fs[i].key]))
    BY <1>4, <1>8
  <2>3. s \in Seq(Packet)
    <3> DEFINE t == L[fs[i].key]
               n == g[fs[i].key]
    <3>1. t \in Seq(Packet) /\ n \in 0..Len(t) /\ s = SubSeq(t, n + 1, Len(t))
      BY <1>2, <1>6, <2>2
    <3> HIDE DEF t, n, s
    <3>2. QED BY <3>1
  <2> HIDE DEF s, kept
  <2>4. fs[i] \in Entries
    BY <1>2
  <2>5. kept[i] \in Entries /\ kept[i].key = fs[i].key /\ kept[i].packets = s
    BY <2>1, <2>3, <2>4 DEF Entries
  <2>6. QED BY <2>2, <2>5
<1>10. kept \in Seq(Entries) /\ Len(kept) = Len(fs)
  <2> DEFINE n == Len(fs)
  <2>1. kept = [i \in 1..n |-> kept[i]] /\ \A i \in 1..n : kept[i] \in Entries
    BY <1>9
  <2>2. n \in Nat
    BY <1>2
  <2> HIDE DEF kept, n
  <2>3. kept \in Seq(Entries) /\ Len(kept) = n
    BY <2>1, <2>2
  <2>4. QED BY <2>3 DEF n
<1> HIDE DEF kept
<1>11. /\ Distinct(kept) /\ M \in Lines
       /\ \A i \in 1..Len(fs) : M[fs[i].key] = kept[i].packets
       /\ \A k \in Flows : (\A i \in 1..Len(fs) : fs[i].key # k) => M[k] = <<>>
  BY <1>1, <1>9, <1>10, Rewritten
<1> HIDE DEF M
<1>12. \A k \in Flows : M[k] = SubSeq(L[k], g[k] + 1, Len(L[k]))
  <2> SUFFICES ASSUME NEW k \in Flows PROVE M[k] = SubSeq(L[k], g[k] + 1, Len(L[k]))
    OBVIOUS
  <2>1. CASE \E i \in 1..Len(fs) : fs[i].key = k
    BY <1>9, <1>11, <2>1
  <2>2. CASE \A i \in 1..Len(fs) : fs[i].key # k
    <3>1. L[k] = <<>> /\ M[k] = <<>>
      BY <1>5, <1>11, <2>2
    <3>2. g[k] = 0
      BY <1>6, <3>1
    <3>3. SubSeq(<<>>, 0 + 1, Len(<<>>)) = <<>>
      OBVIOUS
    <3>4. QED BY <3>1, <3>2, <3>3
  <2>3. QED BY <2>1, <2>2
<1>13. Shrunk(L, M, g)
  <2>1. M = [k \in Flows |-> M[k]]
    BY <1>11 DEF Lines
  <2>2. \A k \in Flows : g[k] <= Len(L[k])
    BY <1>6
  <2>3. QED BY <1>7, <1>12, <2>1, <2>2 DEF Shrunk
<1>14. PICK d, o \in Nat : /\ d <= packets /\ o <= bytes /\ Counts(Gone(g), d)
                           /\ Counts(OctetsOf(L, Gone(g)), o) /\ Counted(M, packets - d, bytes - o)
  BY <1>1, <1>3, <1>13, CountShrunk
<1>15. \A k \in Flows : (\A i \in 1..Len(fs) : fs[i].key # k) => g[k] = 0
  <2>1. Len(<<>>) = 0
    OBVIOUS
  <2>2. QED BY <1>5, <1>6, <2>1
<1>16. Counts(D, d) /\ Counts(O, o)
  <2>1. Counts(OctetsOf(LinesOf(fs), Gone(g)), o)
    BY <1>14 DEF L
  <2>2. QED BY <1>1, <1>7, <1>14, <1>15, <2>1, CountByEntry
<1>17. Dropped = Queue(kept, packets - d, bytes - o, icursor, bcursor, turns)
  <2>1. UNION {{i} \X (1..gone[i]) : i \in 1..Len(fs)} = D
    BY <1>8 DEF EntryGone
  <2>2. Cardinality(D) = d /\ Cardinality(O) = o
    BY <1>16 DEF Counts
  <2>3. Dropped = Queue(kept, packets - Cardinality(D), bytes - Cardinality(O), icursor, bcursor, turns)
    BY <1>2, <2>1 DEF Dropped, kept, EntryOctets
  <2>4. QED BY <2>2, <2>3
<1>18. /\ Dropped.flows = kept /\ Dropped.packets = packets - d /\ Dropped.bytes = bytes - o
       /\ Dropped.icursor = icursor /\ Dropped.bcursor = bcursor /\ Dropped.turns = turns
  BY <1>17 DEF Queue
<1> DEFINE r == Dropped
<1>19. r = Queue(kept, packets - d, bytes - o, icursor, bcursor, turns)
  BY <1>17
<1>20. /\ r.flows = kept /\ r.packets = packets - d /\ r.bytes = bytes - o
       /\ r.icursor = icursor /\ r.bcursor = bcursor /\ r.turns = turns
  BY <1>18
<1> HIDE DEF r, D, O, gone
<1>21. packets - d \in Nat /\ bytes - o \in Nat /\ packets - d <= packets /\ bytes - o <= bytes
  BY <1>1, <1>14
<1>22. Sound(r)
  <2>1. Counted(LinesOf(kept), packets - d, bytes - o) /\ Aged(LinesOf(kept))
    BY <1>1, <1>3, <1>13, <1>14, ShrunkAged DEF M
  <2>2. QED BY <1>1, <1>10, <1>11, <1>19, <1>20, <1>21, <2>1 DEF Sound
<1>23. QED BY <1>13, <1>20, <1>21, <1>22 DEF r, M, L, g

------------------------------------------------------------------------------
\* Steps

LEMMA Became ==
  ASSUME NEW q, Sound(q), Become(q)
  PROVE  /\ flows' = q.flows /\ packets' = q.packets /\ bytes' = q.bytes
         /\ Sound(This)' /\ (Sparse(q) => Sparse(This)')
<1>1. /\ flows' = q.flows /\ packets' = q.packets /\ bytes' = q.bytes
      /\ icursor' = q.icursor /\ bcursor' = q.bcursor /\ turns' = q.turns
  BY DEF Become
<1>2. This' = Queue(flows', packets', bytes', icursor', bcursor', turns')
  BY DEF This, Queue
<1>3. This' = q
  BY <1>1, <1>2 DEF Sound
<1>4. Sound(This') /\ (Sparse(q) => Sparse(This'))
  BY <1>3
<1>5. QED BY <1>1, <1>4 DEF Sound, Sparse, Queue, This

\* What one step does to the lines.
Kept(L, M) == M = L
Left(L, M) == \E k \in Flows : L[k] # <<>> /\ M = [L EXCEPT ![k] = Tail(@)]
Joined(L, M, n, b) ==
  \E k \in Flows, p \in Packet : /\ n < MaxPackets /\ b + p.size <= MaxBytes
                                 /\ Grown(L, M, k, p)
Passed(L, M) == M = [k \in Flows |-> [i \in DOMAIN L[k] |-> Older(L[k][i])]]

LinesStep ==
  \/ Kept(LinesOf(flows), LinesOf(flows'))
  \/ Left(LinesOf(flows), LinesOf(flows'))
  \/ Joined(LinesOf(flows), LinesOf(flows'), packets, bytes)
  \/ Shrunk(LinesOf(flows), LinesOf(flows'), Overdue(LinesOf(flows)))
  \/ Passed(LinesOf(flows), LinesOf(flows'))

LEMMA ThisFacts ==
  /\ This.flows = flows /\ This.packets = packets /\ This.bytes = bytes
  /\ This.icursor = icursor /\ This.bcursor = bcursor /\ This.turns = turns
  /\ This = Queue(flows, packets, bytes, icursor, bcursor, turns)
BY DEF This, Queue

LEMMA InvFacts ==
  ASSUME FlowInv
  PROVE  /\ flows \in Seq(Entries) /\ Distinct(flows) /\ Len(flows) \in Nat
         /\ packets \in Nat /\ bytes \in Nat /\ turns \in Nat
         /\ icursor \in 0..Len(flows) /\ bcursor \in 0..Len(flows)
         /\ icursor \in Nat /\ bcursor \in Nat
         /\ LinesOf(flows) \in Lines /\ Counted(LinesOf(flows), packets, bytes)
         /\ Aged(LinesOf(flows))
         /\ MaxPackets \in Nat /\ MaxBytes \in Nat /\ PruneSlack \in Nat
<1>1. Sound(This)
  BY DEF FlowInv
<1>2. /\ flows \in Seq(Entries) /\ Distinct(flows)
      /\ packets \in Nat /\ bytes \in Nat /\ turns \in Nat
      /\ icursor \in 0..Len(flows) /\ bcursor \in 0..Len(flows)
      /\ Counted(LinesOf(flows), packets, bytes) /\ Aged(LinesOf(flows))
  BY <1>1, ThisFacts DEF Sound
<1>3. Len(flows) \in Nat
  BY <1>2, EntryFacts
<1>4. QED BY <1>2, <1>3, LinesTyped, FlowQueueAssumption

LEMMA PushStep ==
  ASSUME FlowInv, NEW k \in Flows, NEW p \in Packet, Push(k, p)
  PROVE  FlowInv' /\ LinesStep
<1>0. /\ packets \in Nat /\ bytes \in Nat /\ p.size \in Nat /\ p.age = 0
      /\ MaxPackets \in Nat /\ MaxBytes \in Nat /\ PruneSlack \in Nat
  BY InvFacts, PacketFacts DEF Push
<1>1. CASE Fits(p)
  <2> DEFINE q == PruneIfNeeded(This)
             r == Pushed(q, k, p)
  <2>1. /\ Sound(q) /\ Sparse(q) /\ q.packets = packets /\ q.bytes = bytes
        /\ LinesOf(q.flows) = LinesOf(flows)
    BY PruneSound, ThisFacts DEF FlowInv
  <2> HIDE DEF q
  <2>2. /\ Sound(r) /\ r.packets = q.packets + 1 /\ r.bytes = q.bytes + p.size
        /\ Len(r.flows) <= Len(q.flows) + 1
        /\ Grown(LinesOf(q.flows), LinesOf(r.flows), k, p)
    BY <1>0, <2>1, PushedSound
  <2>3. Become(r)
    BY <1>1 DEF Push, q
  <2> HIDE DEF r
  <2>4. Sparse(r)
    <3>1. Len(q.flows) \in Nat /\ Len(r.flows) \in Nat
      BY <2>1, <2>2, EntryFacts DEF Sound
    <3>2. Len(q.flows) <= packets + PruneSlack
      BY <2>1 DEF Sparse
    <3>3. QED BY <1>0, <2>1, <2>2, <3>1, <3>2 DEF Sparse
  <2>5. /\ flows' = r.flows /\ packets' = packets + 1 /\ bytes' = bytes + p.size
        /\ Sound(This)' /\ Sparse(This)'
    BY <2>1, <2>2, <2>3, <2>4, Became
  <2>6. packets + 1 <= MaxPackets /\ packets < MaxPackets /\ bytes + p.size <= MaxBytes
    BY <1>0, <1>1 DEF Fits
  <2>7. FlowInv'
    BY <2>5, <2>6 DEF FlowInv
  <2>8. Grown(LinesOf(flows), LinesOf(flows'), k, p)
    BY <2>1, <2>2, <2>5
  <2>9. Joined(LinesOf(flows), LinesOf(flows'), packets, bytes)
    BY <2>6, <2>8 DEF Joined
  <2>10. QED BY <2>7, <2>9 DEF LinesStep
<1>2. CASE ~Fits(p)
  <2>1. Become(This)
    BY <1>2 DEF Push
  <2>2. flows' = flows /\ packets' = packets /\ bytes' = bytes /\ Sound(This)' /\ Sparse(This)'
    BY <2>1, Became, ThisFacts DEF FlowInv
  <2>3. QED BY <2>2 DEF FlowInv, LinesStep, Kept
<1>3. QED BY <1>1, <1>2

LEMMA PopStep ==
  ASSUME FlowInv, Pop
  PROVE  FlowInv' /\ LinesStep
<1> DEFINE c == Choice
           i == c.index + 1
           r == Served(This, c, This.bytes - Head(This.flows[i].packets).size)
           L == LinesOf(flows)
<1>1. c.index # Len(flows) /\ Become(Popped(This, c))
  BY DEF Pop
<1>2. /\ i \in 1..Len(flows) /\ HasPackets(flows[i])
      /\ c.index \in Nat /\ c.turns \in Nat /\ c.interactive \in BOOLEAN
  BY <1>1, InvFacts, ChoiceFacts
<1>3. Popped(This, c) = Settle(r)
  BY DEF Popped
<1> HIDE DEF c
<1>4. c.index = i - 1
  BY <1>2
<1>5. i \in 1..Len(This.flows) /\ HasPackets(This.flows[i]) /\ Sound(This)
  BY <1>2, ThisFacts DEF FlowInv
<1> HIDE DEF i
<1>6. /\ Sound(r) /\ r.packets <= This.packets /\ r.bytes <= This.bytes
      /\ This.flows[i].key \in Flows /\ LinesOf(This.flows)[This.flows[i].key] # <<>>
      /\ LinesOf(r.flows) = [LinesOf(This.flows) EXCEPT ![This.flows[i].key] = Tail(@)]
  <2> DEFINE q == This
  <2> HIDE DEF q
  <2>1. /\ Sound(q) /\ i \in 1..Len(q.flows) /\ HasPackets(q.flows[i])
        /\ r = Served(q, c, q.bytes - Head(q.flows[i].packets).size)
    BY <1>5 DEF q
  <2> HIDE DEF r
  <2>2. /\ Sound(r) /\ r.packets <= q.packets /\ r.bytes <= q.bytes
        /\ q.flows[i].key \in Flows /\ LinesOf(q.flows)[q.flows[i].key] # <<>>
        /\ LinesOf(r.flows) = [LinesOf(q.flows) EXCEPT ![q.flows[i].key] = Tail(@)]
    <3>0. Sound(r)
      BY <1>2, <1>4, <2>1, ServedSound
    <3>1. r.packets <= q.packets
      BY <1>2, <1>4, <2>1, ServedSound
    <3>2. /\ r.bytes <= q.bytes
          /\ q.flows[i].key \in Flows /\ LinesOf(q.flows)[q.flows[i].key] # <<>>
      BY <1>2, <1>4, <2>1, ServedSound
    <3>3. LinesOf(r.flows) = [LinesOf(q.flows) EXCEPT ![q.flows[i].key] = Tail(@)]
      BY <1>2, <1>4, <2>1, ServedSound
    <3>4. QED BY <3>0, <3>1, <3>2, <3>3
  <2>3. QED BY <2>2 DEF q
<1> HIDE DEF r
<1>7. /\ r.packets <= packets /\ r.bytes <= bytes /\ flows[i].key \in Flows
      /\ L[flows[i].key] # <<>> /\ LinesOf(r.flows) = [L EXCEPT ![flows[i].key] = Tail(@)]
  BY <1>6, ThisFacts
<1>8. /\ Sound(Settle(r)) /\ Sparse(Settle(r))
      /\ Settle(r).packets = r.packets /\ Settle(r).bytes = r.bytes
      /\ LinesOf(Settle(r).flows) = LinesOf(r.flows)
  BY <1>6, SettleSound
<1>9. /\ flows' = Settle(r).flows /\ packets' = r.packets /\ bytes' = r.bytes
      /\ Sound(This)' /\ Sparse(This)'
  BY <1>1, <1>3, <1>8, Became
<1>10. packets' <= MaxPackets /\ bytes' <= MaxBytes
  <2>1. r.packets \in Nat /\ r.bytes \in Nat
    BY <1>6 DEF Sound
  <2>2. packets <= MaxPackets /\ bytes <= MaxBytes
    BY DEF FlowInv
  <2>3. QED BY <1>7, <1>9, <2>1, <2>2, InvFacts
<1>11. LinesOf(flows') = [L EXCEPT ![flows[i].key] = Tail(@)]
  BY <1>7, <1>8, <1>9
<1>12. Left(L, LinesOf(flows'))
  BY <1>7, <1>11 DEF Left
<1>13. QED BY <1>9, <1>10, <1>12 DEF FlowInv, LinesStep

LEMMA DropStep ==
  ASSUME FlowInv, DropExpired
  PROVE  FlowInv' /\ LinesStep
<1> DEFINE r == Dropped
           L == LinesOf(flows)
<1>1. Become(Settle(r))
  BY DEF DropExpired
<1>2. /\ Sound(r) /\ r.packets <= packets /\ r.bytes <= bytes
      /\ Shrunk(L, LinesOf(r.flows), Overdue(L))
  BY DroppedSound DEF FlowInv
<1> HIDE DEF r
<1>3. /\ Sound(Settle(r)) /\ Sparse(Settle(r))
      /\ Settle(r).packets = r.packets /\ Settle(r).bytes = r.bytes
      /\ LinesOf(Settle(r).flows) = LinesOf(r.flows)
  BY <1>2, SettleSound
<1>4. /\ flows' = Settle(r).flows /\ packets' = r.packets /\ bytes' = r.bytes
      /\ Sound(This)' /\ Sparse(This)'
  BY <1>1, <1>3, Became
<1>5. packets' <= MaxPackets /\ bytes' <= MaxBytes
  <2>1. r.packets \in Nat /\ r.bytes \in Nat
    BY <1>2 DEF Sound
  <2>2. packets <= MaxPackets /\ bytes <= MaxBytes
    BY DEF FlowInv
  <2>3. QED BY <1>2, <1>4, <2>1, <2>2, InvFacts
<1>6. Shrunk(L, LinesOf(flows'), Overdue(L))
  BY <1>2, <1>3, <1>4
<1>7. QED BY <1>4, <1>5, <1>6 DEF FlowInv, LinesStep

LEMMA OlderFacts ==
  ASSUME NEW p \in Packet
  PROVE  /\ Older(p) \in Packet /\ Older(p).size = p.size
         /\ Older(p).age = IF p.age > Ttl THEN p.age ELSE p.age + 1
<1>1. p.age \in 0..(Ttl + 1) /\ Ttl \in Nat
  BY FlowQueueAssumption DEF Packet
<1>2. CASE p.age > Ttl
  BY <1>2 DEF Older
<1>3. CASE ~(p.age > Ttl)
  <2>1. Older(p) = [p EXCEPT !.age = p.age + 1]
    BY <1>3 DEF Older
  <2> DEFINE a == p.age + 1
  <2>2. a \in 0..(Ttl + 1)
    BY <1>1, <1>3
  <2> HIDE DEF a
  <2>3. [p EXCEPT !.age = a] \in Packet /\ [p EXCEPT !.age = a].size = p.size /\ [p EXCEPT !.age = a].age = a
    BY <2>2 DEF Packet
  <2>4. Older(p) = [p EXCEPT !.age = a]
    BY <2>1 DEF a
  <2>5. Older(p) \in Packet /\ Older(p).size = p.size /\ Older(p).age = a
    BY <2>3, <2>4
  <2>6. QED BY <1>3, <2>5 DEF a
<1>4. QED BY <1>2, <1>3

LEMMA TickStep ==
  ASSUME FlowInv, Tick
  PROVE  FlowInv' /\ LinesStep
<1> DEFINE fs == flows
           gs == [i \in 1..Len(fs) |->
                   [fs[i] EXCEPT !.packets = [j \in DOMAIN @ |-> Older(@[j])]]]
           L == LinesOf(fs)
           M == LinesOf(gs)
           Later(s) == [j \in DOMAIN s |-> Older(s[j])]
<1>1. /\ fs \in Seq(Entries) /\ Distinct(fs) /\ Len(fs) \in Nat
      /\ packets \in Nat /\ bytes \in Nat /\ turns \in Nat
      /\ icursor \in 0..Len(fs) /\ bcursor \in 0..Len(fs)
      /\ L \in Lines /\ Counted(L, packets, bytes) /\ Aged(L)
  BY InvFacts
<1>2. /\ DOMAIN fs = 1..Len(fs)
      /\ \A i \in 1..Len(fs) : fs[i] \in Entries /\ fs[i].key \in Flows /\ fs[i].packets \in Seq(Packet)
  BY <1>1, EntryFacts
<1>3. flows' = gs /\ UNCHANGED <<packets, bytes, icursor, bcursor, turns>>
  BY <1>2 DEF Tick
<1>4. ASSUME NEW s \in Seq(Packet)
      PROVE  Later(s) \in Seq(Packet) /\ Len(Later(s)) = Len(s) /\ \A j \in 1..Len(s) : Later(s)[j] = Older(s[j])
  <2>1. Len(s) \in Nat /\ DOMAIN s = 1..Len(s) /\ \A j \in 1..Len(s) : s[j] \in Packet
    OBVIOUS
  <2>2. \A j \in 1..Len(s) : Older(s[j]) \in Packet
    BY <2>1, OlderFacts
  <2>3. QED BY <2>1, <2>2
<1>5. ASSUME NEW i \in 1..Len(fs)
      PROVE  gs[i] \in Entries /\ gs[i].key = fs[i].key /\ gs[i].packets = Later(fs[i].packets)
  <2> DEFINE s == Later(fs[i].packets)
  <2>1. gs[i] = [fs[i] EXCEPT !.packets = s]
    OBVIOUS
  <2>2. s \in Seq(Packet) /\ fs[i] \in Entries
    BY <1>2, <1>4
  <2> HIDE DEF s, gs
  <2>3. gs[i] \in Entries /\ gs[i].key = fs[i].key /\ gs[i].packets = s
    BY <2>1, <2>2 DEF Entries
  <2>4. QED BY <2>3 DEF s
<1>6. gs \in Seq(Entries) /\ Len(gs) = Len(fs)
  <2> DEFINE n == Len(fs)
  <2>1. gs = [i \in 1..n |-> gs[i]] /\ \A i \in 1..n : gs[i] \in Entries
    BY <1>5
  <2>2. n \in Nat
    BY <1>1
  <2> HIDE DEF gs, n
  <2>3. gs \in Seq(Entries) /\ Len(gs) = n
    BY <2>1, <2>2
  <2>4. QED BY <2>3 DEF n
<1> HIDE DEF gs
<1>7. /\ Distinct(gs) /\ M \in Lines
      /\ \A i \in 1..Len(fs) : M[fs[i].key] = gs[i].packets /\ L[fs[i].key] = fs[i].packets
      /\ \A k \in Flows : (\A i \in 1..Len(fs) : fs[i].key # k) => M[k] = <<>> /\ L[k] = <<>>
  BY <1>1, <1>5, <1>6, Rewritten
<1> HIDE DEF L, M
<1>8. \A k \in Flows : M[k] = Later(L[k])
  <2> SUFFICES ASSUME NEW k \in Flows PROVE M[k] = Later(L[k])
    OBVIOUS
  <2>1. CASE \E i \in 1..Len(fs) : fs[i].key = k
    <3>1. PICK i \in 1..Len(fs) : fs[i].key = k
      BY <2>1
    <3>2. M[k] = gs[i].packets /\ L[k] = fs[i].packets
      BY <1>7, <3>1
    <3> HIDE DEF Later
    <3>3. QED BY <1>5, <3>2
  <2>2. CASE \A i \in 1..Len(fs) : fs[i].key # k
    <3>1. L[k] = <<>> /\ M[k] = <<>>
      BY <1>7, <2>2
    <3>2. Later(<<>>) = <<>>
      <4>1. <<>> \in Seq(Packet) /\ Len(<<>>) = 0
        OBVIOUS
      <4>2. Later(<<>>) \in Seq(Packet) /\ Len(Later(<<>>)) = 0
        BY <1>4, <4>1
      <4> HIDE DEF Later
      <4>3. QED BY <4>2
    <3> HIDE DEF Later
    <3>3. QED BY <3>1, <3>2
  <2>3. QED BY <2>1, <2>2
<1>9. \A k \in Flows : L[k] \in Seq(Packet)
  BY <1>1 DEF Lines
<1>10. /\ \A k \in Flows : Len(M[k]) = Len(L[k])
       /\ \A k \in Flows : \A i \in 1..Len(L[k]) : M[k][i] = Older(L[k][i]) /\ L[k][i] \in Packet
  <2> HIDE DEF Later
  <2>1. \A k \in Flows : \A i \in 1..Len(L[k]) : L[k][i] \in Packet
    BY <1>9
  <2>2. QED BY <1>4, <1>8, <1>9, <2>1
<1>11. Counted(M, packets, bytes)
  <2>1. \A k \in Flows : \A i \in 1..Len(L[k]) : M[k][i].size = L[k][i].size
    BY <1>10, OlderFacts
  <2>2. QED BY <1>1, <1>7, <1>10, <2>1, CountSame
<1>12. Aged(M)
  <2>1. ASSUME NEW k \in Flows, NEW i \in 1..Len(M[k]), NEW j \in 1..Len(M[k]), i <= j
        PROVE  M[k][j].age <= M[k][i].age
    <3> DEFINE p == L[k][i]
               q == L[k][j]
    <3>1. i \in 1..Len(L[k]) /\ j \in 1..Len(L[k])
      BY <1>10
    <3>2. p \in Packet /\ q \in Packet /\ M[k][i] = Older(p) /\ M[k][j] = Older(q)
      BY <1>10, <3>1
    <3>3. q.age <= p.age
      BY <1>1, <2>1, <3>1 DEF Aged
    <3> HIDE DEF p, q
    <3>4. /\ Older(p).age = (IF p.age > Ttl THEN p.age ELSE p.age + 1)
          /\ Older(q).age = (IF q.age > Ttl THEN q.age ELSE q.age + 1)
          /\ p.age \in 0..(Ttl + 1) /\ q.age \in 0..(Ttl + 1) /\ Ttl \in Nat
      BY <3>2, OlderFacts, PacketFacts DEF Packet
    <3>5. Older(q).age <= Older(p).age
      BY <3>3, <3>4
    <3>6. QED BY <3>2, <3>5
  <2>2. QED BY <2>1 DEF Aged
<1>13. Passed(L, M)
  <2>1. M = [k \in Flows |-> M[k]]
    BY <1>7 DEF Lines
  <2>2. QED BY <1>8, <2>1 DEF Passed
<1> DEFINE r == Queue(gs, packets, bytes, icursor, bcursor, turns)
<1>14. /\ r.flows = gs /\ r.packets = packets /\ r.bytes = bytes
       /\ r.icursor = icursor /\ r.bcursor = bcursor /\ r.turns = turns
       /\ r = Queue(gs, packets, bytes, icursor, bcursor, turns)
  BY DEF Queue
<1> HIDE DEF r
<1>15. Sound(r)
  <2>1. Counted(LinesOf(gs), packets, bytes) /\ Aged(LinesOf(gs))
    BY <1>11, <1>12 DEF M
  <2>2. QED BY <1>1, <1>6, <1>7, <1>14, <2>1 DEF Sound
<1>16. Sparse(r)
  BY <1>6, <1>14, ThisFacts DEF FlowInv, Sparse
<1>17. Become(r)
  BY <1>3, <1>14 DEF Become
<1>18. FlowInv'
  BY <1>3, <1>15, <1>16, <1>17, Became DEF FlowInv
<1>19. QED BY <1>3, <1>13, <1>18 DEF LinesStep, L, M

LEMMA InitFlow == FlowInit => FlowInv /\ LinesOf(flows) = [k \in Flows |-> <<>>]
<1> SUFFICES ASSUME FlowInit PROVE FlowInv /\ LinesOf(flows) = [k \in Flows |-> <<>>]
  OBVIOUS
<1> DEFINE L == LinesOf(flows)
<1>1. /\ flows = <<>> /\ packets = 0 /\ bytes = 0 /\ icursor = 0 /\ bcursor = 0 /\ turns = 0
  BY DEF FlowInit
<1>2. L = [k \in Flows |-> <<>>] /\ flows \in Seq(Entries) /\ Distinct(flows) /\ Len(flows) = 0
  BY <1>1, LinesEmpty
<1> HIDE DEF L
<1>3. \A k \in Flows : Len(L[k]) = 0 /\ DOMAIN L[k] = 1..0
  BY <1>2
<1>4. SlotsOf(L) = {}
  BY <1>3 DEF SlotsOf
<1>5. OctetsOf(L, SlotsOf(L)) = {}
  BY <1>4 DEF OctetsOf
<1>6. Counted(L, 0, 0)
  BY <1>4, <1>5, FS_EmptySet DEF Counted, Counts
<1>7. Aged(L)
  BY <1>3 DEF Aged
<1>8. Sound(This)
  <2>1. Counted(LinesOf(flows), packets, bytes) /\ Aged(LinesOf(flows))
    BY <1>1, <1>6, <1>7 DEF L
  <2>2. packets \in Nat /\ bytes \in Nat /\ turns \in Nat /\ icursor \in 0..Len(flows) /\ bcursor \in 0..Len(flows)
    BY <1>1, <1>2
  <2>3. QED BY <1>2, <2>1, <2>2, ThisFacts DEF Sound
<1>9. Sparse(This) /\ packets <= MaxPackets /\ bytes <= MaxBytes
  BY <1>1, <1>2, ThisFacts, FlowQueueAssumption DEF Sparse
<1>10. QED BY <1>2, <1>8, <1>9 DEF FlowInv, L

LEMMA NextFlow == FlowInv /\ [FlowNext]_flowVars => FlowInv' /\ LinesStep
<1> SUFFICES ASSUME FlowInv, [FlowNext]_flowVars PROVE FlowInv' /\ LinesStep
  OBVIOUS
<1>1. ASSUME NEW k \in Flows, NEW p \in Packet, Push(k, p) PROVE FlowInv' /\ LinesStep
  BY <1>1, PushStep
<1>2. CASE DropExpired
  BY <1>2, DropStep
<1>3. CASE Pop
  BY <1>3, PopStep
<1>4. CASE Tick
  BY <1>4, TickStep
<1>5. CASE UNCHANGED flowVars
  BY <1>5 DEF flowVars, FlowInv, Sound, Sparse, This, Queue, LinesStep, Kept
<1>6. QED BY <1>1, <1>2, <1>3, <1>4, <1>5 DEF FlowNext

LEMMA FlowInvariant == FlowSpec => []FlowInv
BY InitFlow, NextFlow, PTL DEF FlowSpec

\* packets_ and bytes_ are exactly what the flows hold, within their limits; no
\* flow has two entries, idle entries stay within the slack of prune_if_needed and
\* the cursors of pop stay in the vector: for every mix of push, pop and
\* drop_expired and all limits.
THEOREM QueueCountsExactly == FlowSpec => []Accounting
<1>1. FlowInv => Accounting
  <2> SUFFICES ASSUME FlowInv PROVE Accounting
    OBVIOUS
  <2>1. /\ flows \in Seq(Entries) /\ Distinct(flows) /\ DOMAIN flows = 1..Len(flows)
        /\ icursor \in 0..Len(flows) /\ bcursor \in 0..Len(flows)
        /\ Counted(LinesOf(flows), packets, bytes)
    BY InvFacts
  <2>2. Fifo!Slots = SlotsOf(LinesOf(flows))
    BY DEF Fifo!Slots, SlotsOf, LinesOf
  <2>3. Fifo!Octets = OctetsOf(LinesOf(flows), SlotsOf(LinesOf(flows)))
    BY <2>2 DEF Fifo!Octets, OctetsOf, LinesOf
  <2>4. packets = Cardinality(Fifo!Slots) /\ bytes = Cardinality(Fifo!Octets)
    BY <2>1, <2>2, <2>3 DEF Counted, Counts
  <2>5. Len(flows) <= packets + PruneSlack /\ packets <= MaxPackets /\ bytes <= MaxBytes
    BY ThisFacts DEF FlowInv, Sparse
  <2>6. QED BY <2>1, <2>4, <2>5 DEF Accounting, Distinct
<1>2. QED BY <1>1, FlowInvariant, PTL

LEMMA FifoCounts == \A S : Fifo!Cardinality(S) = Cardinality(S)
BY DEF Fifo!Cardinality, Cardinality

\* Each step of the queue is a step of the lines, or none.
LEMMA StepRefines ==
  ASSUME FlowInv, LinesStep
  PROVE  [Fifo!FifoNext]_[k \in Flows |-> LineOf(flows, k)]
<1> DEFINE L == LinesOf(flows)
           M == LinesOf(flows')
<1>1. L = [k \in Flows |-> LineOf(flows, k)] /\ M = [k \in Flows |-> LineOf(flows, k)]'
  BY DEF LinesOf
<1>2. L \in Lines /\ Counted(L, packets, bytes) /\ Aged(L) /\ packets \in Nat /\ bytes \in Nat
  BY InvFacts
<1>3. CASE Kept(L, M)
  BY <1>1, <1>3 DEF Kept
<1>4. CASE Left(L, M)
  <2>1. PICK k \in Flows : L[k] # <<>> /\ M = [L EXCEPT ![k] = Tail(@)]
    BY <1>4 DEF Left
  <2>2. Fifo!Deliver(k)
    BY <1>1, <2>1 DEF Fifo!Deliver
  <2>3. QED BY <2>2 DEF Fifo!FifoNext
<1>5. CASE Joined(L, M, packets, bytes)
  <2>1. PICK k \in Flows, p \in Packet :
          packets < MaxPackets /\ bytes + p.size <= MaxBytes /\ Grown(L, M, k, p)
    BY <1>5 DEF Joined
  <2>2. M = [L EXCEPT ![k] = Append(@, p)] /\ Len(M[k]) = Len(L[k]) + 1
    <3>1. M = [L EXCEPT ![k] = Append(@, p)]
      BY <2>1 DEF Grown
    <3>2. L[k] \in Seq(Packet) /\ M[k] = Append(L[k], p)
      BY <1>2, <3>1 DEF Lines
    <3>3. QED BY <3>1, <3>2
  <2>3. p \in Fifo!Packet
    BY DEF Fifo!Packet, Packet
  <2>4. Fifo!Fits(p)
    <3>1. Fifo!Slots = SlotsOf(L)
      BY DEF Fifo!Slots, SlotsOf, LinesOf
    <3>2. Fifo!Octets = OctetsOf(L, SlotsOf(L))
      BY <3>1 DEF Fifo!Octets, OctetsOf, LinesOf
    <3>3. Fifo!Cardinality(Fifo!Slots) = packets /\ Fifo!Cardinality(Fifo!Octets) = bytes
      BY <1>2, <3>1, <3>2, FifoCounts DEF Counted, Counts
    <3>4. QED BY <2>1, <3>3 DEF Fifo!Fits
  <2>5. Fifo!Accept(k)
    BY <1>1, <2>2, <2>3, <2>4 DEF Fifo!Accept
  <2>6. QED BY <2>5 DEF Fifo!FifoNext
<1>6. CASE Shrunk(L, M, Overdue(L))
  <2>1. M = [k \in Flows |-> M[k]] /\ \A k \in Flows : M[k] = SubSeq(L[k], ExpiredPrefix(L[k]) + 1, Len(L[k]))
    BY <1>6 DEF Shrunk, Overdue
  <2>2. \A k \in Flows : /\ ExpiredPrefix(L[k]) \in 0..Len(L[k])
                         /\ \A i \in 1..Len(L[k]) : L[k][i].age > Ttl <=> i <= ExpiredPrefix(L[k])
    <3> SUFFICES ASSUME NEW k \in Flows
                 PROVE  /\ ExpiredPrefix(L[k]) \in 0..Len(L[k])
                        /\ \A i \in 1..Len(L[k]) : L[k][i].age > Ttl <=> i <= ExpiredPrefix(L[k])
      OBVIOUS
    <3> DEFINE s == L[k]
    <3>1. s \in Seq(Packet) /\ \A i, j \in 1..Len(s) : i <= j => s[j].age <= s[i].age
      BY <1>2 DEF Lines, Aged
    <3> HIDE DEF s
    <3>2. /\ ExpiredPrefix(s) \in 0..Len(s)
          /\ \A i \in 1..Len(s) : s[i].age > Ttl <=> i <= ExpiredPrefix(s)
      BY <3>1, ExpiredFacts
    <3>3. QED BY <3>2 DEF s
  <2> HIDE DEF L, M
  <2>3. \A k \in Flows : \E n \in 0..Len(L[k]) :
          /\ \A i \in 1..Len(L[k]) : L[k][i].age > Ttl <=> i <= n
          /\ M[k] = SubSeq(L[k], n + 1, Len(L[k]))
    BY <2>1, <2>2
  <2>4. Fifo!DropOld
    BY <1>1, <2>1, <2>3 DEF Fifo!DropOld
  <2>5. QED BY <2>4 DEF Fifo!FifoNext
<1>7. CASE Passed(L, M)
  <2>1. M = [k \in Flows |-> [i \in DOMAIN L[k] |-> Fifo!Older(L[k][i])]]
    BY <1>7 DEF Passed, Older, Fifo!Older
  <2>2. Fifo!Age
    BY <1>1, <2>1 DEF Fifo!Age
  <2>3. QED BY <2>2 DEF Fifo!FifoNext
<1>8. QED BY <1>3, <1>4, <1>5, <1>6, <1>7 DEF LinesStep

\* The vector of entries with its cursors, turns, pruning and clearing is one FIFO
\* line per flow: a push appends or is refused by the limits, a pop takes the head
\* of one line, drop_expired takes exactly the packets past their time, and nothing
\* else changes a line.
THEOREM QueueIsFifo == FlowSpec => ImplementsFifo
<1>1. FlowInit => Fifo!FifoInit
  BY InitFlow DEF Fifo!FifoInit, LinesOf
<1>2. FlowInv /\ [FlowNext]_flowVars => [Fifo!FifoNext]_[k \in Flows |-> LineOf(flows, k)]
  BY NextFlow, StepRefines
<1>3. QED BY <1>1, <1>2, FlowInvariant, PTL DEF FlowSpec, ImplementsFifo, Fifo!FifoSpec


------------------------------------------------------------------------------
USE DEF Least, Greatest

\* A whole number of bytes within a budget costs no more than the budget.
LEMMA WholeBytes ==
  ASSUME NEW d \in Nat \ {0}, NEW a \in Nat, NEW n \in Nat, n <= a \div d
  PROVE  n * d <= a
<1> DEFINE k == a \div d
<1>1. k \in Int /\ k * d <= a
  BY SMT
<1>2. n * d <= k * d
  BY <1>1, SMT
<1> QED
  BY <1>1, <1>2, SMT

\* Multiplication distributes over a sum of intervals.
LEMMA Distributes ==
  ASSUME NEW r \in Nat, NEW x \in Int, NEW y \in Int
  PROVE  r * (x + y) = r * x + r * y
  BY SMT

LEMMA Product ==
  ASSUME NEW r \in Nat, NEW x \in Nat
  PROVE  r * x \in Nat /\ x * r = r * x
  BY SMT

\* An encoder adds nothing, or at most its allowance.
LEMMA ExtraBounded ==
  ASSUME NEW maximum \in Nat, NEW allowance \in Int, NEW extra \in Extra(maximum, allowance)
  PROVE  extra \in Nat /\ (extra = 0 \/ extra <= allowance)
  BY PaddingAssumption DEF Extra, EnvelopeExtra, PaddedExtra

\* The types, without sets of records and intervals.
LEMMA PadFacts ==
  ASSUME BudgetTypes
  PROVE  /\ now \in Nat
         /\ shapeLast \in Nat /\ shapeLast <= now
         /\ controlLast \in Nat /\ controlLast <= now
         /\ spentData \in Nat /\ spentControl \in Nat
         /\ mark.time \in Nat /\ mark.time <= now
         /\ mark.data \in Nat /\ mark.data <= spentData
         /\ mark.control \in Nat /\ mark.control <= spentControl
  BY DEF BudgetTypes


\* One use of a token bucket: what was spent since m, plus what the bucket still
\* holds, stays within burst + rate * time, provided the cost was in the bucket.
LEMMA Bucket ==
  ASSUME NEW unit \in Nat, NEW burst \in Nat, NEW rate \in Nat,
         NEW held \in Nat, NEW last \in Nat, NEW t \in Nat, NEW m \in Nat, NEW w \in Nat,
         NEW refill \in Nat, NEW extra \in Nat,
         last <= t, m <= t,
         refill <= burst * unit, refill <= held + rate * (t - last),
         IF last < m THEN w = 0 ELSE w * unit + held <= burst * unit + rate * (last - m)
  PROVE  (w + extra) * unit + (refill - extra * unit) <= burst * unit + rate * (t - m)
<1> DEFINE spent == w * unit
           cost == extra * unit
           cap == burst * unit
<1>1. spent \in Nat /\ cost \in Nat /\ cap \in Nat /\ rate * (t - m) \in Nat
  <2>1. t - m \in Nat
    OBVIOUS
  <2> QED
    BY <2>1, Product
<1>2. (w + extra) * unit = spent + cost
  BY SMT
<1>3. CASE last < m
  <2>1. spent = 0
    BY <1>3, SMT
  <2> HIDE DEF spent, cost, cap
  <2> QED
    BY <1>1, <1>2, <2>1 DEF cap
<1>4. CASE ~(last < m)
  <2>1. rate * ((last - m) + (t - last)) = rate * (last - m) + rate * (t - last)
    BY Distributes
  <2>2. (last - m) + (t - last) = t - m
    OBVIOUS
  <2>3. rate * (last - m) \in Int /\ rate * (t - last) \in Int
    BY SMT
  <2>4. spent + held <= cap + rate * (last - m)
    BY <1>4
  <2> HIDE DEF spent, cost, cap
  <2> QED
    BY <1>1, <1>2, <2>1, <2>2, <2>3, <2>4
<1> QED
  BY <1>3, <1>4

\* What the shared bucket holds after refilling.
LEMMA RefilledBounds ==
  ASSUME BudgetTypes
  PROVE  /\ Refilled \in Nat /\ Refilled <= Burst * Unit
         /\ Refilled <= tokens + Rate * (now - shapeLast)
<1>1. now - shapeLast \in Nat /\ tokens \in 0..(Burst * Unit) /\ Burst * Unit \in Nat
  BY PaddingAssumption, Product DEF BudgetTypes
<1>2. (now - shapeLast) * Rate \in Nat /\ (now - shapeLast) * Rate = Rate * (now - shapeLast)
  BY <1>1, PaddingAssumption, Product
<1> QED
  BY <1>1, <1>2 DEF Refilled

\* What the control budget holds after the elapsed time is credited.
LEMMA RecoveredBounds ==
  ASSUME BudgetTypes
  PROVE  /\ Recovered \in Nat /\ Recovered <= ControlBurst * Unit
         /\ Recovered <= control + ControlRate * (now - controlLast)
<1>1. /\ now - controlLast \in Nat /\ control \in 0..(ControlBurst * Unit)
      /\ ControlBurst * Unit \in Nat
  BY PaddingAssumption, Product DEF BudgetTypes
<1>2. /\ (now - controlLast) * ControlRate \in Nat
      /\ (now - controlLast) * ControlRate = ControlRate * (now - controlLast)
  BY <1>1, PaddingAssumption, Product
<1> QED
  BY <1>1, <1>2 DEF Recovered

\* The shape allowance exceeds neither what was asked for nor the bucket.
LEMMA ShapedBounds ==
  ASSUME BudgetTypes, NEW requested \in Nat
  PROVE  /\ Shaped(requested) \in Nat /\ Shaped(requested) <= requested
         /\ Shaping => Shaped(requested) <= Refilled \div Unit
<1>1. Refilled \div Unit \in Nat
  BY RefilledBounds, PaddingAssumption, SMT
<1> QED
  BY <1>1 DEF Shaped

\* Spending within the allowance keeps the ledger of the shared bucket.
LEMMA SpendKeepsLedger ==
  ASSUME BudgetTypes, ShapeLedger,
         NEW requested \in Nat, NEW extra \in Nat,
         extra = 0 \/ extra <= Shaped(requested),
         Spend(extra),
         now' = now, mark' = mark,
         spentData' \in Nat, spentControl' \in Nat,
         spentData' + spentControl' = spentData + spentControl + extra
  PROVE  /\ ShapeLedger'
         /\ tokens' \in 0..(Burst * Unit)
         /\ shapeLast' \in 0..now
<1>1. CASE ~Shaping
  BY <1>1 DEF Spend, ShapeLedger, BudgetTypes
<1>2. CASE Shaping
  <2>1. PaddingInWindow \in Nat
    BY PadFacts DEF PaddingInWindow, ControlInWindow
  <2>2. PaddingInWindow' = PaddingInWindow + extra
    BY PadFacts DEF PaddingInWindow, ControlInWindow
  <2>3. extra * Unit \in Nat /\ extra * Unit <= Refilled
    <3>1. CASE extra = 0
      BY <3>1, RefilledBounds, PaddingAssumption, SMT
    <3>2. CASE extra <= Shaped(requested)
      <4>1. extra <= Refilled \div Unit
        <5>1. Shaped(requested) \in Nat /\ Shaped(requested) <= Refilled \div Unit
          BY <1>2, ShapedBounds
        <5>2. Refilled \div Unit \in Nat
          BY RefilledBounds, PaddingAssumption, SMT
        <5> QED
          BY <3>2, <5>1, <5>2
      <4> QED
        BY <4>1, RefilledBounds, PaddingAssumption, WholeBytes, Product
    <3> QED
      BY <3>1, <3>2
  <2>4. tokens' = Refilled - extra * Unit /\ shapeLast' = now
    BY <1>2, <2>3, RefilledBounds DEF Spend
  <2>5. (PaddingInWindow + extra) * Unit + (Refilled - extra * Unit)
          <= Burst * Unit + Rate * (now - mark.time)
    <3>1. IF shapeLast < mark.time THEN PaddingInWindow = 0
          ELSE PaddingInWindow * Unit + tokens <= Burst * Unit + Rate * (shapeLast - mark.time)
      BY <1>2 DEF ShapeLedger
    <3>2. tokens \in Nat
      BY PaddingAssumption, Product DEF BudgetTypes
    <3> QED
      BY <2>1, <3>1, <3>2, PadFacts, RefilledBounds, PaddingAssumption, Bucket
  <2>6. ShapeLedger'
    BY <2>2, <2>4, <2>5, PadFacts DEF ShapeLedger
  <2> QED
    BY <2>3, <2>4, <2>6, PadFacts, RefilledBounds, PaddingAssumption, Product
<1> QED
  BY <1>1, <1>2

------------------------------------------------------------------------------
\* Every action keeps the inductive invariant.

LEMMA DataKeeps ==
  ASSUME PadInv, NEW amount \in Payloads, NEW maximum \in DataMaxima, EncodeData(amount, maximum)
  PROVE  PadInv'
<1> USE DEF PadInv
<1>0. amount \in Nat /\ maximum \in Nat /\ amount * Pct \in Nat /\ payload * Pct \in Nat
  BY PaddingAssumption, Product DEF BudgetTypes
<1>1. /\ now' = now /\ mark' = mark /\ control' = control /\ controlLast' = controlLast
      /\ spentControl' = spentControl /\ payload' = payload + amount
  BY DEF EncodeData
<1>2. payload' * Pct = payload * Pct + amount * Pct
  BY <1>0, <1>1, PaddingAssumption, SMT DEF BudgetTypes
<1>3. ControlLedger'
  BY <1>1 DEF ControlLedger, ControlInWindow
<1>4. CASE Pool /\ maximum = 0
  <2>1. UNCHANGED <<data, tokens, shapeLast, spentData>>
    BY <1>4 DEF EncodeData
  <2>2. BudgetTypes'
    BY <1>0, <1>1, <2>1 DEF BudgetTypes
  <2>3. ShapeLedger'
    BY <1>1, <2>1 DEF ShapeLedger, PaddingInWindow, ControlInWindow
  <2>4. DataLedger'
    BY <1>0, <1>2, <2>1 DEF DataLedger, BudgetTypes
  <2> QED
    BY <1>3, <2>2, <2>3, <2>4
<1>5. CASE ~(Pool /\ maximum = 0)
  <2> DEFINE asked == Least(maximum + 3, Credited(amount) \div 100)
  <2>1. PICK extra \in Extra(maximum, Shaped(asked)) :
          /\ data' = Greatest(0, Credited(amount) - extra * 100)
          /\ Spend(extra)
          /\ spentData' = spentData + extra
    BY <1>5 DEF EncodeData
  <2>2. Credited(amount) \in 0..(DataCap * 100) /\ Credited(amount) <= data + amount * Pct
    BY <1>0, PaddingAssumption DEF Credited, BudgetTypes
  <2>3. asked \in Nat /\ asked <= Credited(amount) \div 100
    BY <1>0, <2>2, PaddingAssumption
  <2>4. Shaped(asked) \in Nat /\ Shaped(asked) <= asked
    BY <2>3, ShapedBounds
  <2>5. extra \in Nat /\ (extra = 0 \/ extra <= Shaped(asked))
    BY <1>0, <2>1, <2>4, ExtraBounded
  <2> HIDE DEF asked
  <2>6. extra * 100 <= Credited(amount)
    BY <2>2, <2>3, <2>4, <2>5, PaddingAssumption
  <2>7. data' = Credited(amount) - extra * 100
    BY <2>1, <2>2, <2>5, <2>6, PaddingAssumption
  <2>8. ShapeLedger' /\ tokens' \in 0..(Burst * Unit) /\ shapeLast' \in 0..now
    BY <1>1, <2>1, <2>3, <2>5, PadFacts, SpendKeepsLedger
  <2>9. DataLedger'
    BY <1>0, <1>2, <2>1, <2>2, <2>5, <2>7, PaddingAssumption DEF DataLedger, BudgetTypes
  <2>10. data' \in 0..(DataCap * 100)
    BY <2>2, <2>5, <2>6, <2>7, PaddingAssumption
  <2>11. BudgetTypes'
    <3>1. mark \in [time : 0..now, data : 0..spentData', control : 0..spentControl]
      BY <2>1, <2>5 DEF BudgetTypes
    <3> QED
      BY <1>0, <1>1, <2>1, <2>5, <2>8, <2>10, <3>1 DEF BudgetTypes
  <2> QED
    BY <1>3, <2>8, <2>9, <2>11
<1> QED
  BY <1>4, <1>5

LEMMA ControlKeeps ==
  ASSUME PadInv, EncodeControl
  PROVE  PadInv'
<1> USE DEF PadInv
<1> DEFINE asked == Least(ControlMax + 3, Recovered \div Unit)
<1>1. /\ now' = now /\ mark' = mark /\ controlLast' = now /\ data' = data
      /\ spentData' = spentData /\ payload' = payload
  BY DEF EncodeControl
<1>2. PICK extra \in Extra(ControlMax, Shaped(asked)) :
        /\ control' = Greatest(0, Recovered - extra * Unit)
        /\ Spend(extra)
        /\ spentControl' = spentControl + extra
  BY DEF EncodeControl
<1>3. asked \in Nat /\ asked <= Recovered \div Unit /\ Recovered \div Unit \in Nat
  <2>1. Recovered \div Unit \in Nat
    BY RecoveredBounds, PaddingAssumption, SMT
  <2> QED
    BY <2>1, PaddingAssumption
<1>4. Shaped(asked) \in Nat /\ Shaped(asked) <= asked
  BY <1>3, ShapedBounds
<1>5. extra \in Nat /\ (extra = 0 \/ extra <= Shaped(asked))
  BY <1>2, <1>4, PaddingAssumption, ExtraBounded
<1> HIDE DEF asked
<1>6. extra * Unit \in Nat /\ extra * Unit <= Recovered
  <2>1. CASE extra = 0
    BY <2>1, RecoveredBounds, PaddingAssumption, SMT
  <2>2. CASE extra <= Recovered \div Unit
    BY <1>5, <2>2, RecoveredBounds, PaddingAssumption, WholeBytes, Product
  <2> QED
    BY <2>1, <2>2, <1>3, <1>4, <1>5
<1>7. control' = Recovered - extra * Unit
  BY <1>2, <1>6, RecoveredBounds
<1>8. ShapeLedger' /\ tokens' \in 0..(Burst * Unit) /\ shapeLast' \in 0..now
  BY <1>1, <1>2, <1>3, <1>5, PadFacts, SpendKeepsLedger
<1>9. ControlLedger'
  <2>1. ControlInWindow \in Nat /\ ControlInWindow' = ControlInWindow + extra
    BY <1>1, <1>2, <1>5, PadFacts DEF ControlInWindow
  <2>2. control \in Nat
    BY PaddingAssumption, Product DEF BudgetTypes
  <2>3. IF controlLast < mark.time THEN ControlInWindow = 0
        ELSE ControlInWindow * Unit + control
               <= ControlBurst * Unit + ControlRate * (controlLast - mark.time)
    BY DEF ControlLedger
  <2>4. (ControlInWindow + extra) * Unit + (Recovered - extra * Unit)
          <= ControlBurst * Unit + ControlRate * (now - mark.time)
    BY <1>5, <2>1, <2>2, <2>3, PadFacts, RecoveredBounds, PaddingAssumption, Bucket
  <2> QED
    BY <1>1, <1>7, <2>1, <2>4, PadFacts DEF ControlLedger
<1>10. DataLedger'
  BY <1>1 DEF DataLedger
<1>11. BudgetTypes'
  <2>1. mark \in [time : 0..now, data : 0..spentData, control : 0..spentControl']
    BY <1>2, <1>5 DEF BudgetTypes
  <2>2. control' \in 0..(ControlBurst * Unit)
    BY <1>6, <1>7, RecoveredBounds, PaddingAssumption, Product
  <2> QED
    BY <1>1, <1>2, <1>5, <1>8, <2>1, <2>2 DEF BudgetTypes
<1> QED
  BY <1>8, <1>9, <1>10, <1>11

LEMMA ElapseKeeps ==
  ASSUME PadInv, Elapse
  PROVE  PadInv'
<1>1. /\ now' = now + 1
      /\ UNCHANGED <<data, control, controlLast, tokens, shapeLast,
                     spentData, spentControl, payload, mark>>
  BY DEF Elapse
<1>2. BudgetTypes'
  BY <1>1 DEF PadInv, BudgetTypes
<1> QED
  BY <1>1, <1>2 DEF PadInv, ShapeLedger, ControlLedger, DataLedger, PaddingInWindow, ControlInWindow

LEMMA MarkKeeps ==
  ASSUME PadInv, Mark
  PROVE  PadInv'
<1> USE DEF PadInv
<1>1. /\ mark' = [time |-> now, data |-> spentData, control |-> spentControl]
      /\ UNCHANGED <<now, data, control, controlLast, tokens, shapeLast,
                     spentData, spentControl, payload>>
  BY DEF Mark
<1>2. BudgetTypes'
  BY <1>1 DEF BudgetTypes
<1>3. PaddingInWindow' = 0 /\ ControlInWindow' = 0
  BY <1>1, PadFacts DEF PaddingInWindow, ControlInWindow
<1>4. mark'.time = now
  BY <1>1
<1>5. ShapeLedger'
  <2>1. tokens \in 0..(Burst * Unit) /\ Burst * Unit \in Nat
    BY PaddingAssumption, Product DEF BudgetTypes
  <2>2. CASE shapeLast = now
    <3>1. Rate * (now - now) = 0 /\ 0 * Unit = 0
      BY PadFacts, PaddingAssumption, SMT
    <3> QED
      BY <1>1, <1>3, <1>4, <2>1, <2>2, <3>1, PadFacts DEF ShapeLedger
  <2>3. CASE shapeLast < now
    BY <1>1, <1>3, <1>4, <2>3 DEF ShapeLedger
  <2> QED
    BY <2>2, <2>3, PadFacts
<1>6. ControlLedger'
  <2>1. control \in 0..(ControlBurst * Unit) /\ ControlBurst * Unit \in Nat
    BY PaddingAssumption, Product DEF BudgetTypes
  <2>2. CASE controlLast = now
    <3>1. ControlRate * (now - now) = 0 /\ 0 * Unit = 0
      BY PadFacts, PaddingAssumption, SMT
    <3> QED
      BY <1>1, <1>3, <1>4, <2>1, <2>2, <3>1, PadFacts DEF ControlLedger
  <2>3. CASE controlLast < now
    BY <1>1, <1>3, <1>4, <2>3 DEF ControlLedger
  <2> QED
    BY <2>2, <2>3, PadFacts
<1>7. DataLedger'
  BY <1>1 DEF DataLedger
<1> QED
  BY <1>2, <1>5, <1>6, <1>7

LEMMA PadInitially == PadInit => PadInv
<1> SUFFICES ASSUME PadInit PROVE PadInv
  OBVIOUS
<1>1. Burst * Unit \in Nat /\ ControlBurst * Unit \in Nat /\ DataCap * 100 \in Nat
  BY PaddingAssumption, Product
<1>2. BudgetTypes
  BY <1>1 DEF PadInit, BudgetTypes
<1>3. /\ 0 * Unit = 0 /\ Rate * (0 - 0) = 0 /\ ControlRate * (0 - 0) = 0 /\ 0 * Pct = 0
  BY PaddingAssumption, SMT
<1>4. PaddingInWindow = 0 /\ ControlInWindow = 0 /\ mark.time = 0
  BY DEF PadInit, PaddingInWindow, ControlInWindow
<1>5. ShapeLedger /\ ControlLedger
  BY <1>1, <1>3, <1>4 DEF PadInit, ShapeLedger, ControlLedger
<1>6. DataLedger
  BY <1>3 DEF PadInit, DataLedger
<1> QED
  BY <1>2, <1>5, <1>6 DEF PadInv

\* The budgets, clocks and totals keep to their ranges and PadInv holds throughout.
THEOREM PadInvariant == PadSpec => []PadInv
<1>1. PadInit => PadInv
  BY PadInitially
<1>2. PadInv /\ [PadNext]_padVars => PadInv'
  <2> SUFFICES ASSUME PadInv, [PadNext]_padVars PROVE PadInv'
    OBVIOUS
  <2>1. ASSUME NEW amount \in Payloads, NEW maximum \in DataMaxima, EncodeData(amount, maximum)
        PROVE  PadInv'
    BY <2>1, DataKeeps
  <2>2. CASE EncodeControl
    BY <2>2, ControlKeeps
  <2>3. CASE Elapse
    BY <2>3, ElapseKeeps
  <2>4. CASE Mark
    BY <2>4, MarkKeeps
  <2>5. CASE UNCHANGED padVars
    BY <2>5 DEF padVars, PadInv, BudgetTypes, ShapeLedger, ControlLedger, DataLedger,
                PaddingInWindow, ControlInWindow
  <2> QED
    BY <2>1, <2>2, <2>3, <2>4, <2>5 DEF PadNext
<1> QED
  BY <1>1, <1>2, PTL DEF PadSpec

\* A ledger bounds what was spent in the window up to now.
LEMMA LedgerBounds ==
  ASSUME NEW unit \in Nat, NEW burst \in Nat, NEW rate \in Nat,
         NEW held \in Nat, NEW last \in Nat, NEW t \in Nat, NEW m \in Nat, NEW w \in Nat,
         last <= t, m <= t,
         IF last < m THEN w = 0 ELSE w * unit + held <= burst * unit + rate * (last - m)
  PROVE  w * unit <= burst * unit + rate * (t - m)
<1>1. t - m \in Nat /\ rate * (t - m) \in Nat /\ burst * unit \in Nat /\ w * unit \in Nat
  BY Product
<1>2. CASE last < m
  BY <1>1, <1>2, SMT
<1>3. CASE ~(last < m)
  <2>1. rate * (last - m) \in Nat /\ rate * (last - m) <= rate * (t - m)
    BY <1>3, SMT
  <2> QED
    BY <1>1, <1>3, <2>1
<1> QED
  BY <1>2, <1>3

\* Budgets stay within their caps and clocks in the past, for all parameters.
THEOREM BudgetsTyped == PadSpec => []BudgetTypes
<1>1. PadInv => BudgetTypes
  BY DEF PadInv
<1> QED
  BY <1>1, PadInvariant, PTL

\* In every window of time all padding together stays within burst + rate *
\* elapsed, as the comment on ShapeBudget says, whatever mix of data and control
\* records the lanes encode.
THEOREM ShapeCapHolds == PadSpec => []ShapeCap
<1>1. PadInv => ShapeCap
  <2> SUFFICES ASSUME PadInv, Shaping
               PROVE PaddingInWindow * Unit <= Burst * Unit + Rate * (now - mark.time)
    BY DEF ShapeCap, Elapsed
  <2>1. BudgetTypes /\ tokens \in Nat
    BY PaddingAssumption, Product DEF PadInv, BudgetTypes
  <2>2. PaddingInWindow \in Nat
    BY <2>1, PadFacts DEF PaddingInWindow, ControlInWindow
  <2>3. IF shapeLast < mark.time THEN PaddingInWindow = 0
        ELSE PaddingInWindow * Unit + tokens <= Burst * Unit + Rate * (shapeLast - mark.time)
    BY DEF PadInv, ShapeLedger
  <2> QED
    BY <2>1, <2>2, <2>3, PadFacts, PaddingAssumption, LedgerBounds
<1> QED
  BY <1>1, PadInvariant, PTL

\* Data padding never exceeds its percentage of the payload sent.
THEOREM DataShareHolds == PadSpec => []DataShare
<1>1. PadInv => DataShare
  <2> SUFFICES ASSUME PadInv PROVE DataShare
    OBVIOUS
  <2>1. payload * Pct \in Nat /\ data \in Nat /\ spentData \in Nat
    BY PaddingAssumption, Product DEF PadInv, BudgetTypes
  <2> QED
    BY <2>1 DEF PadInv, DataLedger, DataShare
<1> QED
  BY <1>1, PadInvariant, PTL

\* In every window of time control padding stays within its burst and rate.
THEOREM ControlCapHolds == PadSpec => []ControlCap
<1>1. PadInv => ControlCap
  <2> SUFFICES ASSUME PadInv
               PROVE ControlInWindow * Unit
                       <= ControlBurst * Unit + ControlRate * (now - mark.time)
    BY DEF ControlCap, Elapsed
  <2>1. BudgetTypes /\ control \in Nat
    BY PaddingAssumption, Product DEF PadInv, BudgetTypes
  <2>2. ControlInWindow \in Nat
    BY <2>1, PadFacts DEF ControlInWindow
  <2>3. IF controlLast < mark.time THEN ControlInWindow = 0
        ELSE ControlInWindow * Unit + control
               <= ControlBurst * Unit + ControlRate * (controlLast - mark.time)
    BY DEF PadInv, ControlLedger
  <2> QED
    BY <2>1, <2>2, <2>3, PadFacts, PaddingAssumption, LedgerBounds
<1> QED
  BY <1>1, PadInvariant, PTL
=============================================================================
