---------------------------- MODULE AdapterProofs ---------------------------
(***************************************************************************)
(* For every list of addresses, every limit and any number of clients: the *)
(* address being dialled leaves time for the ones after it, and slots and  *)
(* connections are held exactly by the goroutines that run.                *)
(***************************************************************************)
EXTENDS Adapter, FiniteSetTheorems, TLAPS

Pcs == {"free", "backlog", "closed", "resolve", "dial", "tls", "startup", "copy"}

Session == [pc : Pcs, at : Nat, left : Nat, timer : Nat, up : BOOLEAN, down : BOOLEAN]

\* The types the arguments need.
Types ==
  /\ session \in [Conns -> Session]
  /\ slots \in Nat /\ locals \subseteq Conns /\ upstream \subseteq Conns

\* An attempt leaves a tick for every later address.
TimeLeft(s) ==
  s.pc = "dial" => s.at \in 1 .. N /\ s.left - s.timer >= N - s.at

\* A client that waits or is served has a connection.
ClientsOnConns ==
  /\ client \in [Clients -> [st : {"redial", "waiting", "up"}, conn : Conns \cup {None}, timer : Nat, delay : Nat]]
  /\ \A k \in Clients : client[k].st \in {"waiting", "up"} => client[k].conn \in Conns

IInv == Types /\ (\A c \in Conns : TimeLeft(session[c])) /\ NothingLeaks

------------------------------------------------------------------------------
\* An address that gets time at all leaves a tick for each of the others.
LEMMA BudgetLeavesTime ==
  ASSUME NEW left \in Nat, NEW rest \in Nat \ {0}, EdgeBudget(left, rest) > 0
  PROVE  EdgeBudget(left, rest) \in Nat /\ left - EdgeBudget(left, rest) >= rest - 1
<1> DEFINE q == left \div rest
<1>1. q \in Nat /\ q * rest <= left /\ left < (q + 1) * rest
  OBVIOUS
<1>2. q >= 1
  BY <1>1, SelectorAssumption DEF EdgeBudget
<1>3. (q - 1) * (rest - 1) >= 0 /\ (q - 1) * (rest - 1) = q * rest - q - rest + 1
  BY <1>1, <1>2
<1>4. left - q >= rest - 1
  BY <1>1, <1>3
<1>5. PerEdge \in Nat
  BY SelectorAssumption
<1>6. QED BY <1>1, <1>4, <1>5 DEF EdgeBudget

\* Conns is finite, so adding and removing a goroutine counts by one.
LEMMA CountByOne ==
  ASSUME NEW S \in SUBSET Conns, NEW c \in Conns
  PROVE  /\ IsFiniteSet(S) /\ Cardinality(S) \in Nat
         /\ c \notin S => Cardinality(S \cup {c}) = Cardinality(S) + 1
         /\ c \in S => Cardinality(S \ {c}) = Cardinality(S) - 1
<1>1. IsFiniteSet(S)
  BY AdapterAssumption, FS_Subset
<1>2. QED BY <1>1, FS_CardinalityType, FS_AddElement, FS_RemoveElement

\* A step that leaves a goroutine running, or not running, and opens a connection to the CDN only
\* for one that runs.
LEMMA Kept ==
  ASSUME IInv, NEW c \in Conns, NEW r \in Session, session' = [session EXCEPT ![c] = r],
         TimeLeft(r), Running(c) <=> r.pc \notin {"free", "backlog", "closed"},
         slots' = slots, locals' \subseteq locals, upstream' \subseteq upstream \cup {c},
         c \in upstream' => c \in upstream \/ Running(c)
  PROVE  IInv'
<1>1. session' \in [Conns -> Session] /\ session'[c] = r /\ \A d \in Conns \ {c} : session'[d] = session[d]
  BY DEF IInv, Types
<1>2. Types'
  BY <1>1 DEF IInv, Types
<1>3. \A d \in Conns : TimeLeft(session'[d]) /\ (Running(d)' <=> Running(d))
  BY <1>1 DEF IInv, Running
<1>4. {d \in Conns : Running(d)}' = {d \in Conns : Running(d)}
  BY <1>3
<1>5. c \in upstream' => Running(c)
  BY DEF IInv, NothingLeaks
<1>6. \A d \in locals' \cup upstream' : Running(d)'
  BY <1>3, <1>5 DEF IInv, NothingLeaks, Types
<1>7. QED BY <1>2, <1>3, <1>4, <1>6 DEF IInv, NothingLeaks, TimeLeft

\* A goroutine that returns gives up its slot and both connections.
LEMMA Returned ==
  ASSUME IInv, NEW c \in Conns, Running(c), Return(c)
  PROVE  IInv'
<1> DEFINE R == {d \in Conns : Running(d)}
<1>1. session' = [session EXCEPT ![c] = Gone(c)] /\ Gone(c).pc \in {"free", "closed"}
      /\ Gone(c) \in Session
  BY DEF Return, Gone, Idle, Pcs, Session
<1>2. ~Running(c)' /\ \A d \in Conns \ {c} : session'[d] = session[d] /\ (Running(d)' <=> Running(d))
  BY <1>1 DEF Running, IInv, Types
<1>3. {d \in Conns : Running(d)}' = R \ {c} /\ c \in R /\ R \in SUBSET Conns
  BY <1>2
<1>4. slots' = Cardinality({d \in Conns : Running(d)}') /\ slots' \in Nat /\ slots' <= MaxSessions
  <2>1. slots = Cardinality(R) /\ slots <= MaxSessions /\ slots' = slots - 1
    BY DEF IInv, NothingLeaks, Return
  <2>2. Cardinality(R \ {c}) \in Nat
    BY CountByOne
  <2>3. Cardinality(R \ {c}) = Cardinality(R) - 1
    BY <1>3, CountByOne
  <2>4. slots' = Cardinality(R \ {c})
    BY <2>1, <2>3
  <2>5. slots' \in Nat /\ slots' <= MaxSessions
    BY <2>1, <2>2, <2>4, AdapterAssumption DEF IInv, Types
  <2>6. QED BY <1>3, <2>4, <2>5
<1>5. \A d \in locals' \cup upstream' : Running(d)'
  BY <1>2 DEF Return, IInv, NothingLeaks, Types
<1>6. \A d \in Conns : TimeLeft(session'[d])
  BY <1>1, <1>2 DEF IInv, TimeLeft, Types
<1>7. Types'
  BY <1>1, <1>4 DEF IInv, Types, Return
<1>8. QED BY <1>4, <1>5, <1>6, <1>7 DEF IInv, NothingLeaks, TimeLeft

------------------------------------------------------------------------------
LEMMA InitInv == Init => IInv
<1> SUFFICES ASSUME Init PROVE IInv
  OBVIOUS
<1>1. Types
  BY DEF Init, Types, Idle, Pcs, Session
<1>2. \A c \in Conns : TimeLeft(session[c]) /\ ~Running(c)
  BY DEF Init, Idle, TimeLeft, Running
<1>3. {c \in Conns : Running(c)} = {}
  BY <1>2
<1>4. Cardinality({c \in Conns : Running(c)}) = 0
  BY <1>3, FS_EmptySet
<1>5. NothingLeaks
  BY <1>4, AdapterAssumption DEF Init, NothingLeaks
<1>6. QED BY <1>1, <1>2, <1>5 DEF IInv

\* The message and the two copies, or a goroutine that returns.
LEMMA SendReadyInv ==
  ASSUME IInv, NEW c \in Conns, Running(c), SendReady(c)
  PROVE  IInv'
<1>1. CASE c \in held
  <2> DEFINE r == [session[c] EXCEPT !.pc = "copy", !.at = 0, !.timer = 0, !.up = TRUE, !.down = TRUE]
  <2>1. session[c] \in Session
    BY DEF IInv, Types
  <2>2. r \in Session /\ r.pc = "copy"
    BY <2>1 DEF Session, Pcs
  <2>3. session' = [session EXCEPT ![c] = r]
    BY <1>1 DEF SendReady
  <2>4. slots' = slots /\ locals' = locals /\ upstream' = upstream
    BY <1>1 DEF SendReady
  <2> HIDE DEF r
  <2>5. TimeLeft(r)
    BY <2>2 DEF TimeLeft
  <2>6. QED BY <2>2, <2>3, <2>4, <2>5, Kept
<1>2. CASE c \notin held
  BY <1>2, Returned DEF SendReady
<1>3. QED BY <1>1, <1>2

\* The steps of one goroutine up to the copies.
LEMMA DiallingInv ==
  ASSUME IInv, NEW c \in Conns,
         Resolved(c) \/ ResolveFails(c) \/ Dialled(c) \/ DialFails(c) \/ Verified(c) \/ TlsFails(c) \/ StartupDone(c)
  PROVE  IInv'
<1> USE SelectorAssumption
<1>1. Running(c)
  BY DEF Resolved, ResolveFails, Dialled, DialFails, Verified, TlsFails, StartupDone, Running
<1>2. session[c] \in Session /\ TimeLeft(session[c])
  BY DEF IInv, Types
<1>3. session[c].left \in Nat /\ session[c].timer \in Nat /\ session[c].at \in Nat
  BY <1>2 DEF Session
<1>4. CASE Resolved(c)
  <2> DEFINE b == EdgeBudget(session[c].left, N)
             r == [session[c] EXCEPT !.pc = "dial", !.at = 1, !.timer = b]
  <2>1. CASE b > 0
    <3>1. b \in Nat /\ session[c].left - b >= N - 1
      BY <1>3, <2>1, BudgetLeavesTime
    <3>2. session' = [session EXCEPT ![c] = r]
      BY <1>4, <2>1 DEF Resolved
    <3>3. slots' = slots /\ locals' = locals /\ upstream' = upstream
      BY <1>4, <2>1 DEF Resolved
    <3> HIDE DEF b
    <3>4. r \in Session /\ r.pc = "dial" /\ r.at = 1 /\ r.timer = b /\ r.left = session[c].left
      BY <1>2, <3>1 DEF Session, Pcs
    <3> HIDE DEF r
    <3>5. TimeLeft(r)
      BY <3>1, <3>4 DEF TimeLeft
    <3>6. QED BY <1>1, <3>2, <3>3, <3>4, <3>5, Kept
  <2>2. CASE ~(b > 0)
    BY <1>1, <1>4, <2>2, Returned DEF Resolved
  <2>3. QED BY <2>1, <2>2
<1>5. CASE ResolveFails(c)
  BY <1>1, <1>5, Returned DEF ResolveFails
<1>6. CASE Dialled(c)
  <2> DEFINE r == [session[c] EXCEPT !.pc = "tls", !.left = 0, !.timer = Timeout]
  <2>1. session' = [session EXCEPT ![c] = r]
    BY <1>6 DEF Dialled
  <2>2. slots' = slots /\ locals' = locals /\ upstream' = upstream \cup {c}
    BY <1>6 DEF Dialled
  <2>3. r \in Session /\ r.pc = "tls"
    BY <1>2, AdapterAssumption DEF Session, Pcs
  <2> HIDE DEF r
  <2>4. TimeLeft(r)
    BY <2>3 DEF TimeLeft
  <2>5. QED BY <1>1, <2>1, <2>2, <2>3, <2>4, Kept
<1>7. CASE DialFails(c)
  <2> DEFINE next == session[c].at + 1
             b == EdgeBudget(session[c].left, N - next + 1)
             r == [session[c] EXCEPT !.at = next, !.timer = b]
  <2>1. CASE next <= N /\ b > 0
    <3>1. /\ session[c].pc = "dial"
          /\ session[c].at \in 1 .. N /\ session[c].left - session[c].timer >= N - session[c].at
      BY <1>2, <1>7 DEF DialFails, TimeLeft
    <3>2. N - next + 1 \in Nat \ {0} /\ next \in 1 .. N
      BY <1>3, <2>1, <3>1
    <3>3. b \in Nat /\ session[c].left - b >= N - next
      <4>1. b \in Nat /\ session[c].left - b >= (N - next + 1) - 1
        BY <1>3, <2>1, <3>2, BudgetLeavesTime
      <4>2. QED BY <1>3, <3>2, <4>1
    <3>4. session' = [session EXCEPT ![c] = r]
      BY <1>7, <2>1 DEF DialFails
    <3>5. slots' = slots /\ locals' = locals /\ upstream' = upstream
      BY <1>7, <2>1 DEF DialFails
    <3> HIDE DEF next, b
    <3>6. r \in Session /\ r.pc = "dial" /\ r.at = next /\ r.timer = b /\ r.left = session[c].left
      <4>1. next \in Nat
        BY <3>2
      <4>2. QED BY <1>2, <3>1, <3>3, <4>1 DEF Session
    <3> HIDE DEF r
    <3>7. TimeLeft(r)
      BY <3>2, <3>3, <3>6 DEF TimeLeft
    <3>8. QED BY <1>1, <3>4, <3>5, <3>6, <3>7, Kept
  <2>2. CASE ~(next <= N /\ b > 0)
    BY <1>1, <1>7, <2>2, Returned DEF DialFails
  <2>3. QED BY <2>1, <2>2
<1>8. CASE Verified(c)
  <2>1. CASE SendReady(c)
    BY <1>1, <2>1, SendReadyInv
  <2>2. CASE ~SendReady(c)
    <3> DEFINE r == [session[c] EXCEPT !.pc = "startup", !.timer = StartupLimit]
    <3>1. session' = [session EXCEPT ![c] = r]
      BY <1>8, <2>2 DEF Verified
    <3>2. slots' = slots /\ locals' = locals /\ upstream' = upstream
      BY <1>8, <2>2 DEF Verified
    <3>3. r \in Session /\ r.pc = "startup"
      BY <1>2, AdapterAssumption DEF Session, Pcs
    <3> HIDE DEF r
    <3>4. TimeLeft(r)
      BY <3>3 DEF TimeLeft
    <3>5. QED BY <1>1, <3>1, <3>2, <3>3, <3>4, Kept
  <2>3. QED BY <2>1, <2>2
<1>9. CASE TlsFails(c)
  BY <1>1, <1>9, Returned DEF TlsFails
<1>10. CASE StartupDone(c)
  BY <1>1, <1>10, SendReadyInv, Returned DEF StartupDone
<1>11. QED BY <1>4, <1>5, <1>6, <1>7, <1>8, <1>9, <1>10

\* A slot is taken, or the connection is turned away.
LEMMA AcceptInv ==
  ASSUME IInv, NEW c \in Conns, Accept(c)
  PROVE  IInv'
<1> DEFINE R == {d \in Conns : Running(d)}
<1>1. session[c] \in Session /\ session[c].pc = "backlog" /\ ~Running(c)
  BY DEF IInv, Types, Accept, Running
<1>2. CASE slots < MaxSessions
  <2> DEFINE r == [session[c] EXCEPT !.pc = "resolve", !.left = Timeout, !.timer = Least(DnsLimit, Timeout)]
  <2>1. session' = [session EXCEPT ![c] = r]
    BY <1>2 DEF Accept
  <2>2. slots' = slots + 1 /\ locals' = locals \cup {c} /\ upstream' = upstream
    BY <1>2 DEF Accept
  <2>3. r \in Session /\ r.pc = "resolve"
    BY <1>1, AdapterAssumption DEF Session, Pcs, Least
  <2> HIDE DEF r
  <2>4. TimeLeft(r)
    BY <2>3 DEF TimeLeft
  <2>5. session' \in [Conns -> Session] /\ session'[c] = r /\ \A d \in Conns \ {c} : session'[d] = session[d]
    BY <2>1, <2>3 DEF IInv, Types
  <2>6. Running(c)' /\ \A d \in Conns \ {c} : Running(d)' <=> Running(d)
    BY <2>3, <2>5 DEF Running
  <2>7. {d \in Conns : Running(d)}' = R \cup {c} /\ c \notin R /\ R \in SUBSET Conns
    BY <1>1, <2>6
  <2>8. Cardinality(R \cup {c}) = Cardinality(R) + 1
    BY <2>7, CountByOne
  <2>9. slots \in Nat /\ slots = Cardinality(R)
    BY DEF IInv, Types, NothingLeaks
  <2>10. slots' = Cardinality(R \cup {c}) /\ slots' \in Nat /\ slots' <= MaxSessions
    BY <1>2, <2>2, <2>8, <2>9, AdapterAssumption
  <2>11. \A d \in locals' \cup upstream' : Running(d)'
    BY <2>2, <2>6 DEF IInv, NothingLeaks, Types
  <2>12. \A d \in Conns : TimeLeft(session'[d])
    BY <2>4, <2>5 DEF IInv
  <2>13. Types'
    BY <2>2, <2>5, <2>10 DEF IInv, Types
  <2>14. NothingLeaks'
    BY <2>7, <2>10, <2>11 DEF NothingLeaks
  <2>15. QED BY <2>12, <2>13, <2>14 DEF IInv, TimeLeft
<1>3. CASE ~(slots < MaxSessions)
  <2>1. session' = [session EXCEPT ![c] = Gone(c)] /\ slots' = slots /\ locals' = locals /\ upstream' = upstream
    BY <1>3 DEF Accept
  <2>2. Gone(c) \in Session /\ Gone(c).pc \in {"free", "closed"}
    BY DEF Gone, Idle, Session, Pcs
  <2>3. TimeLeft(Gone(c))
    BY <2>2 DEF TimeLeft
  <2>4. QED BY <1>1, <2>1, <2>2, <2>3, Kept
<1>4. QED BY <1>2, <1>3

\* The end of a direction, the end of both, and a connection that stalls and resumes.
LEMMA CopyInv ==
  ASSUME IInv, NEW c \in Conns, UpEnds(c) \/ DownEnds(c) \/ CopyDone(c) \/ Stalls(c) \/ Resumes(c)
  PROVE  IInv'
<1>1. session[c] \in Session /\ TimeLeft(session[c])
  BY DEF IInv, Types
<1>2. CASE UpEnds(c)
  <2> DEFINE r == [session[c] EXCEPT !.up = FALSE]
  <2>1. session' = [session EXCEPT ![c] = r]
    BY <1>2 DEF UpEnds
  <2>2. slots' = slots /\ locals' \subseteq locals /\ upstream' \subseteq upstream /\ session[c].pc = "copy"
    BY <1>2 DEF UpEnds, Shutdown
  <2>3. r \in Session /\ r.pc = "copy"
    BY <1>1, <2>2 DEF Session
  <2> HIDE DEF r
  <2>4. TimeLeft(r) /\ Running(c)
    BY <2>2, <2>3 DEF TimeLeft, Running
  <2>5. QED BY <2>1, <2>2, <2>3, <2>4, Kept
<1>3. CASE DownEnds(c)
  <2> DEFINE r == [session[c] EXCEPT !.down = FALSE]
  <2>1. session' = [session EXCEPT ![c] = r]
    BY <1>3 DEF DownEnds
  <2>2. slots' = slots /\ locals' \subseteq locals /\ upstream' \subseteq upstream /\ session[c].pc = "copy"
    BY <1>3 DEF DownEnds, Shutdown
  <2>3. r \in Session /\ r.pc = "copy"
    BY <1>1, <2>2 DEF Session
  <2> HIDE DEF r
  <2>4. TimeLeft(r) /\ Running(c)
    BY <2>2, <2>3 DEF TimeLeft, Running
  <2>5. QED BY <2>1, <2>2, <2>3, <2>4, Kept
<1>4. CASE CopyDone(c)
  <2>1. Running(c) /\ Return(c)
    BY <1>4 DEF CopyDone, Running
  <2>2. QED BY <2>1, Returned
<1>5. CASE Stalls(c) \/ Resumes(c)
  BY <1>5 DEF Stalls, Resumes, IInv, Types, TimeLeft, NothingLeaks, Running
<1>6. QED BY <1>2, <1>3, <1>4, <1>5

\* The steps of a client: connecting and leaving change no goroutine that runs.
LEMMA ClientInv ==
  ASSUME IInv, NEW k \in Clients, ClientsOnConns, Ready(k) \/ Leave(k) \/ ConnectFails(k) \/ \E c \in Conns : Connect(k, c)
  PROVE  IInv'
<1>1. CASE Ready(k)
  BY <1>1 DEF Ready, IInv, Types, TimeLeft, NothingLeaks, Running
<1>2. CASE Leave(k)
  <2> DEFINE c == client[k].conn
             r == [session[c] EXCEPT !.pc = IF @ = "closed" THEN "free" ELSE @]
  <2>1. c \in Conns
    BY <1>2 DEF Leave, ClientsOnConns
  <2>2. session' = [session EXCEPT ![c] = r]
    BY <1>2 DEF Leave
  <2>3. slots' = slots /\ locals' = locals /\ upstream' = upstream
    BY <1>2 DEF Leave
  <2>4. session[c] \in Session /\ TimeLeft(session[c])
    BY <2>1 DEF IInv, Types
  <2> HIDE DEF c
  <2>5. CASE session[c].pc = "closed"
    <3>1. r \in Session /\ r.pc = "free" /\ ~Running(c)
      BY <2>4, <2>5 DEF Session, Pcs, Running
    <3>2. TimeLeft(r)
      BY <3>1 DEF TimeLeft
    <3> HIDE DEF r
    <3>3. QED BY <2>1, <2>2, <2>3, <3>1, <3>2, Kept
  <2>6. CASE session[c].pc # "closed"
    <3>1. r = session[c]
      BY <2>4, <2>6 DEF Session
    <3> HIDE DEF r
    <3>2. Running(c) <=> r.pc \notin {"free", "backlog", "closed"}
      BY <3>1 DEF Running
    <3>3. QED BY <2>1, <2>2, <2>3, <2>4, <3>1, <3>2, Kept
  <2>7. QED BY <2>5, <2>6
<1>3. ASSUME NEW c \in Conns, Connect(k, c)
      PROVE  IInv'
  <2> DEFINE r == [session[c] EXCEPT !.pc = "backlog"]
  <2>1. session' = [session EXCEPT ![c] = r]
    BY <1>3 DEF Connect
  <2>2. slots' = slots /\ locals' = locals /\ upstream' = upstream /\ ~Running(c)
    BY <1>3 DEF Connect, Running
  <2>3. session[c] \in Session
    BY DEF IInv, Types
  <2>4. r \in Session /\ r.pc = "backlog"
    BY <2>3 DEF Session, Pcs
  <2> HIDE DEF r
  <2>5. TimeLeft(r)
    BY <2>4 DEF TimeLeft
  <2>6. QED BY <2>1, <2>2, <2>4, <2>5, Kept
<1>4. CASE ConnectFails(k)
  BY <1>4 DEF ConnectFails, IInv, Types, TimeLeft, NothingLeaks, Running
<1>5. QED BY <1>1, <1>2, <1>3, <1>4

\* Time passes only while the deadline of every attempt lies ahead.
LEMMA TickInv ==
  ASSUME IInv, Tick
  PROVE  IInv'
<1> DEFINE r(c) == [session[c] EXCEPT !.left = Less(@), !.timer = Less(@)]
<1>1. session' = [c \in Conns |-> r(c)] /\ slots' = slots /\ locals' = locals /\ upstream' = upstream
  BY DEF Tick
<1>2. ASSUME NEW c \in Conns
      PROVE  r(c) \in Session /\ r(c).pc = session[c].pc /\ TimeLeft(r(c))
  <2>1. session[c] \in Session /\ TimeLeft(session[c])
    BY DEF IInv, Types
  <2>2. session[c].left \in Nat /\ session[c].timer \in Nat /\ session[c].at \in Nat
    BY <2>1 DEF Session
  <2>3. Less(session[c].left) \in Nat /\ Less(session[c].timer) \in Nat
    BY <2>2 DEF Less
  <2>4. r(c) \in Session /\ r(c).pc = session[c].pc /\ r(c).at = session[c].at
        /\ r(c).left = Less(session[c].left) /\ r(c).timer = Less(session[c].timer)
    BY <2>1, <2>3 DEF Session
  <2>5. session[c].pc = "dial" => session[c].timer # 0
    BY DEF Tick, Due
  <2> HIDE DEF r
  <2>6. TimeLeft(r(c))
    <3>1. CASE session[c].pc = "dial"
      <4>1. N \in Nat
        BY SelectorAssumption
      <4>2. session[c].left >= session[c].timer
        BY <2>1, <2>2, <3>1, <4>1 DEF TimeLeft
      <4>3. r(c).left = session[c].left - 1 /\ r(c).timer = session[c].timer - 1
        BY <2>2, <2>4, <2>5, <3>1, <4>2 DEF Less
      <4>4. QED BY <2>1, <2>2, <2>4, <4>1, <4>3 DEF TimeLeft
    <3>2. CASE session[c].pc # "dial"
      BY <2>4, <3>2 DEF TimeLeft
    <3>3. QED BY <3>1, <3>2
  <2>7. QED BY <2>4, <2>6
<1> HIDE DEF r
<1>3. session' \in [Conns -> Session] /\ \A c \in Conns : session'[c] = r(c)
  BY <1>1, <1>2
<1>4. \A c \in Conns : TimeLeft(session'[c]) /\ (Running(c)' <=> Running(c))
  BY <1>2, <1>3 DEF Running
<1>5. {c \in Conns : Running(c)}' = {c \in Conns : Running(c)}
  BY <1>4
<1>6. \A c \in locals' \cup upstream' : Running(c)'
  BY <1>1, <1>4 DEF IInv, NothingLeaks, Types
<1>7. Types'
  BY <1>1, <1>3 DEF IInv, Types
<1>8. QED BY <1>1, <1>4, <1>5, <1>6, <1>7 DEF IInv, NothingLeaks, TimeLeft

\* A new process has no goroutine.
LEMMA CrashInv ==
  ASSUME IInv, Crash
  PROVE  IInv'
<1>1. session' = [c \in Conns |-> Gone(c)] /\ slots' = 0 /\ locals' = {} /\ upstream' = {}
  BY DEF Crash
<1>2. \A c \in Conns : Gone(c) \in Session /\ Gone(c).pc \in {"free", "closed"}
  BY DEF Gone, Idle, Session, Pcs
<1>3. Types' /\ \A c \in Conns : session'[c] = Gone(c)
  BY <1>1, <1>2 DEF Types
<1>4. \A c \in Conns : TimeLeft(session'[c]) /\ ~Running(c)'
  BY <1>2, <1>3 DEF TimeLeft, Running
<1>5. {c \in Conns : Running(c)}' = {}
  BY <1>4
<1>6. NothingLeaks'
  BY <1>1, <1>5, FS_EmptySet, AdapterAssumption DEF NothingLeaks
<1>7. QED BY <1>3, <1>4, <1>6 DEF IInv, TimeLeft

\* Clients keep to their connections.
LEMMA ClientsInv ==
  ASSUME ClientsOnConns, [Next]_vars
  PROVE  ClientsOnConns'
<1> DEFINE Client == [st : {"redial", "waiting", "up"}, conn : Conns \cup {None}, timer : Nat, delay : Nat]
<1>1. ASSUME NEW k \in Clients, NEW c \in Conns, Connect(k, c)
      PROVE  ClientsOnConns'
  BY <1>1, AdapterAssumption DEF Connect, ClientsOnConns
<1>2. ASSUME NEW k \in Clients, Ready(k)
      PROVE  ClientsOnConns'
  BY <1>2 DEF Ready, ClientsOnConns
<1>3. ASSUME NEW k \in Clients, NEW delay \in Nat, Redial(k, delay)
      PROVE  ClientsOnConns'
  <2>1. PICK pause \in Jittered(delay) :
          client' = [client EXCEPT ![k] = [st |-> "redial", conn |-> None, timer |-> pause,
                                           delay |-> Least(delay * 2, DelayMax)]]
    BY <1>3 DEF Redial
  <2>2. delay * 2 \in Nat
    OBVIOUS
  <2>3. pause \in Nat
    <3>1. PICK d \in Int : pause = IF d > 1 THEN d ELSE 1
      <4>1. (delay * Jitter) \div 100 \in Int
        BY AdapterAssumption
      <4>2. QED BY <4>1 DEF Jittered
    <3>2. QED BY <3>1
  <2>4. Least(delay * 2, DelayMax) \in Nat
    BY <2>2, AdapterAssumption DEF Least
  <2>5. QED BY <2>1, <2>3, <2>4 DEF ClientsOnConns
<1>4. CASE Tick
  <2>1. \A k \in Clients : /\ [client[k] EXCEPT !.timer = Less(@)] \in Client
                           /\ [client[k] EXCEPT !.timer = Less(@)].st = client[k].st
                           /\ [client[k] EXCEPT !.timer = Less(@)].conn = client[k].conn
    BY DEF ClientsOnConns, Less
  <2>2. client' = [k \in Clients |-> [client[k] EXCEPT !.timer = Less(@)]]
    BY <1>4 DEF Tick
  <2>3. QED BY <2>1, <2>2 DEF ClientsOnConns
<1>5. CASE UNCHANGED client
  BY <1>5 DEF ClientsOnConns
<1>6. ASSUME NEW k \in Clients, Leave(k) \/ ConnectFails(k)
      PROVE  ClientsOnConns'
  <2>1. client[k].delay \in Nat /\ DelayInitial \in Nat
    BY AdapterAssumption DEF ClientsOnConns
  <2>2. QED BY <1>3, <1>6, <2>1 DEF Leave, ConnectFails
<1>7. QED BY <1>1, <1>2, <1>4, <1>5, <1>6
          DEF Next, vars, Accept, Resolved, ResolveFails, Dialled, DialFails, Verified, TlsFails, StartupDone,
              UpEnds, DownEnds, CopyDone, Stalls, Resumes, EdgeChanges, Crash

LEMMA StepInv ==
  ASSUME IInv, ClientsOnConns, [Next]_vars
  PROVE  IInv'
<1>1. CASE EdgeChanges \/ UNCHANGED vars
  BY <1>1 DEF EdgeChanges, vars, IInv, Types, TimeLeft, NothingLeaks, Running
<1>2. QED BY <1>1, AcceptInv, DiallingInv, CopyInv, ClientInv, TickInv, CrashInv DEF Next

LEMMA Invariant == Spec => [](IInv /\ ClientsOnConns)
<1>1. Init => ClientsOnConns
  BY AdapterAssumption DEF Init, ClientsOnConns
<1>2. QED BY <1>1, InitInv, StepInv, ClientsInv, PTL DEF Spec

------------------------------------------------------------------------------
\* edgeBudget: whatever a lookup and the addresses tried so far have cost, the address being
\* dialled leaves a tick for each one after it, for every list of addresses and every limit.
THEOREM EveryEdgeIsGivenTime == Spec => []EveryEdgeHasTime
<1>1. IInv => EveryEdgeHasTime
  BY DEF IInv, TimeLeft, EveryEdgeHasTime
<1>2. QED BY <1>1, Invariant, PTL

\* The slots taken are the goroutines running, and no connection outlives its goroutine, for any
\* number of slots, clients and connections and on every early return.
THEOREM NothingIsLeaked == Spec => []NothingLeaks
<1>1. IInv => NothingLeaks
  BY DEF IInv
<1>2. QED BY <1>1, Invariant, PTL
=============================================================================
