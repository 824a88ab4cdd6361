------------------------------ MODULE WsProofs ------------------------------
(***************************************************************************)
(* For every frame size, queue limit, socket size and number of messages:  *)
(* the accounting of the frame queue is exact and the stall clock runs     *)
(* exactly while something is left to write; the messages come out as they *)
(* went in; and a close or an end is only seen after all of them.          *)
(***************************************************************************)
EXTENDS WsSession, WellFoundedInduction, TLAPS

Ops == {"binary", "continuation", "ping", "pong", "close"}
Frames == [op : Ops, id : Nat, len : Nat, fin : BOOLEAN, have : Nat, cut : BOOLEAN]

\* The types of what is queued and written.
SendTypes ==
  /\ tx \in [Ends -> Seq(Frames)] /\ wire \in [Ends -> Seq(Frames)]
  /\ queued \in [Ends -> Int] /\ since \in [Ends -> Nat]
  /\ unread \in [Ends -> Nat] /\ sent \in [Ends -> Nat] /\ pings \in Nat

SendInv == SendTypes /\ TxExact

------------------------------------------------------------------------------
\* Every set of natural numbers has a least element.
LEMMA LeastNat ==
  ASSUME NEW T, T \subseteq Nat, T # {}
  PROVE  \E x \in T : \A y \in T : x <= y
<1> DEFINE R == OpToRel(<, Nat)
<1>1. IsWellFoundedOn(R, Nat)
  BY NatLessThanWellFounded
<1>2. \A x, y \in Nat : <<y, x>> \in R <=> y < x
  BY DEF OpToRel
<1> HIDE DEF R
<1>3. \E x \in T : \A y \in T : ~(<<y, x>> \in R)
  BY <1>1, WFMin
<1>4. PICK x \in T : \A y \in T : ~(<<y, x>> \in R)
  BY <1>3
<1>5. \A y \in T : ~(y < x)
  BY <1>2, <1>4
<1>6. \A y \in T : x <= y
  BY <1>5
<1>7. QED BY <1>6

\* Induction, for a set instead of a predicate.
LEMMA Induction ==
  ASSUME NEW S, 0 \in S, \A n \in Nat : n \in S => n + 1 \in S
  PROVE  Nat \subseteq S
<1> SUFFICES ASSUME Nat \ S # {} PROVE FALSE
  OBVIOUS
<1>1. PICK x \in Nat \ S : \A y \in Nat \ S : x <= y
  BY LeastNat
<1>2. x # 0 /\ x - 1 \in Nat /\ x - 1 \in S
  BY <1>1
<1>3. QED BY <1>1, <1>2

\* What a recursive definition needs: for every start and every step there is a
\* function on 0..N that follows them.
Follows(g, N, A, a, step) ==
  g \in [0..N -> A] /\ g[0] = a /\ \A m \in 1..N : g[m] = step[<<g[m - 1], m>>]

LEMMA Recursion ==
  ASSUME NEW N \in Nat, NEW A, NEW a \in A, NEW step \in [A \X (1..N) -> A]
  PROVE  \E g : Follows(g, N, A, a, step)
<1> DEFINE Part(g, n) == g[0] = a /\ \A m \in 1..n : g[m] = step[<<g[m - 1], m>>]
           Made == {n \in Nat : n <= N => \E g \in [0..n -> A] : Part(g, n)}
<1>1. 0 \in Made
  <2>1. [m \in 0..0 |-> a] \in [0..0 -> A] /\ Part([m \in 0..0 |-> a], 0)
    OBVIOUS
  <2>2. QED BY <2>1
<1>2. ASSUME NEW n \in Nat, n \in Made PROVE n + 1 \in Made
  <2>1. SUFFICES ASSUME n + 1 <= N PROVE \E g \in [0..(n + 1) -> A] : Part(g, n + 1)
    OBVIOUS
  <2>2. n <= N /\ n + 1 \in 1..N
    BY <2>1
  <2>3. PICK g \in [0..n -> A] : Part(g, n)
    BY <1>2, <2>2
  <2> DEFINE h == [m \in 0..(n + 1) |-> IF m <= n THEN g[m] ELSE step[<<g[n], n + 1>>]]
  <2>4. h \in [0..(n + 1) -> A]
    BY <2>2
  <2>5. h[0] = a
    BY <2>3
  <2>6. ASSUME NEW m \in 1..(n + 1) PROVE h[m] = step[<<h[m - 1], m>>]
    <3>1. m - 1 \in 0..n /\ h[m - 1] = g[m - 1]
      OBVIOUS
    <3>2. CASE m <= n
      BY <2>3, <3>1, <3>2
    <3>3. CASE m = n + 1
      <4>1. m - 1 = n /\ h[m] = step[<<g[n], n + 1>>]
        BY <3>3
      <4>2. QED BY <3>1, <3>3, <4>1
    <3>4. QED BY <3>2, <3>3
  <2>7. Part(h, n + 1)
    BY <2>5, <2>6
  <2> HIDE DEF h, Part
  <2>8. QED BY <2>4, <2>7
<1>3. \A n \in Nat : n \in Made => n + 1 \in Made
  <2> HIDE DEF Made
  <2> QED BY <1>2
<1>4. N \in Made
  <2> HIDE DEF Made
  <2> QED BY <1>1, <1>3, Induction
<1>5. QED BY <1>4 DEF Follows

------------------------------------------------------------------------------
\* What is left of a queue to write, as sums of its beginnings.
Weight(f) == Size(f) - f.have
Sums(g, s) ==
  /\ g \in [0..Len(s) -> Int] /\ g[0] = 0
  /\ \A m \in 1..Len(s) : g[m] = g[m - 1] + Weight(s[m])

LEMMA FrameTypes ==
  ASSUME NEW f \in Frames
  PROVE  Size(f) \in Nat /\ Size(f) > 0 /\ Weight(f) \in Int
BY DEF Frames, Size, Weight

LEMMA SumsExist ==
  ASSUME NEW s \in Seq(Frames)
  PROVE  \E g : Sums(g, s) /\ Left(s) = g[Len(s)]
<1> DEFINE N == Len(s)
           Def(f) == [n \in 0..N |-> IF n = 0 THEN 0 ELSE f[n - 1] + Size(s[n]) - s[n].have]
           left == CHOOSE f : f = Def(f)
<1>0. N \in Nat /\ \A n \in 1..N : s[n] \in Frames /\ Size(s[n]) \in Int /\ s[n].have \in Int
  <2>1. N \in Nat /\ \A n \in 1..N : s[n] \in Frames
    OBVIOUS
  <2>2. \A f \in Frames : Size(f) \in Int /\ f.have \in Int
    BY DEF Frames, Size
  <2>3. QED BY <2>1, <2>2
<1>1. Left(s) = left[N]
  BY DEF Left
<1> DEFINE A == Int
           a == 0
           step == [x \in A \X (1..N) |-> x[1] + Size(s[x[2]]) - s[x[2]].have]
<1>2. a \in A /\ step \in [A \X (1..N) -> A]
  BY <1>0
<1>3. \A t \in Int, m \in 1..N : step[<<t, m>>] = t + Size(s[m]) - s[m].have
  OBVIOUS
<1> HIDE DEF step, N, A, a
<1>4. \E g : Follows(g, N, A, a, step)
  <2>1. N \in Nat
    BY <1>0
  <2>2. a \in A
    BY <1>2
  <2>3. step \in [A \X (1..N) -> A]
    BY <1>2
  <2>4. QED BY <2>1, <2>2, <2>3, Recursion, Zenon
<1>5. PICK g \in [0..N -> Int] : g[0] = 0 /\ \A m \in 1..N : g[m] = step[<<g[m - 1], m>>]
  BY <1>4 DEF A, a, Follows
<1>6. \A m \in 1..N : m - 1 \in 0..N /\ g[m - 1] \in Int
  BY <1>0
<1>7. \A m \in 1..N : g[m] = g[m - 1] + Size(s[m]) - s[m].have
  BY <1>3, <1>5, <1>6
<1>8. \A n \in 0..N : g[n] = IF n = 0 THEN 0 ELSE g[n - 1] + Size(s[n]) - s[n].have
  <2>1. \A n \in 0..N : n = 0 \/ n \in 1..N
    BY <1>0
  <2>2. \A n \in 1..N : n # 0
    BY <1>0
  <2>3. QED BY <1>5, <1>7, <2>1, <2>2, Zenon
<1>9. g = Def(g)
  BY <1>8
<1>10. left = Def(left)
  BY <1>9
<1> HIDE DEF left
<1>11. left[0] = 0
  BY <1>0, <1>10
<1>12. \A n \in 1..N : left[n] = left[n - 1] + Size(s[n]) - s[n].have
  <2>1. \A n \in 1..N : n \in 0..N /\ n # 0
    BY <1>0
  <2>2. \A n \in 0..N : left[n] = Def(left)[n]
    BY <1>10, Zenon
  <2>3. QED BY <2>1, <2>2, Zenon
<1> DEFINE Good == {n \in Nat : n <= N => left[n] = g[n]}
<1>13. N \in Good
  <2>1. 0 \in Good
    BY <1>5, <1>11
  <2>2. ASSUME NEW n \in Nat, n \in Good PROVE n + 1 \in Good
    <3>1. SUFFICES ASSUME n + 1 <= N PROVE left[n + 1] = g[n + 1]
      OBVIOUS
    <3>2. n + 1 \in 1..N /\ left[n] = g[n] /\ (n + 1) - 1 = n
      BY <1>0, <2>2, <3>1
    <3>3. QED BY <1>7, <1>12, <3>2
  <2>3. \A n \in Nat : n \in Good => n + 1 \in Good
    <3> HIDE DEF Good
    <3> QED BY <2>2
  <2> HIDE DEF Good
  <2>4. QED BY <1>0, <2>1, <2>3, Induction
<1>14. left[N] = g[N]
  BY <1>0, <1>13
<1>15. \A m \in 1..N : g[m] = g[m - 1] + Weight(s[m])
  BY <1>0, <1>6, <1>7 DEF Weight
<1>16. Sums(g, s)
  BY <1>5, <1>15 DEF Sums, N
<1>17. QED BY <1>1, <1>14, <1>16 DEF N

\* The sums are determined by the queue.
LEMMA SumsUnique ==
  ASSUME NEW s \in Seq(Frames), NEW g, Sums(g, s)
  PROVE  Left(s) = g[Len(s)]
<1>1. PICK f : Sums(f, s) /\ Left(s) = f[Len(s)]
  BY SumsExist
<1> DEFINE N == Len(s)
           Good == {n \in Nat : n <= N => f[n] = g[n]}
<1>2. N \in Nat
  OBVIOUS
<1>3. /\ f[0] = 0 /\ \A m \in 1..N : f[m] = f[m - 1] + Weight(s[m])
      /\ g[0] = 0 /\ \A m \in 1..N : g[m] = g[m - 1] + Weight(s[m])
  BY <1>1 DEF Sums
<1> HIDE DEF N
<1>4. N \in Good
  <2>1. 0 \in Good
    BY <1>3
  <2>2. ASSUME NEW n \in Nat, n \in Good PROVE n + 1 \in Good
    <3>1. SUFFICES ASSUME n + 1 <= N PROVE f[n + 1] = g[n + 1]
      OBVIOUS
    <3>2. n + 1 \in 1..N /\ f[n] = g[n] /\ (n + 1) - 1 = n
      BY <1>2, <2>2, <3>1
    <3>3. QED BY <1>3, <3>2
  <2>3. \A n \in Nat : n \in Good => n + 1 \in Good
    <3> HIDE DEF Good
    <3> QED BY <2>2
  <2> HIDE DEF Good
  <2>4. QED BY <1>2, <2>1, <2>3, Induction
<1>5. QED BY <1>1, <1>2, <1>4 DEF N

LEMMA LeftEmpty == Left(<<>>) = 0
<1> DEFINE s == <<>>
<1>1. s \in Seq(Frames) /\ Len(s) = 0
  OBVIOUS
<1> HIDE DEF s
<1>2. PICK g : Sums(g, s) /\ Left(s) = g[Len(s)]
  BY <1>1, SumsExist
<1>3. QED BY <1>1, <1>2 DEF Sums, s

LEMMA LeftAppend ==
  ASSUME NEW s \in Seq(Frames), NEW f \in Frames
  PROVE  Left(Append(s, f)) = Left(s) + Weight(f) /\ Left(s) \in Int
<1>1. PICK g : Sums(g, s) /\ Left(s) = g[Len(s)]
  BY SumsExist
<1> DEFINE N == Len(s)
           t == Append(s, f)
           h == [m \in 0..(N + 1) |-> IF m <= N THEN g[m] ELSE g[N] + Weight(f)]
<1>2. /\ t \in Seq(Frames) /\ Len(t) = N + 1 /\ N \in Nat /\ t[N + 1] = f
      /\ \A m \in 1..N : t[m] = s[m]
  OBVIOUS
<1>3. g \in [0..N -> Int] /\ g[0] = 0 /\ \A m \in 1..N : g[m] = g[m - 1] + Weight(s[m])
  BY <1>1 DEF Sums
<1>4. Weight(f) \in Int /\ g[N] \in Int
  BY <1>2, <1>3, FrameTypes
<1> HIDE DEF t, N
<1>5. h \in [0..(N + 1) -> Int] /\ h[0] = 0 /\ h[N + 1] = g[N] + Weight(f) /\ \A m \in 0..N : h[m] = g[m]
  BY <1>2, <1>3, <1>4
<1> HIDE DEF h
<1>6. ASSUME NEW m \in 1..(N + 1) PROVE h[m] = h[m - 1] + Weight(t[m])
  <2>1. CASE m = N + 1
    <3>1. m - 1 = N /\ N \in 0..N
      BY <1>2, <2>1
    <3>2. QED BY <1>2, <1>5, <2>1, <3>1
  <2>2. CASE m \in 1..N
    <3>1. m \in 0..N /\ m - 1 \in 0..N
      BY <1>2, <2>2
    <3>2. QED BY <1>2, <1>3, <1>5, <2>2, <3>1
  <2>3. QED BY <1>2, <2>1, <2>2
<1>7. Sums(h, t)
  BY <1>2, <1>5, <1>6 DEF Sums
<1>8. Left(t) = h[N + 1]
  BY <1>2, <1>7, SumsUnique
<1>9. QED BY <1>1, <1>4, <1>5, <1>8 DEF t, N

LEMMA LeftTail ==
  ASSUME NEW s \in Seq(Frames), s # <<>>
  PROVE  Left(Tail(s)) = Left(s) - Weight(Head(s))
<1>1. PICK g : Sums(g, s) /\ Left(s) = g[Len(s)]
  BY SumsExist
<1> DEFINE N == Len(s)
           t == Tail(s)
           h == [m \in 0..(N - 1) |-> g[m + 1] - g[1]]
<1>2. /\ t \in Seq(Frames) /\ Len(t) = N - 1 /\ N \in Nat /\ N >= 1 /\ Head(s) = s[1] /\ Head(s) \in Frames
      /\ \A m \in 1..(N - 1) : t[m] = s[m + 1]
  OBVIOUS
<1>3. g \in [0..N -> Int] /\ g[0] = 0 /\ \A m \in 1..N : g[m] = g[m - 1] + Weight(s[m])
  BY <1>1 DEF Sums
<1>4. g[1] = Weight(Head(s)) /\ g[1] \in Int
  <2>1. 1 \in 1..N /\ 1 \in 0..N /\ 1 - 1 = 0 /\ Weight(Head(s)) \in Int
    BY <1>2, FrameTypes
  <2>2. g[1] = g[0] + Weight(s[1])
    BY <1>3, <2>1
  <2>3. QED BY <1>2, <1>3, <2>1, <2>2
<1> HIDE DEF t, N
<1>5. h \in [0..(N - 1) -> Int] /\ \A m \in 0..(N - 1) : h[m] = g[m + 1] - g[1]
  BY <1>2, <1>3, <1>4
<1> HIDE DEF h
<1>6. h[0] = 0 /\ h[N - 1] = g[N] - g[1]
  BY <1>2, <1>3, <1>4, <1>5
<1>7. ASSUME NEW m \in 1..(N - 1) PROVE h[m] = h[m - 1] + Weight(t[m])
  <2>1. m \in 0..(N - 1) /\ m - 1 \in 0..(N - 1) /\ (m - 1) + 1 = m /\ m + 1 \in 1..N /\ (m + 1) - 1 = m
    BY <1>2
  <2>2. g[m] \in Int /\ g[m + 1] = g[m] + Weight(s[m + 1])
    BY <1>2, <1>3, <2>1
  <2>3. t[m] = s[m + 1] /\ t[m] \in Frames /\ Weight(t[m]) \in Int
    BY <1>2, FrameTypes
  <2>4. h[m] = g[m + 1] - g[1] /\ h[m - 1] = g[m] - g[1]
    BY <1>5, <2>1
  <2>5. QED BY <1>4, <2>2, <2>3, <2>4
<1>8. Sums(h, t)
  BY <1>2, <1>5, <1>6, <1>7 DEF Sums
<1>9. Left(t) = h[N - 1]
  BY <1>2, <1>8, SumsUnique
<1>10. QED BY <1>1, <1>4, <1>6, <1>9 DEF t, N

\* More of the front is written.
LEMMA LeftFront ==
  ASSUME NEW s \in Seq(Frames), s # <<>>, NEW t \in Seq(Frames), Len(t) = Len(s),
         \A m \in 2..Len(s) : t[m] = s[m], NEW n \in Nat, Weight(t[1]) = Weight(s[1]) - n
  PROVE  Left(t) = Left(s) - n
<1>1. PICK g : Sums(g, s) /\ Left(s) = g[Len(s)]
  BY SumsExist
<1> DEFINE N == Len(s)
           h == [m \in 0..N |-> IF m = 0 THEN 0 ELSE g[m] - n]
<1>2. N \in Nat /\ N >= 1 /\ Len(t) = N /\ \A m \in 2..N : t[m] = s[m]
  OBVIOUS
<1>3. g \in [0..N -> Int] /\ g[0] = 0 /\ \A m \in 1..N : g[m] = g[m - 1] + Weight(s[m])
  BY <1>1 DEF Sums
<1>4. \A m \in 1..N : Weight(s[m]) \in Int
  BY FrameTypes
<1> HIDE DEF N
<1>5. h \in [0..N -> Int] /\ h[0] = 0 /\ \A m \in 1..N : h[m] = g[m] - n
  BY <1>2, <1>3
<1> HIDE DEF h
<1>6. ASSUME NEW m \in 1..N PROVE h[m] = h[m - 1] + Weight(t[m])
  <2>1. g[m] = g[m - 1] + Weight(s[m]) /\ h[m] = g[m] - n /\ g[m] \in Int /\ g[m - 1] \in Int
    BY <1>2, <1>3, <1>5
  <2>2. Weight(s[m]) \in Int
    BY <1>4
  <2>3. CASE m = 1
    <3>1. m - 1 = 0 /\ Weight(t[m]) = Weight(s[m]) - n
      BY <2>3
    <3>2. QED BY <1>3, <1>5, <2>1, <2>2, <3>1
  <2>4. CASE m # 1
    <3>1. m - 1 \in 1..N /\ m \in 2..N
      BY <1>2, <2>4
    <3>2. h[m - 1] = g[m - 1] - n /\ t[m] = s[m]
      BY <1>2, <1>5, <3>1
    <3>3. QED BY <2>1, <2>2, <3>2
  <2>5. QED BY <2>3, <2>4
<1>7. Sums(h, t)
  BY <1>2, <1>5, <1>6 DEF Sums
<1>8. Left(t) = h[N]
  BY <1>2, <1>7, SumsUnique
<1>9. h[N] = g[N] - n
  BY <1>2, <1>5
<1>10. QED BY <1>1, <1>8, <1>9 DEF N

------------------------------------------------------------------------------
\* The steps of the frame queue

LEMMA PeerFacts ==
  ASSUME NEW e \in Ends
  PROVE  Peer(e) \in Ends /\ Peer(e) # e /\ Peer(Peer(e)) = e /\ \A x \in Ends : x = e \/ x = Peer(e)
BY DEF Ends, Peer

\* One element of a sequence changes.
Put(s, i, v) == [s EXCEPT ![i] = v]

LEMMA Edited ==
  ASSUME NEW s \in Seq(Frames), NEW i, NEW v, i \in 1..Len(s) => v \in Frames, NEW t, t = Put(s, i, v)
  PROVE  /\ t \in Seq(Frames) /\ Len(t) = Len(s) /\ \A j \in 1..Len(s) : j # i => t[j] = s[j]
         /\ i \in 1..Len(s) => t[i] = v
<1> DEFINE N == Len(s)
<1>1. N \in Nat /\ DOMAIN s = 1..N /\ \A j \in 1..N : s[j] \in Frames
  OBVIOUS
<1> HIDE DEF N
<1>2. t = [j \in 1..N |-> IF j = i THEN v ELSE s[j]]
  BY <1>1 DEF Put
<1>3. \A j \in 1..N : (IF j = i THEN v ELSE s[j]) \in Frames
  BY <1>1 DEF N
<1>4. t \in [1..N -> Frames]
  BY <1>2, <1>3
<1>5. t \in Seq(Frames) /\ Len(t) = N
  BY <1>1, <1>4
<1>6. QED BY <1>2, <1>5 DEF N

LEMMA FrameOk ==
  ASSUME NEW op \in Ops, NEW id \in Nat, NEW len \in Nat, NEW fin \in BOOLEAN
  PROVE  Frame(op, id, len, fin) \in Frames /\ Frame(op, id, len, fin).have = 0
BY DEF Frame, Frames

LEMMA SendInvAt ==
  ASSUME SendInv, NEW e \in Ends
  PROVE  /\ tx[e] \in Seq(Frames) /\ wire[e] \in Seq(Frames) /\ queued[e] \in Int /\ since[e] \in Nat
         /\ unread[e] \in Nat /\ queued[e] = Left(tx[e]) /\ queued[e] <= TxLimit
         /\ (tx[e] = <<>> <=> since[e] = 0)
BY DEF SendInv, SendTypes, TxExact

\* The queue of one end changes.
LEMMA QueueStep ==
  ASSUME SendInv, NEW e \in Ends, NEW t \in Seq(Frames), NEW q \in Int, NEW c \in Nat,
         tx' = [tx EXCEPT ![e] = t], queued' = [queued EXCEPT ![e] = q], since' = [since EXCEPT ![e] = c],
         q = Left(t), q <= TxLimit, t = <<>> <=> c = 0
  PROVE  /\ tx' \in [Ends -> Seq(Frames)] /\ queued' \in [Ends -> Int] /\ since' \in [Ends -> Nat]
         /\ TxExact'
<1>1. tx \in [Ends -> Seq(Frames)] /\ queued \in [Ends -> Int] /\ since \in [Ends -> Nat]
  BY DEF SendInv, SendTypes
<1>2. tx' \in [Ends -> Seq(Frames)] /\ queued' \in [Ends -> Int] /\ since' \in [Ends -> Nat]
  BY <1>1
<1>3. ASSUME NEW x \in Ends
      PROVE  queued'[x] = Left(tx'[x]) /\ queued'[x] <= TxLimit /\ (tx'[x] = <<>> <=> since'[x] = 0)
  <2>1. CASE x = e
    <3>1. tx'[x] = t /\ queued'[x] = q /\ since'[x] = c
      BY <1>1, <2>1
    <3>2. QED BY <3>1
  <2>2. CASE x # e
    <3>1. tx'[x] = tx[x] /\ queued'[x] = queued[x] /\ since'[x] = since[x]
      BY <1>1, <2>2
    <3>2. QED BY <3>1, SendInvAt
  <2>3. QED BY <2>1, <2>2
<1>4. TxExact'
  BY <1>3 DEF TxExact, Left, Size
<1>5. QED BY <1>2, <1>4

\* The queues stay as they are.
LEMMA QueueSame ==
  ASSUME SendInv, UNCHANGED sendVars
  PROVE  /\ tx' \in [Ends -> Seq(Frames)] /\ queued' \in [Ends -> Int] /\ since' \in [Ends -> Nat]
         /\ TxExact'
<1>1. tx' = tx /\ queued' = queued /\ since' = since
  BY DEF sendVars
<1>2. \A x \in Ends : queued'[x] = Left(tx'[x]) /\ queued'[x] <= TxLimit /\ (tx'[x] = <<>> <=> since'[x] = 0)
  BY <1>1, SendInvAt
<1>3. TxExact'
  BY <1>2 DEF TxExact, Left, Size
<1>4. QED BY <1>1, <1>3 DEF SendInv, SendTypes

LEMMA PushStep ==
  ASSUME SendInv, NEW e \in Ends, NEW f \in Frames, f.have = 0, Fits(e, f), Push(e, f)
  PROVE  /\ tx' \in [Ends -> Seq(Frames)] /\ queued' \in [Ends -> Int] /\ since' \in [Ends -> Nat]
         /\ TxExact'
<1> DEFINE s == tx[e]
           t == Append(s, f)
           q == queued[e] + Size(f)
           c == IF s = <<>> THEN 1 ELSE since[e]
<1>1. /\ s \in Seq(Frames) /\ queued[e] \in Int /\ since[e] \in Nat /\ queued[e] = Left(s)
      /\ (s = <<>> <=> since[e] = 0)
  BY SendInvAt
<1>2. Size(f) \in Nat /\ Weight(f) = Size(f) - 0
  BY FrameTypes DEF Weight
<1>3. t \in Seq(Frames) /\ t # <<>> /\ Left(t) = Left(s) + Weight(f)
  BY <1>1, LeftAppend
<1>4. since \in [Ends -> Nat]
  BY DEF SendInv, SendTypes
<1>5. tx' = [tx EXCEPT ![e] = t] /\ queued' = [queued EXCEPT ![e] = q]
  BY DEF Push
<1>6. since' = [since EXCEPT ![e] = c]
  <2>1. since' = IF s = <<>> THEN [since EXCEPT ![e] = 1] ELSE since
    BY DEF Push
  <2>2. CASE s = <<>>
    BY <2>1, <2>2
  <2>3. CASE s # <<>>
    BY <1>4, <2>1, <2>3
  <2>4. QED BY <2>2, <2>3
<1>7. q \in Int /\ q = Left(t) /\ q <= TxLimit
  BY <1>1, <1>2, <1>3 DEF Fits
<1>8. c \in Nat /\ c # 0
  BY <1>1
<1>9. t = <<>> <=> c = 0
  BY <1>3, <1>8
<1> HIDE DEF t, q, c
<1>10. QED BY <1>3, <1>5, <1>6, <1>7, <1>8, <1>9, QueueStep

LEMMA QueueFrameStep ==
  ASSUME SendInv, NEW e \in Ends, NEW f \in Frames, f.have = 0, QueueFrame(e, f)
  PROVE  /\ tx' \in [Ends -> Seq(Frames)] /\ queued' \in [Ends -> Int] /\ since' \in [Ends -> Nat]
         /\ TxExact'
<1>1. CASE Fits(e, f)
  <2>1. Push(e, f)
    BY <1>1 DEF QueueFrame
  <2>2. QED BY <1>1, <2>1, PushStep
<1>2. CASE ~Fits(e, f)
  <2>1. UNCHANGED sendVars
    BY <1>2 DEF QueueFrame
  <2>2. QED BY <2>1, QueueSame
<1>3. QED BY <1>1, <1>2

\* The frames on the wire, after a write.
LEMMA WrittenType ==
  ASSUME NEW w \in Seq(Frames), NEW f \in Frames, NEW n \in Nat
  PROVE  Written(w, f, n) \in Seq(Frames)
<1>1. CASE f.have = 0
  <2> DEFINE x == [f EXCEPT !.have = n]
  <2>1. x \in Frames
    BY DEF Frames
  <2>2. Written(w, f, n) = Append(w, x)
    BY <1>1 DEF Written
  <2> HIDE DEF x
  <2>3. QED BY <2>1, <2>2
<1>2. CASE f.have # 0
  <2> DEFINE x == [w[Len(w)] EXCEPT !.have = @ + n]
  <2>1. Written(w, f, n) = Put(w, Len(w), x)
    BY <1>2 DEF Written, Put
  <2>2. Len(w) \in 1..Len(w) => x \in Frames
    <3>1. ASSUME NEW y \in Frames PROVE [y EXCEPT !.have = @ + n] \in Frames
      <4> DEFINE v == y.have + n
      <4>1. v \in Nat
        BY DEF Frames
      <4> HIDE DEF v
      <4>2. [y EXCEPT !.have = v] \in Frames
        BY <4>1 DEF Frames
      <4>3. QED BY <4>2 DEF v
    <3>2. Len(w) \in 1..Len(w) => w[Len(w)] \in Frames
      OBVIOUS
    <3>3. QED BY <3>1, <3>2
  <2> HIDE DEF x
  <2>3. QED BY <2>1, <2>2, Edited
<1>3. QED BY <1>1, <1>2

LEMMA WriteStep ==
  ASSUME SendInv, NEW e \in Ends, Write(e)
  PROVE  SendInv'
<1> DEFINE s == tx[e]
           f == Head(s)
<1>1. /\ s \in Seq(Frames) /\ queued[e] \in Int /\ since[e] \in Nat /\ queued[e] = Left(s)
      /\ queued[e] <= TxLimit /\ wire[e] \in Seq(Frames) /\ unread[e] \in Nat
  BY SendInvAt
<1>2. s # <<>> /\ UNCHANGED <<sent, pings>>
  BY DEF Write
<1>3. f \in Frames /\ f = s[1] /\ Size(f) \in Nat /\ f.have \in Nat /\ Len(s) \in Nat /\ 1 \in 1..Len(s)
  <2>1. f \in Frames /\ f = s[1] /\ Len(s) \in Nat /\ 1 \in 1..Len(s)
    BY <1>1, <1>2
  <2> HIDE DEF f
  <2>2. QED BY <2>1, FrameTypes DEF Frames
<1> HIDE DEF f
<1>4. PICK n \in 1..Least(Size(f) - f.have, Socket - unread[e]) :
        /\ wire' = [wire EXCEPT ![e] = Written(wire[e], f, n)]
        /\ unread' = [unread EXCEPT ![e] = @ + n]
        /\ queued' = [queued EXCEPT ![e] = @ - n]
        /\ tx' = [tx EXCEPT ![e] = IF f.have + n = Size(f) THEN Tail(s)
                                   ELSE [s EXCEPT ![1].have = f.have + n]]
  BY DEF Write, f, SendInv, SendTypes
<1>5. n \in Nat /\ n >= 1 /\ n <= Size(f) - f.have
  <2> DEFINE a == Size(f) - f.have
             b == Socket - unread[e]
  <2>1. n \in 1..Least(a, b)
    OBVIOUS
  <2>a. a \in Int
    BY <1>3
  <2>b. b \in Int
    BY <1>1, WsAssumption
  <2> HIDE DEF a, b
  <2>2. n \in Nat /\ n >= 1 /\ n <= a
    BY <2>1, <2>a, <2>b DEF Least
  <2>3. QED BY <2>2 DEF a
<1> DEFINE x == [f EXCEPT !.have = f.have + n]
           u == [s EXCEPT ![1] = x]
           t == IF f.have + n = Size(f) THEN Tail(s) ELSE u
           q == queued[e] - n
           c == IF t = <<>> THEN 0 ELSE 1
<1>6. x \in Frames /\ x.have = f.have + n /\ x.len = f.len
  BY <1>3, <1>5 DEF Frames
<1>7. Weight(x) = Weight(f) - n /\ Weight(f) \in Int
  BY <1>3, <1>5, <1>6, FrameTypes DEF Weight, Size, Frames
<1>8. tx' = [tx EXCEPT ![e] = t]
  BY <1>3, <1>4
<1>9. /\ u \in Seq(Frames) /\ Len(u) = Len(s) /\ \A j \in 1..Len(s) : j # 1 => u[j] = s[j]
      /\ 1 \in 1..Len(s) => u[1] = x
  <2>1. u = Put(s, 1, x)
    BY DEF Put
  <2>2. s \in Seq(Frames)
    BY <1>1
  <2>3. 1 \in 1..Len(s) => x \in Frames
    BY <1>6
  <2> HIDE DEF x, u, s
  <2>4. QED BY <2>1, <2>2, <2>3, Edited
<1> HIDE DEF x, u
<1>10. t \in Seq(Frames) /\ Left(t) = Left(s) - n
  <2>1. CASE f.have + n = Size(f)
    <3>1. t = Tail(s) /\ Weight(f) = n
      BY <1>3, <1>5, <2>1 DEF Weight
    <3>2. Left(Tail(s)) = Left(s) - Weight(Head(s))
      BY <1>1, <1>2, LeftTail
    <3>3. Head(s) = f /\ Tail(s) \in Seq(Frames)
      BY <1>1, <1>2 DEF f
    <3> HIDE DEF t
    <3>4. QED BY <3>1, <3>2, <3>3
  <2>2. CASE f.have + n # Size(f)
    <3>1. t = u
      BY <2>2
    <3>2. u[1] = x /\ \A m \in 2..Len(s) : u[m] = s[m]
      BY <1>3, <1>9
    <3>3. Weight(u[1]) = Weight(s[1]) - n
      BY <1>3, <1>7, <3>2
    <3> HIDE DEF s
    <3>4. Left(u) = Left(s) - n
      BY <1>1, <1>2, <1>5, <1>9, <3>2, <3>3, LeftFront
    <3>5. QED BY <1>9, <3>1, <3>4
  <2>3. QED BY <2>1, <2>2
<1>11. tx'[e] = t
  <2>1. tx \in [Ends -> Seq(Frames)]
    BY DEF SendInv, SendTypes
  <2> HIDE DEF t
  <2>2. QED BY <1>8, <2>1
<1>12. since' = [since EXCEPT ![e] = c]
  BY <1>11 DEF Write
<1> HIDE DEF t
<1>13. c \in Nat /\ (t = <<>> <=> c = 0)
  OBVIOUS
<1>14. q \in Int /\ q = Left(t) /\ q <= TxLimit /\ queued' = [queued EXCEPT ![e] = q]
  BY <1>1, <1>4, <1>5, <1>10, WsAssumption
<1> HIDE DEF c, q
<1>15. /\ tx' \in [Ends -> Seq(Frames)] /\ queued' \in [Ends -> Int] /\ since' \in [Ends -> Nat]
       /\ TxExact'
  BY <1>8, <1>10, <1>12, <1>13, <1>14, QueueStep
<1>16. wire' \in [Ends -> Seq(Frames)] /\ unread' \in [Ends -> Nat]
  <2>1. Written(wire[e], f, n) \in Seq(Frames)
    BY <1>1, <1>3, <1>5, WrittenType
  <2>2. wire \in [Ends -> Seq(Frames)] /\ unread \in [Ends -> Nat]
    BY DEF SendInv, SendTypes
  <2>3. QED BY <1>4, <1>5, <2>1, <2>2
<1>17. QED BY <1>2, <1>15, <1>16 DEF SendInv, SendTypes

LEMMA CloseFrameType ==
  ASSUME NEW w \in Seq(Frames)
  PROVE  CloseFrame(w) \in Seq(Frames)
<1> DEFINE whole == \A i \in 1..Len(w) : Complete(w[i])
<1>1. CASE whole
  <2> DEFINE x == [Frame("close", 0, 0, TRUE) EXCEPT !.have = 1]
  <2>1. x \in Frames
    BY DEF Frame, Frames, Ops
  <2>2. CloseFrame(w) = Append(w, x)
    BY <1>1 DEF CloseFrame
  <2> HIDE DEF x
  <2>3. QED BY <2>1, <2>2
<1>2. CASE ~whole
  <2> DEFINE x == [w[Len(w)] EXCEPT !.have = @ + 1, !.cut = TRUE]
  <2>1. CloseFrame(w) = Put(w, Len(w), x)
    BY <1>2 DEF CloseFrame, Put
  <2>2. Len(w) \in 1..Len(w) => x \in Frames
    <3>1. ASSUME NEW y \in Frames PROVE [y EXCEPT !.have = @ + 1, !.cut = TRUE] \in Frames
      <4> DEFINE v == y.have + 1
      <4>1. v \in Nat
        BY DEF Frames
      <4> HIDE DEF v
      <4>2. [y EXCEPT !.have = v, !.cut = TRUE] \in Frames
        BY <4>1 DEF Frames
      <4>3. QED BY <4>2 DEF v
    <3>2. Len(w) \in 1..Len(w) => w[Len(w)] \in Frames
      OBVIOUS
    <3>3. QED BY <3>1, <3>2
  <2> HIDE DEF x
  <2>3. QED BY <2>1, <2>2, Edited
<1>3. QED BY <1>1, <1>2

\* The two parts of a message that the path splits.
FirstPart(f) == [f EXCEPT !.op = "binary", !.len = 1, !.fin = FALSE, !.have = 2]
SecondPart(f) == [f EXCEPT !.op = "continuation", !.len = f.len - 1, !.fin = TRUE, !.have = f.len]
SplitAt(w, i) ==
  SubSeq(w, 1, i - 1) \o <<FirstPart(w[i]), SecondPart(w[i])>> \o SubSeq(w, i + 1, Len(w))

LEMMA PartTypes ==
  ASSUME NEW f \in Frames, f.len > 1
  PROVE  FirstPart(f) \in Frames /\ SecondPart(f) \in Frames
<1>1. f.len \in Nat /\ f.len - 1 \in Nat
  BY DEF Frames
<1>2. FirstPart(f) \in Frames
  BY DEF FirstPart, Frames, Ops
<1> DEFINE n == f.len - 1
           m == f.len
<1>3. SecondPart(f) = [f EXCEPT !.op = "continuation", !.len = n, !.fin = TRUE, !.have = m]
  BY DEF SecondPart
<1> HIDE DEF n, m
<1>4. n \in Nat /\ m \in Nat
  BY <1>1 DEF n, m
<1>5. SecondPart(f) \in Frames
  BY <1>3, <1>4 DEF Frames, Ops
<1>6. QED BY <1>2, <1>5

LEMMA SplitType ==
  ASSUME NEW w \in Seq(Frames), NEW i \in 1..Len(w), w[i].len > 1
  PROVE  SplitAt(w, i) \in Seq(Frames)
<1> DEFINE a == SubSeq(w, 1, i - 1)
           b == <<FirstPart(w[i]), SecondPart(w[i])>>
           c == SubSeq(w, i + 1, Len(w))
<1>1. a \in Seq(Frames) /\ c \in Seq(Frames)
  OBVIOUS
<1>2. b \in Seq(Frames)
  <2>1. w[i] \in Frames
    OBVIOUS
  <2>2. FirstPart(w[i]) \in Frames /\ SecondPart(w[i]) \in Frames
    BY <2>1, PartTypes
  <2>3. QED BY <2>2
<1>3. SplitAt(w, i) = a \o b \o c
  BY DEF SplitAt
<1> HIDE DEF a, b, c
<1>4. QED BY <1>1, <1>2, <1>3

LEMMA SplitIs ==
  ASSUME SendInv, NEW e \in Ends, NEW i \in 1..Len(wire[e]), Split(e, i)
  PROVE  /\ wire' = [wire EXCEPT ![e] = SplitAt(wire[e], i)] /\ wire[e][i].len > 1 /\ wire[e][i].fin
         /\ wire[e][i].op = "binary" /\ Complete(wire[e][i]) /\ ~wire[e][i].cut
<1> DEFINE f == wire[e][i]
<1>1. f \in Frames /\ f.len > 1 /\ f.len \in Nat
  <2>1. wire[e] \in Seq(Frames) /\ f.len > 1
    BY SendInvAt DEF Split
  <2>2. f \in Frames
    BY <2>1
  <2>3. QED BY <2>1, <2>2 DEF Frames
<1>2. 1 + 1 = 2 /\ (f.len - 1) + 1 = f.len
  BY <1>1
<1>3. wire' = [wire EXCEPT ![e] = SubSeq(@, 1, i - 1)
                 \o <<[f EXCEPT !.op = "binary", !.len = 1, !.fin = FALSE, !.have = 1 + 1],
                      [f EXCEPT !.op = "continuation", !.len = f.len - 1, !.fin = TRUE,
                                !.have = (f.len - 1) + 1]>>
                 \o SubSeq(@, i + 1, Len(@))]
  BY DEF Split
<1>4. wire' = [wire EXCEPT ![e] = SplitAt(wire[e], i)]
  BY <1>2, <1>3 DEF SplitAt, FirstPart, SecondPart
<1>5. QED BY <1>4 DEF Split

\* Frames i and i + 1 change places.
Swap(w, i) == [w EXCEPT ![i] = w[i + 1], ![i + 1] = w[i]]

LEMMA SwapType ==
  ASSUME NEW w \in Seq(Frames), NEW i \in 1..Len(w), i < Len(w)
  PROVE  /\ Swap(w, i) \in Seq(Frames) /\ Len(Swap(w, i)) = Len(w)
         /\ Swap(w, i)[i] = w[i + 1] /\ Swap(w, i)[i + 1] = w[i]
         /\ \A j \in 1..Len(w) : j # i /\ j # i + 1 => Swap(w, i)[j] = w[j]
<1> DEFINE u == Put(w, i, w[i + 1])
           k == i + 1
<1>1. k \in 1..Len(w) /\ w[k] \in Frames /\ w[i] \in Frames /\ k # i
  OBVIOUS
<1>2. /\ u \in Seq(Frames) /\ Len(u) = Len(w) /\ \A j \in 1..Len(w) : j # i => u[j] = w[j]
      /\ u[i] = w[k]
  BY <1>1, Edited
<1>3. Swap(w, i) = Put(u, k, w[i])
  BY DEF Swap, Put
<1> HIDE DEF u, k
<1>4. /\ Put(u, k, w[i]) \in Seq(Frames) /\ Len(Put(u, k, w[i])) = Len(u)
      /\ \A j \in 1..Len(u) : j # k => Put(u, k, w[i])[j] = u[j]
      /\ Put(u, k, w[i])[k] = w[i]
  BY <1>1, <1>2, Edited
<1>5. QED BY <1>1, <1>2, <1>3, <1>4 DEF k

LEMMA OvertakeIs ==
  ASSUME SendInv, NEW e \in Ends, NEW i \in 1..Len(wire[e]), Overtake(e, i)
  PROVE  /\ wire' = [wire EXCEPT ![e] = Swap(wire[e], i)] /\ i < Len(wire[e])
         /\ wire[e][i].op = "continuation" /\ wire[e][i + 1].op \in {"ping", "pong"}
         /\ Complete(wire[e][i + 1])
<1>1. wire \in [Ends -> Seq(Frames)]
  BY DEF SendInv, SendTypes
<1>2. wire' = [wire EXCEPT ![e] = Swap(wire[e], i)]
  BY <1>1 DEF Overtake, Swap
<1>3. QED BY <1>2 DEF Overtake

\* Whatever happens on the path, the wire keeps its type.
LEMMA WireStep ==
  ASSUME SendInv, NEW e \in Ends, NEW w \in Seq(Frames), wire' = [wire EXCEPT ![e] = w]
  PROVE  wire' \in [Ends -> Seq(Frames)]
BY DEF SendInv, SendTypes

LEMMA ParsedStep ==
  ASSUME SendInv, NEW e \in Ends, Arrived(e), Parsed(e)
  PROVE  /\ wire' \in [Ends -> Seq(Frames)] /\ NextFrame(e) \in Frames
         /\ wire[Peer(e)] # <<>> /\ wire[Peer(e)] \in Seq(Frames)
         /\ wire' = [wire EXCEPT ![Peer(e)] = Tail(wire[Peer(e)])]
<1> DEFINE w == wire[Peer(e)]
<1>1. Peer(e) \in Ends
  BY PeerFacts
<1>2. w \in Seq(Frames) /\ w # <<>>
  BY <1>1, SendInvAt DEF Arrived
<1>3. NextFrame(e) \in Frames /\ Tail(w) \in Seq(Frames)
  BY <1>2 DEF NextFrame
<1>4. wire' = [wire EXCEPT ![Peer(e)] = Tail(w)]
  BY DEF Parsed
<1> HIDE DEF w
<1>5. wire' \in [Ends -> Seq(Frames)]
  BY <1>1, <1>3, <1>4, WireStep
<1>6. QED BY <1>2, <1>3, <1>4, <1>5 DEF w

LEMMA PathStep ==
  ASSUME SendInv, NEW e \in Ends, Path(e)
  PROVE  wire' \in [Ends -> Seq(Frames)]
<1>1. PICK i \in 1..Len(wire[e]) : Split(e, i) \/ Overtake(e, i)
  BY DEF Path
<1> DEFINE w == wire[e]
<1>2. w \in Seq(Frames)
  BY SendInvAt
<1>3. CASE Split(e, i)
  <2>1. wire' = [wire EXCEPT ![e] = SplitAt(w, i)] /\ w[i].len > 1
    BY <1>3, SplitIs
  <2>2. SplitAt(w, i) \in Seq(Frames)
    BY <1>2, <2>1, SplitType
  <2>3. QED BY <2>1, <2>2, WireStep
<1>4. CASE Overtake(e, i)
  <2>1. wire' = [wire EXCEPT ![e] = Swap(w, i)] /\ i < Len(w)
    BY <1>4, OvertakeIs
  <2>2. Swap(w, i) \in Seq(Frames)
    BY <1>2, <2>1, SwapType
  <2>3. QED BY <2>1, <2>2, WireStep
<1>5. QED BY <1>1, <1>3, <1>4

LEMMA InitSend == Init => SendInv
<1> SUFFICES ASSUME Init PROVE SendInv
  OBVIOUS
<1>1. /\ tx = [e \in Ends |-> <<>>] /\ wire = [e \in Ends |-> <<>>] /\ queued = [e \in Ends |-> 0]
      /\ since = [e \in Ends |-> 0] /\ unread = [e \in Ends |-> 0] /\ sent = [e \in Ends |-> 0] /\ pings = 0
  BY DEF Init
<1>2. SendTypes
  BY <1>1 DEF SendTypes
<1>3. ASSUME NEW e \in Ends
      PROVE  queued[e] = Left(tx[e]) /\ queued[e] <= TxLimit /\ (tx[e] = <<>> <=> since[e] = 0)
  <2>1. queued[e] = 0 /\ tx[e] = <<>> /\ since[e] = 0
    BY <1>1
  <2>2. QED BY <2>1, LeftEmpty, WsAssumption
<1>4. QED BY <1>2, <1>3 DEF SendInv, TxExact

LEMMA NextSend == SendInv /\ [Next]_vars => SendInv'
<1> SUFFICES ASSUME SendInv, [Next]_vars PROVE SendInv'
  OBVIOUS
<1>1. CASE SendPing
  <2> DEFINE f == Frame("ping", pings + 1, 1, TRUE)
  <2>1. QueueFrame("client", f) /\ pings' = pings + 1 /\ UNCHANGED <<wire, unread, sent>>
    BY <1>1 DEF SendPing, pathVars
  <2>2. f \in Frames /\ f.have = 0
    <3>1. pings + 1 \in Nat
      BY DEF SendInv, SendTypes
    <3>2. QED BY <3>1, FrameOk DEF Ops
  <2> HIDE DEF f
  <2>3. tx' \in [Ends -> Seq(Frames)] /\ queued' \in [Ends -> Int] /\ since' \in [Ends -> Nat] /\ TxExact'
    <3>1. "client" \in Ends
      BY DEF Ends
    <3>2. QED BY <2>1, <2>2, <3>1, QueueFrameStep
  <2>4. QED BY <2>1, <2>3 DEF SendInv, SendTypes
<1>2. CASE Tick
  <2>1. /\ since' = [e \in Ends |-> IF since[e] = 0 THEN 0 ELSE Least(since[e] + 1, StallAfter + 2)]
        /\ UNCHANGED <<tx, queued, wire, unread, sent, pings>>
    BY <1>2 DEF Tick, pathVars
  <2>2. \A c \in Nat : c # 0 => Least(c + 1, StallAfter + 2) \in Nat /\ Least(c + 1, StallAfter + 2) # 0
    BY WsAssumption DEF Least
  <2>3. \A e \in Ends : since'[e] \in Nat /\ (since'[e] = 0 <=> since[e] = 0)
    BY <2>1, <2>2, SendInvAt
  <2>4. since' \in [Ends -> Nat]
    BY <2>1, <2>3
  <2>5. \A e \in Ends : queued'[e] = Left(tx'[e]) /\ queued'[e] <= TxLimit /\ (tx'[e] = <<>> <=> since'[e] = 0)
    BY <2>1, <2>3, SendInvAt
  <2>6. TxExact'
    BY <2>5 DEF TxExact, Left, Size
  <2>7. QED BY <2>1, <2>4, <2>6 DEF SendInv, SendTypes
<1>3. ASSUME NEW e \in Ends, SendBinary(e) PROVE SendInv'
  <2>1. PICK len \in Lens : QueueFrame(e, Frame("binary", sent[e] + 1, len, TRUE))
    BY <1>3 DEF SendBinary
  <2>2. sent' = [sent EXCEPT ![e] = @ + 1] /\ UNCHANGED <<wire, unread, pings>>
    BY <1>3 DEF SendBinary, pathVars
  <2> DEFINE f == Frame("binary", sent[e] + 1, len, TRUE)
  <2>3. f \in Frames /\ f.have = 0
    <3>1. sent[e] + 1 \in Nat /\ len \in Nat
      BY WsAssumption DEF SendInv, SendTypes
    <3>2. QED BY <3>1, FrameOk DEF Ops
  <2> HIDE DEF f
  <2>4. tx' \in [Ends -> Seq(Frames)] /\ queued' \in [Ends -> Int] /\ since' \in [Ends -> Nat] /\ TxExact'
    BY <2>1, <2>3, QueueFrameStep DEF f
  <2>5. sent' \in [Ends -> Nat]
    BY <2>2 DEF SendInv, SendTypes
  <2>6. QED BY <2>2, <2>4, <2>5 DEF SendInv, SendTypes
<1>4. ASSUME UNCHANGED sendVars, wire' \in [Ends -> Seq(Frames)], unread' \in [Ends -> Nat],
             UNCHANGED <<sent, pings>>
      PROVE  SendInv'
  BY <1>4, QueueSame DEF SendInv, SendTypes
<1>5. wire \in [Ends -> Seq(Frames)] /\ unread \in [Ends -> Nat]
  BY DEF SendInv, SendTypes
<1>6. ASSUME NEW e \in Ends, Stall(e) \/ IoFails(e) \/ ReadReturn(e) \/ TakePongs(e) PROVE SendInv'
  <2>1. UNCHANGED <<sendVars, wire, unread, sent, pings>>
    BY <1>6 DEF Stall, IoFails, ReadReturn, TakePongs, pathVars
  <2>2. QED BY <1>4, <1>5, <2>1
<1>7. ASSUME NEW e \in Ends, ReadStart(e) PROVE SendInv'
  <2>1. UNCHANGED <<sendVars, wire, sent, pings>>
    BY <1>7 DEF ReadStart
  <2>2. unread' = unread \/ unread' = [unread EXCEPT ![Peer(e)] = 0]
    BY <1>7 DEF ReadStart
  <2>3. [unread EXCEPT ![Peer(e)] = 0] \in [Ends -> Nat]
    BY <1>5
  <2>4. unread' \in [Ends -> Nat]
    BY <1>5, <2>2, <2>3
  <2>5. QED BY <1>4, <1>5, <2>1, <2>4
<1>8. ASSUME NEW e \in Ends, ReadData(e) \/ ReadPong(e) PROVE SendInv'
  <2>1. UNCHANGED <<sendVars, unread, sent, pings>> /\ Arrived(e) /\ Parsed(e)
    BY <1>8 DEF ReadData, ReadPong
  <2>2. wire' \in [Ends -> Seq(Frames)]
    BY <2>1, ParsedStep
  <2>3. QED BY <1>4, <1>5, <2>1, <2>2
<1>9. ASSUME NEW e \in Ends, ReadPing(e) PROVE SendInv'
  <2> DEFINE f == [NextFrame(e) EXCEPT !.op = "pong", !.have = 0, !.cut = FALSE]
  <2>1. QueueFrame(e, f) /\ Arrived(e) /\ Parsed(e) /\ UNCHANGED <<unread, sent, pings>>
    BY <1>9 DEF ReadPing
  <2>2. wire' \in [Ends -> Seq(Frames)] /\ NextFrame(e) \in Frames
    BY <2>1, ParsedStep
  <2>3. f \in Frames /\ f.have = 0
    BY <2>2 DEF Frames, Ops
  <2> HIDE DEF f
  <2>4. tx' \in [Ends -> Seq(Frames)] /\ queued' \in [Ends -> Int] /\ since' \in [Ends -> Nat] /\ TxExact'
    BY <2>1, <2>3, QueueFrameStep
  <2>5. QED BY <2>1, <2>2, <2>4 DEF SendInv, SendTypes
<1>10. ASSUME NEW e \in Ends, ReadClose(e) PROVE SendInv'
  <2> DEFINE f == Frame("close", 0, 0, TRUE)
  <2>1. /\ IF Fits(e, f) THEN Push(e, f) ELSE UNCHANGED sendVars
        /\ Arrived(e) /\ Parsed(e) /\ UNCHANGED <<unread, sent, pings>>
    BY <1>10 DEF ReadClose
  <2>2. wire' \in [Ends -> Seq(Frames)]
    BY <2>1, ParsedStep
  <2>3. f \in Frames /\ f.have = 0
    BY FrameOk DEF Ops
  <2> HIDE DEF f
  <2>4. tx' \in [Ends -> Seq(Frames)] /\ queued' \in [Ends -> Int] /\ since' \in [Ends -> Nat] /\ TxExact'
    BY <2>1, <2>3, PushStep, QueueSame
  <2>5. QED BY <2>1, <2>2, <2>4 DEF SendInv, SendTypes
<1>11. ASSUME NEW e \in Ends, Close(e) PROVE SendInv'
  <2> DEFINE t == <<>>
  <2>1. /\ wire' \in {wire, [wire EXCEPT ![e] = CloseFrame(wire[e])]} /\ UNCHANGED <<unread, sent, pings>>
        /\ tx' = [tx EXCEPT ![e] = t] /\ queued' = [queued EXCEPT ![e] = 0]
        /\ since' = [since EXCEPT ![e] = 0]
    BY <1>11 DEF Close
  <2>2. t \in Seq(Frames) /\ 0 = Left(t) /\ 0 \in Int /\ 0 \in Nat /\ 0 <= TxLimit /\ (t = <<>> <=> 0 = 0)
    BY LeftEmpty, WsAssumption
  <2> HIDE DEF t
  <2>3. tx' \in [Ends -> Seq(Frames)] /\ queued' \in [Ends -> Int] /\ since' \in [Ends -> Nat] /\ TxExact'
    BY <2>1, <2>2, QueueStep
  <2>4. CloseFrame(wire[e]) \in Seq(Frames)
    BY SendInvAt, CloseFrameType
  <2>5. wire' \in [Ends -> Seq(Frames)]
    BY <1>5, <2>1, <2>4, WireStep
  <2>6. QED BY <1>5, <2>1, <2>3, <2>5 DEF SendInv, SendTypes
<1>12. ASSUME NEW e \in Ends, Path(e) PROVE SendInv'
  <2>1. UNCHANGED <<sendVars, unread, sent, pings>>
    BY <1>12 DEF Path
  <2>2. wire' \in [Ends -> Seq(Frames)]
    BY <1>12, PathStep
  <2>3. QED BY <1>4, <1>5, <2>1, <2>2
<1>13. CASE UNCHANGED vars
  <2>1. UNCHANGED <<sendVars, wire, unread, sent, pings>>
    BY <1>13 DEF vars, pathVars
  <2>2. QED BY <1>4, <1>5, <2>1
<1>14. QED
  BY <1>1, <1>2, <1>3, <1>6, <1>7, <1>8, <1>9, <1>10, <1>11, <1>12, <1>13, WriteStep DEF Next, Read

\* tx_queued_bytes is what the frame queue still has to write, whatever partial
\* writes, control frames, refused frames and closes happen; it stays within
\* kMaxWsTxBytes, and the stall clock runs exactly while something is queued.
THEOREM FrameQueueExact == Spec => []TxExact
<1>1. SendInv => TxExact
  BY DEF SendInv
<1>2. QED BY <1>1, InitSend, NextSend, PTL DEF Spec

------------------------------------------------------------------------------
\* The order of messages in a sequence of frames.  A frame leads from one mark to
\* the next: twice the number of whole messages so far, plus one in the middle of
\* a message.
Data == {"binary", "continuation"}
Link(f, a, b) ==
  /\ f.op = "binary" => 2 * f.id = a + 2 /\ b = IF f.fin = TRUE THEN a + 2 ELSE a + 1
  /\ f.op = "continuation" => f.fin = TRUE /\ 2 * f.id = a + 1 /\ b = a + 1
  /\ f.op \notin Data => b = a
Marks(l, w, a, z) ==
  /\ l \in [0..Len(w) -> Nat] /\ l[0] = a /\ l[Len(w)] = z
  /\ \A i \in 1..Len(w) : Link(w[i], l[i - 1], l[i])
Linked(w, a, z) == \E l : Marks(l, w, a, z)

LEMMA LinkedNil ==
  ASSUME NEW a \in Nat, NEW z
  PROVE  Linked(<<>>, a, z) <=> a = z
<1> DEFINE w == <<>>
           l == [i \in 0..0 |-> a]
<1>1. Len(w) = 0 /\ l \in [0..0 -> Nat] /\ l[0] = a
  OBVIOUS
<1> HIDE DEF w, l
<1>2. a = z => Marks(l, w, a, z)
  BY <1>1 DEF Marks
<1>3. \A m : Marks(m, w, a, z) => a = z
  BY <1>1 DEF Marks
<1>4. QED BY <1>2, <1>3 DEF Linked, w

LEMMA LinkedAppend ==
  ASSUME NEW w \in Seq(Frames), NEW a, NEW z, Linked(w, a, z), NEW f \in Frames, NEW b \in Nat, Link(f, z, b)
  PROVE  Linked(Append(w, f), a, b)
<1>1. PICK l : Marks(l, w, a, z)
  BY DEF Linked
<1> DEFINE N == Len(w)
           v == Append(w, f)
           m == [i \in 0..(N + 1) |-> IF i <= N THEN l[i] ELSE b]
<1>2. /\ N \in Nat /\ Len(v) = N + 1 /\ v[N + 1] = f /\ \A i \in 1..N : v[i] = w[i]
  OBVIOUS
<1>3. /\ l \in [0..N -> Nat] /\ l[0] = a /\ l[N] = z /\ \A i \in 1..N : Link(w[i], l[i - 1], l[i])
  BY <1>1 DEF Marks
<1> HIDE DEF N, v
<1>4. m \in [0..(N + 1) -> Nat] /\ m[N + 1] = b /\ \A i \in 0..N : m[i] = l[i]
  BY <1>2, <1>3
<1> HIDE DEF m
<1>5. ASSUME NEW i \in 1..(N + 1) PROVE Link(v[i], m[i - 1], m[i])
  <2>1. CASE i = N + 1
    <3>1. i - 1 = N /\ N \in 0..N
      BY <1>2, <2>1
    <3>2. QED BY <1>2, <1>3, <1>4, <2>1, <3>1
  <2>2. CASE i \in 1..N
    <3>1. i - 1 \in 0..N /\ i \in 0..N
      BY <1>2, <2>2
    <3>2. QED BY <1>2, <1>3, <1>4, <2>2, <3>1
  <2>3. QED BY <1>2, <2>1, <2>2
<1>6. m[0] = a
  BY <1>2, <1>3, <1>4
<1>7. Marks(m, v, a, b)
  BY <1>2, <1>4, <1>5, <1>6 DEF Marks
<1>8. QED BY <1>7 DEF Linked, v

LEMMA LinkedTail ==
  ASSUME NEW w \in Seq(Frames), w # <<>>, NEW a, NEW z, Linked(w, a, z)
  PROVE  \E b \in Nat : Link(Head(w), a, b) /\ Linked(Tail(w), b, z)
<1>1. PICK l : Marks(l, w, a, z)
  BY DEF Linked
<1> DEFINE N == Len(w)
           v == Tail(w)
           m == [i \in 0..(N - 1) |-> l[i + 1]]
<1>2. /\ N \in Nat /\ N >= 1 /\ Len(v) = N - 1 /\ Head(w) = w[1] /\ \A i \in 1..(N - 1) : v[i] = w[i + 1]
  OBVIOUS
<1>3. /\ l \in [0..N -> Nat] /\ l[0] = a /\ l[N] = z /\ \A i \in 1..N : Link(w[i], l[i - 1], l[i])
  BY <1>1 DEF Marks
<1> HIDE DEF N, v
<1>4. m \in [0..(N - 1) -> Nat] /\ \A i \in 0..(N - 1) : m[i] = l[i + 1]
  BY <1>2, <1>3
<1> HIDE DEF m
<1>5. ASSUME NEW i \in 1..(N - 1) PROVE Link(v[i], m[i - 1], m[i])
  <2>1. i + 1 \in 1..N /\ (i + 1) - 1 = i /\ i - 1 \in 0..(N - 1) /\ (i - 1) + 1 = i /\ i \in 0..(N - 1)
    BY <1>2
  <2>2. Link(w[i + 1], l[i], l[i + 1])
    BY <1>3, <2>1
  <2>3. QED BY <1>2, <1>4, <2>1, <2>2
<1>6. m[0] = l[1] /\ m[N - 1] = z /\ l[1] \in Nat
  BY <1>2, <1>3, <1>4
<1>7. Marks(m, v, l[1], z)
  BY <1>2, <1>4, <1>5, <1>6 DEF Marks
<1>8. Link(Head(w), a, l[1])
  <2>1. 1 \in 1..N /\ 1 - 1 = 0
    BY <1>2
  <2>2. QED BY <1>2, <1>3, <2>1
<1>9. QED BY <1>6, <1>7, <1>8 DEF Linked, v

\* What a frame has of its message.
Alike(f, g) == f.op = g.op /\ f.id = g.id /\ f.fin = g.fin

LEMMA LinkedAlike ==
  ASSUME NEW w \in Seq(Frames), NEW v \in Seq(Frames), Len(v) = Len(w),
         \A i \in 1..Len(w) : Alike(v[i], w[i]), NEW a, NEW z, Linked(w, a, z)
  PROVE  Linked(v, a, z)
<1>1. PICK l : Marks(l, w, a, z)
  BY DEF Linked
<1>2. \A f, g, x, y : Alike(f, g) /\ Link(g, x, y) => Link(f, x, y)
  BY DEF Alike, Link
<1>3. \A i \in 1..Len(w) : Link(v[i], l[i - 1], l[i])
  BY <1>1, <1>2 DEF Marks
<1>4. Marks(l, v, a, z)
  BY <1>1, <1>3 DEF Marks
<1>5. QED BY <1>4 DEF Linked

LEMMA Joined ==
  ASSUME NEW s \in Seq(Frames), NEW t \in Seq(Frames)
  PROVE  /\ s \o t \in Seq(Frames) /\ Len(s \o t) = Len(s) + Len(t)
         /\ \A j \in 1..Len(s) : (s \o t)[j] = s[j]
         /\ \A j \in 1..Len(t) : (s \o t)[Len(s) + j] = t[j]
OBVIOUS

LEMMA SplitElements ==
  ASSUME NEW w \in Seq(Frames), NEW i \in 1..Len(w), w[i].len > 1, NEW v, v = SplitAt(w, i)
  PROVE  /\ v \in Seq(Frames) /\ Len(v) = Len(w) + 1
         /\ \A j \in 1..(i - 1) : v[j] = w[j]
         /\ v[i] = FirstPart(w[i]) /\ v[i + 1] = SecondPart(w[i])
         /\ \A j \in (i + 2)..(Len(w) + 1) : v[j] = w[j - 1]
<1> DEFINE N == Len(w)
           x == FirstPart(w[i])
           y == SecondPart(w[i])
           a == SubSeq(w, 1, i - 1)
           b == <<x, y>>
           c == SubSeq(w, i + 1, N)
<1>1. /\ N \in Nat /\ a \in Seq(Frames) /\ c \in Seq(Frames) /\ Len(a) = i - 1 /\ Len(c) = N - i
      /\ \A j \in 1..(i - 1) : a[j] = w[j]
      /\ \A j \in 1..(N - i) : c[j] = w[i + j]
  OBVIOUS
<1>2. x \in Frames /\ y \in Frames
  <2>1. w[i] \in Frames
    OBVIOUS
  <2>2. QED BY <2>1, PartTypes
<1>3. v = a \o b \o c
  BY DEF SplitAt
<1> HIDE DEF a, c, x, y
<1>4. b \in Seq(Frames) /\ Len(b) = 2 /\ b[1] = x /\ b[2] = y
  BY <1>2
<1> HIDE DEF b
<1> DEFINE d == a \o b
<1>5. /\ d \in Seq(Frames) /\ Len(d) = i + 1 /\ \A j \in 1..(i - 1) : d[j] = a[j]
      /\ d[i] = b[1] /\ d[i + 1] = b[2]
  <2>1. /\ d \in Seq(Frames) /\ Len(d) = Len(a) + Len(b) /\ \A j \in 1..Len(a) : d[j] = a[j]
        /\ \A j \in 1..Len(b) : d[Len(a) + j] = b[j]
    BY <1>1, <1>4, Joined
  <2> HIDE DEF d
  <2>2. 1 \in 1..Len(b) /\ 2 \in 1..Len(b) /\ Len(a) + 1 = i /\ Len(a) + 2 = i + 1
    BY <1>1, <1>4
  <2>3. d[Len(a) + 1] = b[1] /\ d[Len(a) + 2] = b[2]
    BY <2>1, <2>2
  <2>4. Len(a) + Len(b) = i + 1
    BY <1>1, <1>4
  <2>5. QED BY <1>1, <2>1, <2>2, <2>3, <2>4
<1> HIDE DEF d
<1>6. /\ v \in Seq(Frames) /\ Len(v) = (i + 1) + (N - i) /\ \A j \in 1..(i + 1) : v[j] = d[j]
      /\ \A j \in (i + 2)..(N + 1) : v[j] = c[j - (i + 1)]
  <2>1. v = d \o c
    BY <1>3 DEF d
  <2>2. /\ v \in Seq(Frames) /\ Len(v) = Len(d) + Len(c) /\ \A j \in 1..Len(d) : v[j] = d[j]
        /\ \A j \in 1..Len(c) : v[Len(d) + j] = c[j]
    <3> DEFINE k == d \o c
    <3>1. d \in Seq(Frames) /\ c \in Seq(Frames)
      BY <1>1, <1>5
    <3>2. /\ k \in Seq(Frames) /\ Len(k) = Len(d) + Len(c) /\ \A j \in 1..Len(d) : k[j] = d[j]
          /\ \A j \in 1..Len(c) : k[Len(d) + j] = c[j]
      BY <3>1, Joined
    <3>3. v = k
      BY <2>1
    <3> HIDE DEF k
    <3>4. QED BY <3>2, <3>3
  <2>3. ASSUME NEW j \in (i + 2)..(N + 1) PROVE v[j] = c[j - (i + 1)]
    <3>1. j - (i + 1) \in 1..Len(c) /\ Len(d) + (j - (i + 1)) = j
      BY <1>1, <1>5
    <3>2. QED BY <2>2, <3>1
  <2>4. QED BY <1>1, <1>5, <2>2, <2>3
<1>7. \A j \in (i + 2)..(N + 1) : j - (i + 1) \in 1..(N - i) /\ i + (j - (i + 1)) = j - 1
  BY <1>1
<1>8. Len(v) = N + 1 /\ i \in 1..(i + 1) /\ i + 1 \in 1..(i + 1) /\ \A j \in 1..(i - 1) : j \in 1..(i + 1)
  BY <1>1, <1>6
<1>9. QED BY <1>1, <1>4, <1>5, <1>6, <1>7, <1>8 DEF N, x, y

LEMMA LinkedSplit ==
  ASSUME NEW w \in Seq(Frames), NEW i \in 1..Len(w), w[i].len > 1, w[i].op = "binary", w[i].fin = TRUE,
         NEW a, NEW z, Linked(w, a, z)
  PROVE  Linked(SplitAt(w, i), a, z)
<1>1. PICK l : Marks(l, w, a, z)
  BY DEF Linked
<1> DEFINE N == Len(w)
           v == SplitAt(w, i)
           m == [j \in 0..(N + 1) |-> IF j < i THEN l[j] ELSE IF j = i THEN l[i - 1] + 1 ELSE l[j - 1]]
<1>2. /\ N \in Nat /\ v \in Seq(Frames) /\ Len(v) = N + 1
      /\ \A j \in 1..(i - 1) : v[j] = w[j]
      /\ v[i] = FirstPart(w[i]) /\ v[i + 1] = SecondPart(w[i])
      /\ \A j \in (i + 2)..(N + 1) : v[j] = w[j - 1]
  BY SplitElements
<1>3. /\ l \in [0..N -> Nat] /\ l[0] = a /\ l[N] = z /\ \A j \in 1..N : Link(w[j], l[j - 1], l[j])
  BY <1>1 DEF Marks
<1>4. w[i] \in Frames
  OBVIOUS
<1>5. 2 * w[i].id = l[i - 1] + 2 /\ l[i] = l[i - 1] + 2
  BY <1>3 DEF Link
<1>a. i \in 1..N
  OBVIOUS
<1> HIDE DEF N, v
<1>6. /\ m \in [0..(N + 1) -> Nat] /\ \A j \in 0..(i - 1) : m[j] = l[j]
      /\ m[i] = l[i - 1] + 1 /\ \A j \in (i + 1)..(N + 1) : m[j] = l[j - 1]
  <2>1. N \in Nat /\ i \in Nat /\ i - 1 \in 0..N /\ l[i - 1] \in Nat
    BY <1>2, <1>3, <1>a
  <2>2. \A j \in 0..(i - 1) : j \in 0..N /\ j \in 0..(N + 1) /\ j < i
    BY <2>1, <1>a
  <2>3. \A j \in (i + 1)..(N + 1) : j - 1 \in 0..N /\ j \in 0..(N + 1) /\ ~(j < i) /\ j # i
    BY <2>1, <1>a
  <2>4. \A j \in 0..(N + 1) : j \in 0..(i - 1) \/ j = i \/ j \in (i + 1)..(N + 1)
    BY <2>1, <1>a
  <2>5. i \in 0..(N + 1) /\ ~(i < i)
    BY <2>1, <1>a
  <2>6. \A j \in 0..(i - 1) : m[j] = l[j] /\ m[j] \in Nat
    BY <1>3, <2>2
  <2>7. \A j \in (i + 1)..(N + 1) : m[j] = l[j - 1] /\ m[j] \in Nat
    BY <1>3, <2>3
  <2>8. m[i] = l[i - 1] + 1 /\ m[i] \in Nat
    BY <2>1, <2>5
  <2>9. m = [j \in 0..(N + 1) |-> m[j]] /\ \A j \in 0..(N + 1) : m[j] \in Nat
    BY <2>4, <2>6, <2>7, <2>8
  <2> HIDE DEF m
  <2>10. QED BY <2>6, <2>7, <2>8, <2>9
<1> HIDE DEF m
<1>7. ASSUME NEW j \in 1..(N + 1) PROVE Link(v[j], m[j - 1], m[j])
  <2>1. CASE j < i
    <3>1. j \in 1..(i - 1) /\ j - 1 \in 0..(i - 1) /\ j \in 0..(i - 1) /\ j \in 1..N
      BY <1>2, <1>a, <2>1
    <3>2. QED BY <1>2, <1>3, <1>6, <3>1
  <2>2. CASE j = i
    <3>1. m[j - 1] = l[i - 1] /\ m[j] = l[i - 1] + 1
      BY <1>2, <1>6, <1>a, <2>2
    <3>2. v[j] = FirstPart(w[i]) /\ v[j].op = "binary" /\ v[j].id = w[i].id /\ v[j].fin = FALSE
      BY <1>2, <1>4, <2>2 DEF FirstPart, Frames
    <3>3. QED BY <1>5, <3>1, <3>2 DEF Link, Data
  <2>3. CASE j = i + 1
    <3>1. m[j - 1] = l[i - 1] + 1 /\ m[j] = l[i] /\ l[i - 1] \in Nat
      BY <1>2, <1>3, <1>6, <1>a, <2>3
    <3>2. v[j] = SecondPart(w[i]) /\ v[j].op = "continuation" /\ v[j].id = w[i].id /\ v[j].fin = TRUE
      BY <1>2, <1>4, <2>3 DEF SecondPart, Frames
    <3>3. QED BY <1>5, <3>1, <3>2 DEF Link, Data
  <2>4. CASE j > i + 1
    <3>1. /\ j \in (i + 2)..(N + 1) /\ j - 1 \in (i + 1)..(N + 1) /\ j \in (i + 1)..(N + 1)
          /\ j - 1 \in 1..N
      BY <1>2, <1>a, <2>4
    <3>2. v[j] = w[j - 1] /\ m[j] = l[j - 1] /\ m[j - 1] = l[(j - 1) - 1]
      BY <1>2, <1>6, <3>1
    <3>3. QED BY <1>3, <3>1, <3>2
  <2>5. QED BY <1>2, <1>a, <2>1, <2>2, <2>3, <2>4
<1>8. m[0] = a /\ m[N + 1] = z
  <2>1. 0 \in 0..(i - 1) /\ N + 1 \in (i + 1)..(N + 1) /\ (N + 1) - 1 = N
    BY <1>2, <1>a
  <2>2. QED BY <1>3, <1>6, <2>1
<1>9. Marks(m, v, a, z)
  BY <1>2, <1>6, <1>7, <1>8 DEF Marks
<1>10. QED BY <1>9 DEF Linked, v

LEMMA LinkedSwap ==
  ASSUME NEW w \in Seq(Frames), NEW i \in 1..Len(w), i < Len(w), w[i].op = "continuation",
         w[i + 1].op \in {"ping", "pong"}, NEW a, NEW z, Linked(w, a, z)
  PROVE  Linked(Swap(w, i), a, z)
<1>1. PICK l : Marks(l, w, a, z)
  BY DEF Linked
<1> DEFINE N == Len(w)
           v == Swap(w, i)
           m == [j \in 0..N |-> IF j = i THEN l[i - 1] ELSE l[j]]
<1>2. /\ N \in Nat /\ v \in Seq(Frames) /\ Len(v) = N /\ v[i] = w[i + 1] /\ v[i + 1] = w[i]
      /\ \A j \in 1..N : j # i /\ j # i + 1 => v[j] = w[j]
  <2>1. N \in Nat /\ N = Len(w)
    OBVIOUS
  <2> HIDE DEF N
  <2>2. QED BY <2>1, SwapType
<1>3. /\ l \in [0..N -> Nat] /\ l[0] = a /\ l[N] = z /\ \A j \in 1..N : Link(w[j], l[j - 1], l[j])
  BY <1>1 DEF Marks
<1>4. i \in 1..N /\ i < N /\ i - 1 \in 0..N /\ i + 1 \in 1..N /\ (i + 1) - 1 = i
  OBVIOUS
<1> HIDE DEF N, v
<1>5. l[i + 1] = l[i] /\ Link(w[i], l[i - 1], l[i])
  <2>1. Link(w[i + 1], l[i], l[i + 1])
    BY <1>3, <1>4
  <2>2. QED BY <1>3, <1>4, <2>1 DEF Link, Data
<1>6. m \in [0..N -> Nat] /\ m[i] = l[i - 1] /\ \A j \in 0..N : j # i => m[j] = l[j]
  BY <1>2, <1>3, <1>4
<1> HIDE DEF m
<1>7. ASSUME NEW j \in 1..N PROVE Link(v[j], m[j - 1], m[j])
  <2>1. CASE j = i
    <3>1. m[j - 1] = l[i - 1] /\ m[j] = l[i - 1]
      BY <1>2, <1>4, <1>6, <2>1
    <3>2. QED BY <1>2, <2>1, <3>1 DEF Link, Data
  <2>2. CASE j = i + 1
    <3>1. m[j - 1] = l[i - 1] /\ m[j] = l[i]
      BY <1>2, <1>4, <1>5, <1>6, <2>2
    <3>2. QED BY <1>2, <1>5, <2>2, <3>1
  <2>3. CASE j # i /\ j # i + 1
    <3>1. j - 1 # i /\ j - 1 \in 0..N /\ j \in 0..N
      BY <1>2, <1>4, <2>3
    <3>2. m[j - 1] = l[j - 1] /\ m[j] = l[j] /\ v[j] = w[j]
      BY <1>2, <1>6, <2>3, <3>1
    <3>3. QED BY <1>3, <3>2
  <2>4. QED BY <2>1, <2>2, <2>3
<1>8. m[0] = a /\ m[N] = z
  BY <1>2, <1>3, <1>4, <1>6
<1>9. Marks(m, v, a, z)
  BY <1>2, <1>6, <1>7, <1>8 DEF Marks
<1>10. QED BY <1>9 DEF Linked, v

------------------------------------------------------------------------------
\* One direction: the frames w on the wire and t in the queue of a sender with
\* status st, its n messages of which m are written whole, and the mark a and the
\* status ps of the receiver.

Begun(t) == t # <<>> /\ Head(t).have > 0
RestOf(t) == IF Begun(t) THEN Tail(t) ELSE t
HalfOf(t) == IF Begun(t) /\ Head(t).op = "binary" THEN 2 ELSE 0

\* The wire leads from a to z, the frames not begun from there to the last message.
Flow(w, t, st, a, n, m, z) ==
  /\ Linked(w, a, z) /\ 2 * m <= z
  /\ st = "open" => Linked(RestOf(t), z, 2 * n)
  /\ st # "closed" => z = 2 * m + HalfOf(t)

Queueable(f, ps) ==
  /\ (f.op = "binary" => f.fin = TRUE) /\ f.op # "continuation" /\ f.cut = FALSE /\ f.have < Size(f)
  /\ (f.op = "close" => ps = "closed")

\* Only the front is partly written, and it is the last frame on the wire.
TxShape(t, w, st, ps) ==
  st # "closed" =>
    /\ \A i \in 1..Len(t) : Queueable(t[i], ps) /\ (i > 1 => t[i].have = 0)
    /\ Begun(t) => w # <<>> /\ w[Len(w)].have = Head(t).have /\ w[Len(w)].len = Head(t).len

\* Damaged data and a close frame of one's own come last, from an end that has closed.
WireShape(w, st, ps) ==
  \A i \in 1..Len(w) :
    /\ w[i].cut = TRUE /\ w[i].op \in Data => i = Len(w) /\ st = "closed"
    /\ w[i].op = "close" => ps = "closed" \/ (st = "closed" /\ i = Len(w))

Side(w, t, st, ps, a, n, m) ==
  /\ ps = "open" => \E z \in Nat : Flow(w, t, st, a, n, m, z)
  /\ TxShape(t, w, st, ps) /\ WireShape(w, st, ps)

\* The receiver leaves.
LEMMA SideDown ==
  ASSUME NEW w, NEW t, NEW st, NEW ps, NEW a, NEW n, NEW m, Side(w, t, st, ps, a, n, m),
         ps # "closed", NEW qs, qs # "open", NEW b
  PROVE  Side(w, t, st, qs, b, n, m)
<1>1. WireShape(w, st, qs)
  BY DEF Side, WireShape
<1>2. TxShape(t, w, st, qs)
  BY DEF Side, TxShape, Queueable
<1>3. QED BY <1>1, <1>2 DEF Side

\* The sender fails.
LEMMA SideFails ==
  ASSUME NEW w, NEW t, NEW ps, NEW a, NEW n, NEW m, Side(w, t, "open", ps, a, n, m), NEW k
  PROVE  Side(w, t, "failed", ps, a, k, m)
<1>1. WireShape(w, "failed", ps) /\ TxShape(t, w, "failed", ps)
  BY DEF Side, WireShape, TxShape
<1>2. \A z : Flow(w, t, "open", a, n, m, z) => Flow(w, t, "failed", a, k, m, z)
  BY DEF Flow
<1>3. QED BY <1>1, <1>2 DEF Side

LEMMA RestAppend ==
  ASSUME NEW t \in Seq(Frames), NEW f \in Frames, f.have = 0
  PROVE  /\ RestOf(Append(t, f)) = Append(RestOf(t), f) /\ HalfOf(Append(t, f)) = HalfOf(t)
         /\ RestOf(t) \in Seq(Frames) /\ (Begun(Append(t, f)) <=> Begun(t))
         /\ Begun(t) => Head(Append(t, f)) = Head(t)
<1> DEFINE u == Append(t, f)
<1>1. CASE t = <<>>
  <2>1. u # <<>> /\ Head(u) = f
    BY <1>1
  <2> HIDE DEF u
  <2>2. ~Begun(u) /\ ~Begun(t)
    BY <1>1, <2>1 DEF Begun
  <2>3. QED BY <2>2 DEF RestOf, HalfOf, u
<1>2. CASE t # <<>>
  <2>1. u # <<>> /\ Head(u) = Head(t) /\ Tail(t) \in Seq(Frames)
    BY <1>2
  <2>2. Tail(u) = Append(Tail(t), f)
    BY <1>2
  <2> HIDE DEF u
  <2>3. Begun(u) <=> Begun(t)
    BY <1>2, <2>1 DEF Begun
  <2>4. CASE Begun(t)
    BY <2>1, <2>2, <2>3, <2>4 DEF RestOf, HalfOf, u
  <2>5. CASE ~Begun(t)
    BY <2>1, <2>3, <2>5 DEF RestOf, HalfOf, u
  <2>6. QED BY <2>4, <2>5
<1>3. QED BY <1>1, <1>2

\* A frame is queued: message n + 1 or a control frame.
LEMMA SidePush ==
  ASSUME NEW w, NEW t \in Seq(Frames), NEW ps, NEW a, NEW n \in Nat, NEW m \in Nat,
         Side(w, t, "open", ps, a, n, m), NEW f \in Frames, f.have = 0, Queueable(f, ps),
         NEW k \in Nat, Link(f, 2 * n, 2 * k)
  PROVE  Side(w, Append(t, f), "open", ps, a, k, m)
<1> DEFINE u == Append(t, f)
<1>1. /\ u \in Seq(Frames) /\ Len(u) = Len(t) + 1 /\ Len(t) \in Nat /\ u[Len(t) + 1] = f
      /\ \A i \in 1..Len(t) : u[i] = t[i]
  OBVIOUS
<1>2. /\ RestOf(u) = Append(RestOf(t), f) /\ HalfOf(u) = HalfOf(t) /\ RestOf(t) \in Seq(Frames)
      /\ (Begun(u) <=> Begun(t)) /\ (Begun(t) => Head(u) = Head(t))
  BY RestAppend
<1> HIDE DEF u
<1>3. TxShape(u, w, "open", ps)
  <2>1. \A i \in 1..Len(t) : Queueable(t[i], ps) /\ (i > 1 => t[i].have = 0)
    BY DEF Side, TxShape
  <2>2. \A i \in 1..Len(u) : i \in 1..Len(t) \/ i = Len(t) + 1
    BY <1>1
  <2>3. \A i \in 1..Len(u) : Queueable(u[i], ps) /\ (i > 1 => u[i].have = 0)
    BY <1>1, <2>1, <2>2
  <2>4. Begun(u) => w # <<>> /\ w[Len(w)].have = Head(u).have /\ w[Len(w)].len = Head(u).len
    BY <1>2 DEF Side, TxShape
  <2>5. QED BY <2>3, <2>4 DEF TxShape
<1>4. ASSUME NEW z \in Nat, Flow(w, t, "open", a, n, m, z) PROVE Flow(w, u, "open", a, k, m, z)
  <2>1. Linked(RestOf(t), z, 2 * n)
    BY <1>4 DEF Flow
  <2> DEFINE x == 2 * n
             y == 2 * k
  <2>2. y \in Nat /\ Linked(RestOf(t), z, x) /\ Link(f, x, y)
    BY <2>1
  <2> HIDE DEF x, y
  <2>3. Linked(Append(RestOf(t), f), z, y)
    BY <1>2, <2>2, LinkedAppend
  <2>4. QED BY <1>2, <1>4, <2>3 DEF Flow, y
<1>5. Side(w, u, "open", ps, a, k, m)
  BY <1>3, <1>4 DEF Side
<1>6. QED BY <1>5 DEF u

\* A frame is parsed.
LEMMA SideParsed ==
  ASSUME NEW w \in Seq(Frames), w # <<>>, Complete(Head(w)), NEW t \in Seq(Frames), NEW st, NEW a, NEW n, NEW m,
         Side(w, t, st, "open", a, n, m)
  PROVE  \E b \in Nat : Link(Head(w), a, b) /\ Side(Tail(w), t, st, "open", b, n, m)
<1> DEFINE v == Tail(w)
           N == Len(w)
<1>1. PICK z \in Nat : Flow(w, t, st, a, n, m, z)
  BY DEF Side
<1>2. PICK b \in Nat : Link(Head(w), a, b) /\ Linked(v, b, z)
  BY <1>1, LinkedTail DEF Flow
<1>3. /\ v \in Seq(Frames) /\ N \in Nat /\ N >= 1 /\ Len(v) = N - 1 /\ Head(w) = w[1]
      /\ \A i \in 1..(N - 1) : v[i] = w[i + 1]
  OBVIOUS
<1> HIDE DEF v
<1>4. Flow(v, t, st, b, n, m, z)
  BY <1>1, <1>2 DEF Flow
<1>5. WireShape(v, st, "open")
  <2>1. \A i \in 1..Len(v) : v[i] = w[i + 1] /\ i + 1 \in 1..N /\ (i + 1 = N => i = Len(v))
    BY <1>3
  <2>2. QED BY <2>1 DEF Side, WireShape
<1>6. TxShape(t, v, st, "open")
  <2>1. SUFFICES ASSUME st # "closed", Begun(t)
                 PROVE  v # <<>> /\ v[Len(v)].have = Head(t).have /\ v[Len(v)].len = Head(t).len
    BY DEF Side, TxShape
  <2>2. w[N].have = Head(t).have /\ w[N].len = Head(t).len
    BY <2>1 DEF Side, TxShape
  <2>3. 1 \in 1..Len(t) /\ Head(t) = t[1]
    BY <2>1 DEF Begun
  <2>4. Queueable(Head(t), "open")
    BY <2>1, <2>3 DEF Side, TxShape
  <2>5. Head(t).have < Head(t).len + 1 /\ Head(t) \in Frames /\ Head(t).have \in Nat /\ Head(t).len \in Nat
    <3>1. Head(t) \in Frames
      BY <2>3
    <3> DEFINE f == Head(t)
    <3> HIDE DEF f
    <3>2. f \in Frames /\ Queueable(f, "open")
      BY <2>4, <3>1 DEF f
    <3>3. f.have < f.len + 1 /\ f.have \in Nat /\ f.len \in Nat
      BY <3>2 DEF Queueable, Size, Frames
    <3>4. QED BY <3>1, <3>3 DEF f
  <2>6. w[1].have = w[1].len + 1
    BY <1>3 DEF Complete, Size
  <2>7. N # 1
    BY <2>2, <2>5, <2>6
  <2>8. N - 1 \in 1..(N - 1) /\ (N - 1) + 1 = N /\ Len(v) # 0
    BY <1>3, <2>7
  <2>9. v[Len(v)] = w[N] /\ v # <<>>
    BY <1>3, <2>8
  <2>10. QED BY <2>2, <2>9
<1>7. Side(v, t, st, "open", b, n, m)
  BY <1>4, <1>5, <1>6 DEF Side
<1>8. QED BY <1>2, <1>7 DEF v

\* The sender closes; the last frame may be cut, or a close frame follows.
LEMMA SideClosed ==
  ASSUME NEW w \in Seq(Frames), NEW t, NEW st, st # "closed", NEW ps, NEW a, NEW n, NEW m,
         Side(w, t, st, ps, a, n, m), NEW v \in {w, CloseFrame(w)}, NEW u
  PROVE  Side(v, u, "closed", ps, a, n, m)
<1>1. TxShape(u, v, "closed", ps)
  BY DEF TxShape
<1>2. \A i \in 1..Len(w) : (w[i].cut = TRUE => w[i].op \notin Data) /\ (w[i].op = "close" => ps = "closed")
  BY DEF Side, WireShape
<1>3. WireShape(w, "closed", ps)
  BY <1>2 DEF WireShape
<1>4. \A z : Flow(w, t, st, a, n, m, z) => Linked(w, a, z) /\ 2 * m <= z
  BY DEF Flow
<1>5. \A x, z : Linked(x, a, z) /\ 2 * m <= z => Flow(x, u, "closed", a, n, m, z)
  BY DEF Flow
<1>6. CASE v = w
  <2>1. \A z : Flow(w, t, st, a, n, m, z) => Flow(w, u, "closed", a, n, m, z)
    BY <1>4, <1>5
  <2>2. QED BY <1>1, <1>3, <1>6, <2>1 DEF Side
<1>7. CASE v = CloseFrame(w) /\ \A i \in 1..Len(w) : Complete(w[i])
  <2> DEFINE x == [Frame("close", 0, 0, TRUE) EXCEPT !.have = 1]
  <2>1. x \in Frames /\ x.op = "close" /\ x.cut = FALSE
    BY DEF Frame, Frames, Ops
  <2>2. v = Append(w, x)
    BY <1>7 DEF CloseFrame
  <2> HIDE DEF x
  <2>3. Len(v) = Len(w) + 1 /\ Len(w) \in Nat /\ v[Len(w) + 1] = x /\ \A i \in 1..Len(w) : v[i] = w[i]
    BY <2>1, <2>2
  <2>4. \A i \in 1..Len(v) : i \in 1..Len(w) \/ i = Len(v)
    BY <2>3
  <2>5. WireShape(v, "closed", ps)
    BY <1>2, <2>1, <2>3, <2>4 DEF WireShape
  <2>6. \A z : Link(x, z, z)
    BY <2>1 DEF Link, Data
  <2>7. ASSUME NEW z \in Nat, Linked(w, a, z) PROVE Linked(v, a, z)
    BY <2>1, <2>2, <2>6, <2>7, LinkedAppend
  <2>8. \A z \in Nat : Flow(w, t, st, a, n, m, z) => Flow(v, u, "closed", a, n, m, z)
    BY <1>4, <1>5, <2>7
  <2>9. QED BY <1>1, <2>5, <2>8 DEF Side
<1>8. CASE v = CloseFrame(w) /\ ~\A i \in 1..Len(w) : Complete(w[i])
  <2> DEFINE N == Len(w)
             x == [w[N] EXCEPT !.have = @ + 1, !.cut = TRUE]
  <2>1. v = Put(w, N, x)
    BY <1>8 DEF CloseFrame, Put
  <2>2. N \in Nat /\ N \in 1..N
    BY <1>8
  <2>3. w[N] \in Frames
    BY <2>2
  <2>4. x \in Frames /\ Alike(x, w[N])
    <3> DEFINE f == w[N]
               k == f.have + 1
    <3>1. f \in Frames /\ k \in Nat /\ x = [f EXCEPT !.have = k, !.cut = TRUE]
      BY <2>3 DEF Frames
    <3> HIDE DEF f, k, x
    <3>2. QED BY <3>1 DEF Frames, Alike, f
  <2> HIDE DEF x
  <2>5. /\ v \in Seq(Frames) /\ Len(v) = N /\ v[N] = x /\ \A j \in 1..N : j # N => v[j] = w[j]
    BY <2>1, <2>2, <2>4, Edited
  <2>6. \A j \in 1..N : Alike(v[j], w[j])
    BY <2>4, <2>5 DEF Alike
  <2>7. WireShape(v, "closed", ps)
    BY <1>2, <2>5, <2>6 DEF WireShape, Alike
  <2>8. \A z : Linked(w, a, z) => Linked(v, a, z)
    BY <2>5, <2>6, LinkedAlike
  <2>9. \A z \in Nat : Flow(w, t, st, a, n, m, z) => Flow(v, u, "closed", a, n, m, z)
    BY <1>4, <1>5, <2>8
  <2>10. QED BY <1>1, <2>7, <2>9 DEF Side
<1>9. QED BY <1>6, <1>7, <1>8

\* The front of the queue that is partly written is incomplete on the wire.
LEMMA BegunIncomplete ==
  ASSUME NEW w \in Seq(Frames), NEW t \in Seq(Frames), NEW st, st # "closed", NEW ps,
         TxShape(t, w, st, ps), Begun(t)
  PROVE  /\ w # <<>> /\ ~Complete(w[Len(w)]) /\ w[Len(w)].have = Head(t).have
         /\ w[Len(w)].len = Head(t).len
<1> DEFINE f == Head(t)
<1>1. w # <<>> /\ w[Len(w)].have = f.have /\ w[Len(w)].len = f.len
  BY DEF TxShape
<1>2. 1 \in 1..Len(t) /\ f = t[1] /\ f \in Frames
  BY DEF Begun
<1>3. Queueable(f, ps)
  BY <1>2 DEF TxShape
<1> HIDE DEF f
<1>4. f.have < f.len + 1 /\ f.have \in Nat /\ f.len \in Nat
  BY <1>2, <1>3 DEF Queueable, Size, Frames
<1>5. ~Complete(w[Len(w)])
  BY <1>1, <1>4 DEF Complete, Size
<1>6. QED BY <1>1, <1>5 DEF f

LEMMA SideSplit ==
  ASSUME NEW w \in Seq(Frames), NEW t \in Seq(Frames), NEW st, NEW ps, NEW a, NEW n, NEW m,
         Side(w, t, st, ps, a, n, m), NEW i \in 1..Len(w), w[i].len > 1, w[i].op = "binary", w[i].fin = TRUE,
         w[i].cut = FALSE, Complete(w[i])
  PROVE  Side(SplitAt(w, i), t, st, ps, a, n, m)
<1> DEFINE v == SplitAt(w, i)
           N == Len(w)
<1>1. N \in Nat /\ i \in 1..N /\ w[i] \in Frames
  OBVIOUS
<1>2. v \in Seq(Frames) /\ Len(v) = N + 1 /\ (\A j \in 1..(i - 1) : v[j] = w[j])
  BY SplitElements
<1>3. v[i] = FirstPart(w[i]) /\ v[i + 1] = SecondPart(w[i]) /\ \A j \in (i + 2)..(N + 1) : v[j] = w[j - 1]
  BY SplitElements
<1>4. /\ v[i].op = "binary" /\ v[i].cut = FALSE /\ v[i + 1].op = "continuation" /\ v[i + 1].cut = FALSE
  BY <1>1, <1>3 DEF FirstPart, SecondPart, Frames
<1>5. \A z : Linked(w, a, z) => Linked(v, a, z)
  BY LinkedSplit
<1> HIDE DEF v
<1>6. \A z : Flow(w, t, st, a, n, m, z) => Flow(v, t, st, a, n, m, z)
  BY <1>5 DEF Flow
<1>7. WireShape(v, st, ps)
  <2>1. ASSUME NEW j \in 1..Len(v), (v[j].cut = TRUE /\ v[j].op \in Data) \/ v[j].op = "close"
        PROVE  /\ v[j].cut = TRUE /\ v[j].op \in Data => j = Len(v) /\ st = "closed"
               /\ v[j].op = "close" => ps = "closed" \/ (st = "closed" /\ j = Len(v))
    <3>1. j # i /\ j # i + 1
      BY <1>4, <2>1
    <3>2. CASE j < i
      <4>1. j \in 1..(i - 1) /\ j \in 1..N /\ j # N
        BY <1>1, <3>2
      <4>2. v[j] = w[j]
        BY <1>2, <4>1
      <4>3. QED BY <4>1, <4>2 DEF Side, WireShape
    <3>3. CASE j > i + 1
      <4> DEFINE k == j - 1
      <4> DEFINE M == Len(v)
      <4>a. N \in Nat /\ i \in Nat /\ i >= 1 /\ M = N + 1 /\ j \in 1..M
        BY <1>1, <1>2
      <4> HIDE DEF N, M
      <4>b. j \in (i + 2)..(N + 1) /\ k \in 1..N /\ (k = N => j = M)
        BY <3>3, <4>a
      <4>1. j \in (i + 2)..(N + 1) /\ k \in 1..N /\ (k = N => j = Len(v))
        BY <4>b DEF M
      <4>2. v[j] = w[k]
        BY <1>3, <4>1
      <4>3. WireShape(w, st, ps)
        BY DEF Side
      <4> HIDE DEF k, N
      <4>4. /\ w[k].cut = TRUE /\ w[k].op \in Data => k = N /\ st = "closed"
            /\ w[k].op = "close" => ps = "closed" \/ (st = "closed" /\ k = N)
        BY <4>1, <4>3 DEF WireShape, N
      <4>5. QED BY <4>1, <4>2, <4>4, Zenon
    <3>4. j < i \/ j > i + 1
      BY <1>1, <1>2, <3>1
    <3>5. QED BY <3>2, <3>3, <3>4
  <2>2. QED BY <2>1 DEF WireShape
<1>8. TxShape(t, v, st, ps)
  <2>1. SUFFICES ASSUME st # "closed", Begun(t)
                 PROVE  v # <<>> /\ v[Len(v)].have = Head(t).have /\ v[Len(v)].len = Head(t).len
    BY DEF Side, TxShape
  <2>2. ~Complete(w[N]) /\ w[N].have = Head(t).have /\ w[N].len = Head(t).len
    BY <2>1, BegunIncomplete DEF Side
  <2>3. i # N
    BY <2>2
  <2>4. N + 1 \in (i + 2)..(N + 1) /\ (N + 1) - 1 = N /\ Len(v) # 0
    BY <1>1, <1>2, <2>3
  <2>5. v[Len(v)] = w[N] /\ v # <<>>
    BY <1>2, <1>3, <2>4
  <2>6. QED BY <2>2, <2>5
<1>9. Side(v, t, st, ps, a, n, m)
  BY <1>6, <1>7, <1>8 DEF Side
<1>10. QED BY <1>9 DEF v

LEMMA SideSwap ==
  ASSUME NEW w \in Seq(Frames), NEW t \in Seq(Frames), NEW st, NEW ps, NEW a, NEW n, NEW m,
         Side(w, t, st, ps, a, n, m), NEW i \in 1..Len(w), i < Len(w), w[i].op = "continuation",
         w[i + 1].op \in {"ping", "pong"}, Complete(w[i + 1])
  PROVE  Side(Swap(w, i), t, st, ps, a, n, m)
<1> DEFINE v == Swap(w, i)
           N == Len(w)
<1>1. N \in Nat /\ i \in 1..N /\ i < N /\ i # N
  OBVIOUS
<1>2. /\ v \in Seq(Frames) /\ Len(v) = N /\ v[i] = w[i + 1] /\ v[i + 1] = w[i]
  BY SwapType
<1>3. \A j \in 1..N : j # i /\ j # i + 1 => v[j] = w[j]
  BY SwapType
<1>4. \A z : Linked(w, a, z) => Linked(v, a, z)
  BY LinkedSwap
<1> HIDE DEF v
<1>5. \A z : Flow(w, t, st, a, n, m, z) => Flow(v, t, st, a, n, m, z)
  BY <1>4 DEF Flow
<1>6. ~(w[i].cut = TRUE)
  BY <1>1 DEF Side, WireShape, Data
<1>7. WireShape(v, st, ps)
  <2>1. ASSUME NEW j \in 1..Len(v), (v[j].cut = TRUE /\ v[j].op \in Data) \/ v[j].op = "close"
        PROVE  /\ v[j].cut = TRUE /\ v[j].op \in Data => j = Len(v) /\ st = "closed"
               /\ v[j].op = "close" => ps = "closed" \/ (st = "closed" /\ j = Len(v))
    <3>1. j # i /\ j # i + 1
      BY <1>2, <1>6, <2>1 DEF Data
    <3>2. v[j] = w[j] /\ j \in 1..N
      BY <1>2, <1>3, <3>1
    <3>3. QED BY <1>2, <3>2 DEF Side, WireShape
  <2>2. QED BY <2>1 DEF WireShape
<1>8. TxShape(t, v, st, ps)
  <2>1. SUFFICES ASSUME st # "closed", Begun(t)
                 PROVE  v # <<>> /\ v[Len(v)].have = Head(t).have /\ v[Len(v)].len = Head(t).len
    BY DEF Side, TxShape
  <2>2. ~Complete(w[N]) /\ w[N].have = Head(t).have /\ w[N].len = Head(t).len
    BY <2>1, BegunIncomplete DEF Side
  <2>3. N # i + 1 /\ N \in 1..N /\ Len(v) # 0
    BY <1>1, <1>2, <2>2
  <2>4. v[Len(v)] = w[N] /\ v # <<>>
    BY <1>1, <1>2, <1>3, <2>3
  <2>5. QED BY <2>2, <2>4
<1>9. Side(v, t, st, ps, a, n, m)
  BY <1>5, <1>7, <1>8 DEF Side
<1>10. QED BY <1>9 DEF v

\* One write: k more units of the front frame.
Grown(f, k) == [f EXCEPT !.have = f.have + k]
After(t, k) == IF Head(t).have + k = Size(Head(t)) THEN Tail(t) ELSE Put(t, 1, Grown(Head(t), k))
Whole(t, k, m) == IF Head(t).op = "binary" /\ Head(t).have + k = Size(Head(t)) THEN m + 1 ELSE m

LEMMA Appended ==
  ASSUME NEW w \in Seq(Frames), NEW f \in Frames
  PROVE  /\ Append(w, f) \in Seq(Frames) /\ Len(Append(w, f)) = Len(w) + 1 /\ Append(w, f)[Len(w) + 1] = f
         /\ \A i \in 1..Len(w) : Append(w, f)[i] = w[i]
OBVIOUS

LEMMA GrownFacts ==
  ASSUME NEW f \in Frames, NEW k \in Nat
  PROVE  /\ Grown(f, k) \in Frames /\ Alike(Grown(f, k), f) /\ Grown(f, k).have = f.have + k
         /\ Grown(f, k).len = f.len /\ Grown(f, k).cut = f.cut
<1> DEFINE h == f.have + k
<1>1. h \in Nat
  BY DEF Frames
<1>2. Grown(f, k) = [f EXCEPT !.have = h]
  BY DEF Grown
<1> HIDE DEF h
<1>3. /\ Grown(f, k) \in Frames /\ Alike(Grown(f, k), f) /\ Grown(f, k).have = h
      /\ Grown(f, k).len = f.len /\ Grown(f, k).cut = f.cut
  BY <1>1, <1>2 DEF Frames, Alike
<1>4. QED BY <1>3 DEF h

\* The queue u after a write: the same frames are not begun.
QueueLeft(t, u, ps, k, m, j) ==
  /\ u \in Seq(Frames) /\ RestOf(u) = Tail(t)
  /\ 2 * j + HalfOf(u) = 2 * m + IF Head(t).op = "binary" THEN 2 ELSE 0
  /\ \A i \in 1..Len(u) : Queueable(u[i], ps) /\ (i > 1 => u[i].have = 0)
  /\ Begun(u) => Head(u).have = Head(t).have + k /\ Head(u).len = Head(t).len
LEMMA QueueAfter ==
  ASSUME NEW t \in Seq(Frames), t # <<>>, NEW ps, NEW k \in Nat, k >= 1, Head(t).have + k <= Size(Head(t)),
         \A i \in 1..Len(t) : Queueable(t[i], ps) /\ (i > 1 => t[i].have = 0), NEW m \in Nat
  PROVE  QueueLeft(t, After(t, k), ps, k, m, Whole(t, k, m))
<1> DEFINE f == Head(t)
           u == After(t, k)
           N == Len(t)
           x == Grown(f, k)
<1>1. /\ N \in Nat /\ N >= 1 /\ f = t[1] /\ f \in Frames /\ Tail(t) \in Seq(Frames) /\ Len(Tail(t)) = N - 1
      /\ \A i \in 1..(N - 1) : Tail(t)[i] = t[i + 1]
  OBVIOUS
<1>2. f.have \in Nat /\ f.len \in Nat /\ Size(f) = f.len + 1
  <2> HIDE DEF f
  <2>1. QED BY <1>1 DEF Frames, Size
<1>3. x \in Frames /\ Alike(x, f) /\ x.have = f.have + k /\ x.len = f.len /\ x.cut = f.cut
  <2> HIDE DEF f
  <2>1. QED BY <1>1, GrownFacts
<1>4. Queueable(f, ps)
  BY <1>1
<1>5. CASE f.have + k = Size(f)
  <2>1. u = Tail(t)
    BY <1>5 DEF After
  <2>2. ASSUME NEW i \in 1..Len(u) PROVE Queueable(u[i], ps) /\ u[i].have = 0
    <3> DEFINE j == i + 1
    <3>1. u[i] = t[j] /\ j \in 1..N /\ j > 1
      BY <1>1, <2>1
    <3> HIDE DEF j, u
    <3>2. QED BY <3>1
  <2>3. ~Begun(u)
    <3>1. u # <<>> => 1 \in 1..Len(u) /\ Head(u) = u[1]
      BY <1>1, <2>1
    <3>2. u # <<>> => Head(u).have = 0
      BY <2>2, <3>1
    <3> HIDE DEF u
    <3>3. QED BY <3>2 DEF Begun
  <2>4. RestOf(u) = Tail(t) /\ HalfOf(u) = 0
    BY <2>1, <2>3 DEF RestOf, HalfOf
  <2>5. Whole(t, k, m) = IF f.op = "binary" THEN m + 1 ELSE m
    BY <1>5 DEF Whole
  <2> HIDE DEF u, f
  <2>6. 2 * Whole(t, k, m) + HalfOf(u) = 2 * m + IF f.op = "binary" THEN 2 ELSE 0
    BY <2>4, <2>5
  <2>7. QED BY <1>1, <2>1, <2>2, <2>3, <2>4, <2>6 DEF u, f, QueueLeft
<1>6. CASE f.have + k # Size(f)
  <2>1. u = Put(t, 1, x)
    BY <1>6 DEF After
  <2> HIDE DEF x, u, f
  <2>2. /\ u \in Seq(Frames) /\ Len(u) = N /\ u[1] = x /\ \A i \in 1..N : i # 1 => u[i] = t[i]
    BY <1>1, <1>3, <2>1, Edited
  <2>3. u # <<>> /\ Head(u) = x
    BY <1>1, <2>2
  <2>4. Begun(u)
    BY <1>2, <1>3, <2>3 DEF Begun
  <2>5. Tail(u) = Tail(t)
    <3>1. Len(Tail(u)) = N - 1 /\ \A i \in 1..(N - 1) : Tail(u)[i] = u[i + 1]
      BY <1>1, <2>2, <2>3
    <3>2. \A i \in 1..(N - 1) : i + 1 \in 1..N /\ i + 1 # 1
      BY <1>1
    <3>3. \A i \in 1..(N - 1) : Tail(u)[i] = Tail(t)[i]
      BY <1>1, <2>2, <3>1, <3>2
    <3>4. Tail(u) \in Seq(Frames)
      BY <2>2, <2>3
    <3> DEFINE c == Tail(u)
               d == Tail(t)
    <3>5. c \in Seq(Frames) /\ d \in Seq(Frames) /\ Len(c) = Len(d) /\ \A i \in 1..Len(c) : c[i] = d[i]
      BY <1>1, <3>1, <3>3, <3>4
    <3> HIDE DEF c, d
    <3>6. c = d
      BY <3>5
    <3>7. QED BY <3>6 DEF c, d
  <2>6. Queueable(x, ps)
    <3>1. x.have < Size(x)
      BY <1>2, <1>3, <1>6 DEF Size, f
    <3>2. QED BY <1>3, <1>4, <3>1 DEF Queueable, Alike
  <2>7. \A i \in 1..N : Queueable(u[i], ps) /\ (i > 1 => u[i].have = 0)
    BY <2>2, <2>6
  <2>8. RestOf(u) = Tail(t) /\ HalfOf(u) = IF f.op = "binary" THEN 2 ELSE 0
    BY <1>3, <2>3, <2>4, <2>5 DEF RestOf, HalfOf, Alike
  <2>9. Whole(t, k, m) = m
    BY <1>6 DEF Whole, f
  <2>10. 2 * Whole(t, k, m) + HalfOf(u) = 2 * m + IF f.op = "binary" THEN 2 ELSE 0
    BY <2>8, <2>9
  <2>11. QED BY <1>3, <2>2, <2>3, <2>7, <2>8, <2>10 DEF u, f, QueueLeft
<1>7. QED BY <1>5, <1>6

\* The wire after a write.
Reaches(v, t, a, n, m) ==
  \E z \in Nat : /\ Linked(v, a, z) /\ Linked(Tail(t), z, 2 * n)
                 /\ z = 2 * m + IF Head(t).op = "binary" THEN 2 ELSE 0
WireLeft(v, t, ps, a, n, m, k) ==
  /\ v \in Seq(Frames) /\ v # <<>> /\ v[Len(v)].have = Head(t).have + k /\ v[Len(v)].len = Head(t).len
  /\ WireShape(v, "open", ps) /\ (ps = "open" => Reaches(v, t, a, n, m))
LEMMA WireAfter ==
  ASSUME NEW w \in Seq(Frames), NEW t \in Seq(Frames), t # <<>>, NEW ps, NEW a, NEW n \in Nat, NEW m \in Nat,
         Side(w, t, "open", ps, a, n, m), NEW k \in Nat, NEW v, v = Written(w, Head(t), k)
  PROVE  WireLeft(v, t, ps, a, n, m, k)
<1> DEFINE f == Head(t)
           N == Len(w)
<1>1. f \in Frames /\ f = t[1] /\ 1 \in 1..Len(t) /\ N \in Nat
  OBVIOUS
<1>2. Queueable(f, ps)
  BY <1>1 DEF Side, TxShape
<1>3. WireShape(w, "open", ps) /\ TxShape(t, w, "open", ps)
  BY DEF Side
<1>4. f.have \in Nat
  <2> HIDE DEF f
  <2>1. QED BY <1>1 DEF Frames
<1>5. CASE f.have = 0
  <2> DEFINE x == Grown(f, k)
  <2>1. x \in Frames /\ Alike(x, f) /\ x.have = f.have + k /\ x.len = f.len /\ x.cut = f.cut
    <3> HIDE DEF f
    <3>1. QED BY <1>1, GrownFacts
  <2>2. v = Append(w, x)
    <3>1. f.have + k = k
      BY <1>5
    <3>2. v = Append(w, [f EXCEPT !.have = k])
      BY <1>5 DEF Written
    <3>3. QED BY <3>1, <3>2 DEF Grown
  <2> HIDE DEF x, f
  <2>3. v \in Seq(Frames) /\ Len(v) = N + 1 /\ v[N + 1] = x /\ \A i \in 1..N : v[i] = w[i]
    <3>1. /\ Append(w, x) \in Seq(Frames) /\ Len(Append(w, x)) = Len(w) + 1 /\ Append(w, x)[Len(w) + 1] = x
          /\ \A i \in 1..Len(w) : Append(w, x)[i] = w[i]
      BY <2>1, Appended, Zenon
    <3>2. QED BY <2>2, <3>1, Zenon
  <2>4. v # <<>> /\ \A i \in 1..Len(v) : i \in 1..N \/ i = N + 1
    BY <1>1, <2>3
  <2>5. \A i \in 1..N : (w[i].cut = TRUE => w[i].op \notin Data) /\ (w[i].op = "close" => ps = "closed")
    BY <1>3 DEF WireShape
  <2>6. x.cut = FALSE /\ (x.op = "close" => ps = "closed")
    BY <1>2, <2>1 DEF Queueable, Alike
  <2>7. WireShape(v, "open", ps)
    BY <2>3, <2>4, <2>5, <2>6 DEF WireShape
  <2>8. ASSUME ps = "open"
        PROVE  Reaches(v, t, a, n, m)
    <3>1. PICK y \in Nat : Flow(w, t, "open", a, n, m, y)
      BY <2>8 DEF Side
    <3>2. ~Begun(t)
      BY <1>5 DEF Begun, f
    <3>3. Linked(w, a, y) /\ Linked(t, y, 2 * n) /\ y = 2 * m + 0
      BY <3>1, <3>2 DEF Flow, RestOf, HalfOf
    <3> DEFINE c == 2 * n
    <3>4. Linked(t, y, c)
      BY <3>3
    <3> HIDE DEF c
    <3>5. PICK b \in Nat : Link(Head(t), y, b) /\ Linked(Tail(t), b, c)
      BY <3>4, LinkedTail
    <3>6. Link(f, y, b) /\ (f.op = "binary" => f.fin = TRUE) /\ f.op # "continuation"
      BY <1>2, <3>5 DEF f, Queueable
    <3>7. Link(x, y, b)
      BY <2>1, <3>6 DEF Link, Alike
    <3>8. Linked(v, a, b)
      BY <2>1, <2>2, <3>3, <3>7, LinkedAppend
    <3>9. b = y + IF f.op = "binary" THEN 2 ELSE 0
      BY <3>6 DEF Link, Data
    <3>10. b = 2 * m + IF f.op = "binary" THEN 2 ELSE 0
      BY <3>3, <3>9
    <3>11. QED BY <3>5, <3>8, <3>10 DEF c, f, Reaches
  <2>9. v[Len(v)] = x
    BY <2>3
  <2>10. QED BY <2>1, <2>3, <2>4, <2>7, <2>8, <2>9 DEF f, WireLeft
<1>6. CASE f.have # 0
  <2>1. Begun(t)
    BY <1>4, <1>6 DEF Begun
  <2>2. w # <<>> /\ w[N].have = f.have /\ w[N].len = f.len
    BY <2>1, <1>3 DEF TxShape
  <2>3. N \in 1..N /\ w[N] \in Frames
    BY <2>2
  <2> DEFINE g == w[N]
             x == Grown(g, k)
  <2>4. v = Put(w, N, x)
    <3>1. v = [w EXCEPT ![Len(w)].have = @ + k]
      BY <1>6 DEF Written
    <3>2. QED BY <3>1 DEF Put, Grown
  <2>5. x \in Frames /\ Alike(x, g) /\ x.have = g.have + k /\ x.len = g.len /\ x.cut = g.cut
    <3> HIDE DEF g
    <3>1. QED BY <2>3, GrownFacts DEF g
  <2> HIDE DEF x
  <2>6. /\ v \in Seq(Frames) /\ Len(v) = N /\ v[N] = x /\ \A j \in 1..N : j # N => v[j] = w[j]
    BY <2>3, <2>4, <2>5, Edited
  <2>7. \A j \in 1..N : Alike(v[j], w[j]) /\ v[j].cut = w[j].cut
    BY <2>5, <2>6 DEF Alike
  <2>8. WireShape(v, "open", ps)
    BY <1>3, <2>6, <2>7 DEF WireShape, Alike
  <2>9. \A z : Linked(w, a, z) => Linked(v, a, z)
    BY <2>6, <2>7, LinkedAlike
  <2>10. v # <<>>
    BY <2>3, <2>6
  <2>11. ASSUME ps = "open"
         PROVE  Reaches(v, t, a, n, m)
    <3>1. PICK y \in Nat : Flow(w, t, "open", a, n, m, y)
      BY <2>11 DEF Side
    <3>2. Linked(w, a, y) /\ Linked(Tail(t), y, 2 * n) /\ y = 2 * m + IF f.op = "binary" THEN 2 ELSE 0
      BY <3>1, <2>1 DEF Flow, RestOf, HalfOf
    <3>3. QED BY <2>9, <3>2 DEF Reaches
  <2>12. QED BY <2>2, <2>5, <2>6, <2>8, <2>10, <2>11 DEF f, WireLeft
<1>7. QED BY <1>5, <1>6

LEMMA SideWrite ==
  ASSUME NEW w \in Seq(Frames), NEW t \in Seq(Frames), t # <<>>, NEW ps, NEW a, NEW n \in Nat, NEW m \in Nat,
         Side(w, t, "open", ps, a, n, m), NEW k \in Nat, k >= 1, Head(t).have + k <= Size(Head(t)),
         NEW v, v = Written(w, Head(t), k), NEW u, u = After(t, k), NEW j, j = Whole(t, k, m)
  PROVE  Side(v, u, "open", ps, a, n, j)
<1>1. \A i \in 1..Len(t) : Queueable(t[i], ps) /\ (i > 1 => t[i].have = 0)
  BY DEF Side, TxShape
<1>2. /\ RestOf(u) = Tail(t) /\ 2 * j + HalfOf(u) = 2 * m + IF Head(t).op = "binary" THEN 2 ELSE 0
      /\ \A i \in 1..Len(u) : Queueable(u[i], ps) /\ (i > 1 => u[i].have = 0)
      /\ Begun(u) => Head(u).have = Head(t).have + k /\ Head(u).len = Head(t).len
  <2>1. QueueLeft(t, After(t, k), ps, k, m, Whole(t, k, m))
    BY <1>1, QueueAfter
  <2>2. QueueLeft(t, u, ps, k, m, j)
    BY <2>1, Zenon
  <2>3. QED BY <2>2 DEF QueueLeft
<1>3. /\ v # <<>> /\ v[Len(v)].have = Head(t).have + k /\ v[Len(v)].len = Head(t).len
      /\ WireShape(v, "open", ps) /\ (ps = "open" => Reaches(v, t, a, n, m))
  <2>1. WireLeft(v, t, ps, a, n, m, k)
    BY WireAfter
  <2>2. QED BY <2>1 DEF WireLeft
<1>4. j \in Nat /\ HalfOf(u) \in Nat
  BY DEF Whole, HalfOf
<1>5. TxShape(u, v, "open", ps)
  BY <1>2, <1>3 DEF TxShape
<1>6. ASSUME ps = "open" PROVE \E z \in Nat : Flow(v, u, "open", a, n, j, z)
  <2>1. PICK z \in Nat : /\ Linked(v, a, z) /\ Linked(Tail(t), z, 2 * n)
                         /\ z = 2 * m + IF Head(t).op = "binary" THEN 2 ELSE 0
    BY <1>3, <1>6 DEF Reaches
  <2>2. z = 2 * j + HalfOf(u)
    BY <1>2, <2>1
  <2>3. 2 * j <= z
    BY <1>4, <2>2
  <2>4. Flow(v, u, "open", a, n, j, z)
    BY <1>2, <2>1, <2>2, <2>3 DEF Flow
  <2>5. QED BY <2>4
<1>7. QED BY <1>3, <1>5, <1>6 DEF Side

------------------------------------------------------------------------------
\* The receiver: the messages it has, handed over, kept or just parsed, and its
\* place in the frames.

Msgs == [id : Nat, cut : BOOLEAN]
Reasons ==
  {"none", "TX queue limit", "write stalled", "I/O failed", "close received", "peer closed",
   "fragments out of order", "truncated", "own decision"}
ReadTypes ==
  /\ status \in [Ends -> {"open", "failed", "closed"}] /\ why \in [Ends -> Reasons] /\ frames \in [Ends -> Nat]
  /\ got \in [Ends -> Seq(Msgs)] /\ prefetched \in [Ends -> Seq(Msgs)] /\ out \in [Ends -> Seq(Msgs)]
  /\ fragment \in [Ends -> Seq(Msgs)]
  /\ reading \in [Ends -> BOOLEAN] /\ eof \in [Ends -> BOOLEAN] /\ closing \in [Ends -> BOOLEAN]
  /\ confirmed \in [Ends -> BOOLEAN]

Received(e) == (got[e] \o prefetched[e]) \o out[e]
Mark(l, fr) == 2 * Len(l) + IF fr = <<>> THEN 0 ELSE 1

\* The messages l are those sent, in order; damage is at the end.
Ordered(l, ps, w) ==
  \A i \in 1..Len(l) : l[i].id = i /\ (l[i].cut = TRUE => i = Len(l) /\ ps = "closed" /\ w = <<>>)

\* A close or an end is seen after all m messages that the peer has written.
Receipt(l, g, wy, ef, cl, st, ps, w, m) ==
  /\ Ordered(l, ps, w) /\ wy # "fragments out of order"
  /\ (cl = TRUE \/ ef = TRUE) /\ st = "open" => ps = "closed" /\ m <= Len(l)
  /\ wy \in {"close received", "peer closed"} => ps = "closed" /\ m <= Len(g)

Calm(rd, pf, o) == (rd = TRUE => pf = <<>>) /\ (rd = FALSE => o = <<>>)

Direction(e) ==
  Side(wire[e], tx[e], status[e], status[Peer(e)], Mark(Received(Peer(e)), fragment[Peer(e)]),
       sent[e], frames[e])
Reader(e) ==
  /\ Calm(reading[e], prefetched[e], out[e])
  /\ Receipt(Received(e), got[e], why[e], eof[e], closing[e], status[e],
             status[Peer(e)], wire[Peer(e)], frames[Peer(e)])
Talk == \A e \in Ends : Direction(e) /\ Reader(e)
TalkInv == SendInv /\ ReadTypes /\ Talk

LEMMA Concat ==
  ASSUME NEW s \in Seq(Msgs), NEW t \in Seq(Msgs)
  PROVE  /\ s \o t \in Seq(Msgs) /\ Len(s \o t) = Len(s) + Len(t)
         /\ \A i \in 1..Len(s) : (s \o t)[i] = s[i]
         /\ \A i \in 1..Len(t) : (s \o t)[Len(s) + i] = t[i]
OBVIOUS

LEMMA ConcatNil ==
  ASSUME NEW s \in Seq(Msgs)
  PROVE  s \o <<>> = s /\ <<>> \o s = s
OBVIOUS

LEMMA ConcatHead ==
  ASSUME NEW g \in Seq(Msgs), NEW o \in Seq(Msgs), o # <<>>
  PROVE  (g \o <<Head(o)>>) \o Tail(o) = g \o o
OBVIOUS

LEMMA ConcatLast ==
  ASSUME NEW g \in Seq(Msgs), NEW o \in Seq(Msgs), NEW x \in Msgs
  PROVE  g \o Append(o, x) = Append(g \o o, x)
OBVIOUS

LEMMA NotNil ==
  ASSUME NEW g \in Seq(Msgs), NEW x \in Msgs
  PROVE  Append(g, x) # <<>>
<1>1. Len(Append(g, x)) = Len(g) + 1 /\ Len(g) \in Nat
  OBVIOUS
<1>2. Len(<<>>) = 0
  OBVIOUS
<1>3. QED BY <1>1, <1>2

LEMMA ReceiptFree ==
  ASSUME NEW l, NEW g, NEW wy, NEW ef, NEW cl, NEW st, NEW ps, NEW w, NEW m,
         Receipt(l, g, wy, ef, cl, st, ps, w, m), ps # "closed", NEW qs, NEW v, NEW k
  PROVE  Receipt(l, g, wy, ef, cl, st, qs, v, k)
BY DEF Receipt, Ordered

LEMMA ReceiptBusy ==
  ASSUME NEW l, NEW g, NEW wy, NEW ef, NEW cl, NEW st, NEW ps, NEW w, NEW m,
         Receipt(l, g, wy, ef, cl, st, ps, w, m), w # <<>>, NEW v
  PROVE  Receipt(l, g, wy, ef, cl, st, ps, v, m)
BY DEF Receipt, Ordered

LEMMA ReceiptLeaves ==
  ASSUME NEW l, NEW g, NEW wy, NEW ef, NEW cl, NEW st, NEW ps, NEW w, NEW m,
         Receipt(l, g, wy, ef, cl, st, ps, w, m), NEW ts, ts # "open", NEW wz, NEW eg, NEW cm,
         wz = wy \/ wz \notin {"fragments out of order", "close received", "peer closed"}
  PROVE  Receipt(l, g, wz, eg, cm, ts, ps, w, m)
BY DEF Receipt

------------------------------------------------------------------------------
\* The types of the receiver

LEMMA ThrowTypes ==
  ASSUME ReadTypes, NEW e \in Ends, NEW r \in Reasons, Throw(e, r)
  PROVE  status' \in [Ends -> {"open", "failed", "closed"}] /\ why' \in [Ends -> Reasons]
<1>1. status \in [Ends -> {"open", "failed", "closed"}] /\ why \in [Ends -> Reasons]
  BY DEF ReadTypes
<1>2. status' = [status EXCEPT ![e] = "failed"] /\ why' = [why EXCEPT ![e] = r]
  BY DEF Throw
<1>3. QED BY <1>1, <1>2

LEMMA HandOverTypes ==
  ASSUME ReadTypes, NEW e \in Ends, HandOver(e)
  PROVE  got' \in [Ends -> Seq(Msgs)] /\ prefetched' \in [Ends -> Seq(Msgs)] /\ confirmed' \in [Ends -> BOOLEAN]
<1> DEFINE early == ~confirmed[e] /\ out[e] # <<>>
           a == IF early THEN <<Head(out[e])>> ELSE out[e]
           b == IF early THEN Tail(out[e]) ELSE <<>>
           c == confirmed[e] \/ early
<1>1. /\ got \in [Ends -> Seq(Msgs)] /\ prefetched \in [Ends -> Seq(Msgs)] /\ out \in [Ends -> Seq(Msgs)]
      /\ confirmed \in [Ends -> BOOLEAN]
  BY DEF ReadTypes
<1>2. /\ got' = [got EXCEPT ![e] = @ \o a] /\ prefetched' = [prefetched EXCEPT ![e] = b]
      /\ confirmed' = [confirmed EXCEPT ![e] = c]
  BY DEF HandOver
<1>3. out[e] \in Seq(Msgs) /\ got[e] \in Seq(Msgs)
  BY <1>1
<1>4. a \in Seq(Msgs) /\ b \in Seq(Msgs)
  <2>1. CASE early
    <3>1. Head(out[e]) \in Msgs /\ Tail(out[e]) \in Seq(Msgs)
      BY <1>3, <2>1
    <3>2. QED BY <2>1, <3>1
  <2>2. CASE ~early
    BY <1>3, <2>2
  <2>3. QED BY <2>1, <2>2
<1>5. c \in BOOLEAN
  OBVIOUS
<1> HIDE DEF a, b, c
<1>6. got[e] \o a \in Seq(Msgs)
  BY <1>3, <1>4, Concat
<1>7. got' \in [Ends -> Seq(Msgs)]
  BY <1>1, <1>2, <1>6
<1>8. prefetched' \in [Ends -> Seq(Msgs)]
  BY <1>1, <1>2, <1>4
<1>9. confirmed' \in [Ends -> BOOLEAN]
  BY <1>1, <1>2, <1>5
<1>10. QED BY <1>7, <1>8, <1>9

LEMMA ReadEndsTypes ==
  ASSUME ReadTypes, NEW e \in Ends, ReadEnds(e)
  PROVE  reading' \in [Ends -> BOOLEAN] /\ out' \in [Ends -> Seq(Msgs)]
<1>1. reading \in [Ends -> BOOLEAN] /\ out \in [Ends -> Seq(Msgs)]
  BY DEF ReadTypes
<1>2. reading' = [reading EXCEPT ![e] = FALSE] /\ out' = [out EXCEPT ![e] = <<>>]
  BY DEF ReadEnds
<1>3. QED BY <1>1, <1>2

LEMMA QueueFrameTypes ==
  ASSUME ReadTypes, NEW e \in Ends, NEW f, QueueFrame(e, f)
  PROVE  status' \in [Ends -> {"open", "failed", "closed"}] /\ why' \in [Ends -> Reasons] /\ frames' = frames
<1>1. CASE Fits(e, f)
  BY <1>1 DEF QueueFrame, Push, ReadTypes
<1>2. CASE ~Fits(e, f)
  <2>1. Throw(e, "TX queue limit") /\ frames' = frames
    BY <1>2 DEF QueueFrame, sendVars
  <2>2. "TX queue limit" \in Reasons
    BY DEF Reasons
  <2>3. QED BY <2>1, <2>2, ThrowTypes
<1>3. QED BY <1>1, <1>2

\* The types, by the groups of variables that change together.
StatusTyped == status \in [Ends -> {"open", "failed", "closed"}] /\ why \in [Ends -> Reasons]
HandTyped == /\ got \in [Ends -> Seq(Msgs)] /\ prefetched \in [Ends -> Seq(Msgs)]
             /\ confirmed \in [Ends -> BOOLEAN]
OutTyped == reading \in [Ends -> BOOLEAN] /\ out \in [Ends -> Seq(Msgs)]
RestTyped == /\ fragment \in [Ends -> Seq(Msgs)] /\ eof \in [Ends -> BOOLEAN] /\ closing \in [Ends -> BOOLEAN]
             /\ frames \in [Ends -> Nat]

LEMMA TypesSplit == ReadTypes <=> StatusTyped /\ HandTyped /\ OutTyped /\ RestTyped
BY DEF ReadTypes, StatusTyped, HandTyped, OutTyped, RestTyped

LEMMA ReadTypesKept ==
  ASSUME ReadTypes
  PROVE  /\ UNCHANGED <<status, why>> => StatusTyped'
         /\ UNCHANGED <<got, prefetched, confirmed>> => HandTyped'
         /\ UNCHANGED <<reading, out>> => OutTyped'
         /\ UNCHANGED <<fragment, eof, closing, frames>> => RestTyped'
BY DEF ReadTypes, StatusTyped, HandTyped, OutTyped, RestTyped

LEMMA TypedBy ==
  ASSUME ReadTypes, NEW e \in Ends
  PROVE  /\ (\E r \in Reasons : Throw(e, r)) => StatusTyped'
         /\ (HandOver(e) => HandTyped') /\ (ReadEnds(e) => OutTyped')
BY ThrowTypes, HandOverTypes, ReadEndsTypes DEF StatusTyped, HandTyped, OutTyped

LEMMA WriteTypes ==
  ASSUME ReadTypes, NEW e \in Ends, Write(e)
  PROVE  ReadTypes'
<1>1. PICK n : frames' = IF Head(tx[e]).op = "binary" /\ Head(tx[e]).have + n = Size(Head(tx[e]))
                         THEN [frames EXCEPT ![e] = @ + 1] ELSE frames
  BY DEF Write
<1>2. frames \in [Ends -> Nat]
  BY DEF ReadTypes
<1>3. [frames EXCEPT ![e] = @ + 1] \in [Ends -> Nat]
  BY <1>2
<1>4. frames' \in [Ends -> Nat]
  BY <1>1, <1>2, <1>3
<1>5. UNCHANGED <<status, why, out, reading, fragment, eof, closing, confirmed, prefetched, got>>
  BY DEF Write, readVars
<1>6. QED BY <1>4, <1>5 DEF ReadTypes

LEMMA ReadDataTypes ==
  ASSUME SendInv, ReadTypes, NEW e \in Ends, ReadData(e)
  PROVE  ReadTypes'
<1> DEFINE f == NextFrame(e)
           x == Message(f)
<1>1. f \in Frames
  BY ParsedStep DEF ReadData
<1>2. x \in Msgs
  <2> HIDE DEF f
  <2>1. QED BY <1>1 DEF Message, Msgs, Frames
<1>3. UNCHANGED <<frames, reading, eof, closing, confirmed, prefetched, got>>
  BY DEF ReadData, sendVars
<1>4. out \in [Ends -> Seq(Msgs)] /\ fragment \in [Ends -> Seq(Msgs)]
  BY DEF ReadTypes
<1>5. CASE (f.op = "binary") # (fragment[e] = <<>>)
  <2>1. Throw(e, "fragments out of order") /\ UNCHANGED <<out, fragment>>
    BY <1>5 DEF ReadData
  <2>2. "fragments out of order" \in Reasons
    BY DEF Reasons
  <2>3. StatusTyped'
    BY <2>1, <2>2, TypedBy
  <2>4. QED BY <1>3, <2>1, <2>3, ReadTypesKept DEF ReadTypes, StatusTyped
<1>6. CASE ~((f.op = "binary") # (fragment[e] = <<>>))
  <2> DEFINE a == Append(out[e], x)
             b == Collected(fragment[e], f)
  <2>1. /\ out' = IF f.fin THEN [out EXCEPT ![e] = a] ELSE out
        /\ fragment' = [fragment EXCEPT ![e] = b] /\ UNCHANGED <<status, why>>
    BY <1>6 DEF ReadData
  <2>2. a \in Seq(Msgs) /\ b \in Seq(Msgs)
    BY <1>2, <1>4 DEF Collected
  <2> HIDE DEF a, b
  <2>3. out' \in [Ends -> Seq(Msgs)]
    BY <1>4, <2>1, <2>2
  <2>4. fragment' \in [Ends -> Seq(Msgs)]
    BY <1>4, <2>1, <2>2
  <2>5. QED BY <1>3, <2>1, <2>3, <2>4 DEF ReadTypes
<1>7. QED BY <1>5, <1>6

LEMMA ReadStartTypes ==
  ASSUME ReadTypes, NEW e \in Ends, ReadStart(e)
  PROVE  ReadTypes'
<1>1. UNCHANGED <<frames, out, fragment, eof, closing, confirmed>>
  BY DEF ReadStart, sendVars
<1>2. "close received" \in Reasons /\ "peer closed" \in Reasons
  BY DEF Reasons
<1>3. StatusTyped'
  BY <1>2, TypedBy, ReadTypesKept DEF ReadStart
<1>4. HandTyped'
  <2>1. CASE prefetched[e] # <<>>
    <3> DEFINE a == got[e] \o prefetched[e]
    <3>1. got' = [got EXCEPT ![e] = a] /\ prefetched' = [prefetched EXCEPT ![e] = <<>>]
      BY <2>1 DEF ReadStart
    <3>2. got \in [Ends -> Seq(Msgs)] /\ prefetched \in [Ends -> Seq(Msgs)] /\ confirmed \in [Ends -> BOOLEAN]
      BY DEF ReadTypes
    <3>3. a \in Seq(Msgs)
      BY <3>2, Concat
    <3> HIDE DEF a
    <3>4. got' \in [Ends -> Seq(Msgs)]
      BY <3>1, <3>2, <3>3
    <3>5. prefetched' \in [Ends -> Seq(Msgs)]
      BY <3>1, <3>2
    <3>6. QED BY <1>1, <3>2, <3>4, <3>5 DEF HandTyped
  <2>2. CASE prefetched[e] = <<>>
    BY <1>1, <2>2, ReadTypesKept DEF ReadStart
  <2>3. QED BY <2>1, <2>2
<1>5. OutTyped'
  <2>1. reading' = reading \/ reading' = [reading EXCEPT ![e] = TRUE]
    BY DEF ReadStart
  <2>2. reading \in [Ends -> BOOLEAN]
    BY DEF ReadTypes
  <2>3. reading' \in [Ends -> BOOLEAN]
    BY <2>1, <2>2
  <2>4. QED BY <1>1, <2>3 DEF ReadTypes, OutTyped
<1>6. RestTyped'
  BY <1>1, ReadTypesKept
<1>7. QED BY <1>3, <1>4, <1>5, <1>6 DEF ReadTypes, StatusTyped, HandTyped, OutTyped, RestTyped

LEMMA NextReadTypes == SendInv /\ ReadTypes /\ [Next]_vars => ReadTypes'
<1> SUFFICES ASSUME SendInv, ReadTypes, [Next]_vars PROVE ReadTypes'
  OBVIOUS
<1>1. ASSUME StatusTyped', HandTyped', OutTyped', RestTyped' PROVE ReadTypes'
  BY <1>1 DEF ReadTypes, StatusTyped, HandTyped, OutTyped, RestTyped
<1>2. /\ UNCHANGED <<status, why>> => StatusTyped'
      /\ UNCHANGED <<got, prefetched, confirmed>> => HandTyped'
      /\ UNCHANGED <<reading, out>> => OutTyped'
      /\ UNCHANGED <<fragment, eof, closing, frames>> => RestTyped'
  BY ReadTypesKept
<1>3. ASSUME NEW e \in Ends, NEW f, QueueFrame(e, f), UNCHANGED readVars PROVE ReadTypes'
  <2>1. StatusTyped' /\ frames' = frames
    BY <1>3, QueueFrameTypes DEF StatusTyped
  <2>2. HandTyped' /\ OutTyped' /\ RestTyped'
    BY <1>2, <1>3, <2>1 DEF readVars
  <2>3. QED BY <1>1, <2>1, <2>2
<1>4. CASE SendPing
  <2>1. "client" \in Ends /\ UNCHANGED readVars /\ QueueFrame("client", Frame("ping", pings + 1, 1, TRUE))
    BY <1>4 DEF SendPing, Ends
  <2>2. QED BY <1>3, <2>1
<1>5. CASE Tick
  <2>1. UNCHANGED <<status, why, frames, readVars>>
    BY <1>5 DEF Tick
  <2>2. QED BY <1>1, <1>2, <2>1 DEF readVars
<1>6. ASSUME NEW e \in Ends, SendBinary(e) PROVE ReadTypes'
  <2>1. UNCHANGED readVars /\ \E f : QueueFrame(e, f)
    BY <1>6 DEF SendBinary
  <2>2. QED BY <1>3, <2>1
<1>7. ASSUME NEW e \in Ends, Stall(e) \/ IoFails(e) PROVE ReadTypes'
  <2>1. UNCHANGED <<frames, readVars>> /\ \E r \in {"write stalled", "I/O failed"} : Throw(e, r)
    BY <1>7 DEF Stall, IoFails, sendVars
  <2>2. \E r \in Reasons : Throw(e, r)
    BY <2>1 DEF Reasons
  <2>3. StatusTyped'
    BY <2>2, TypedBy
  <2>4. QED BY <1>1, <1>2, <2>1, <2>3 DEF readVars
<1>8. ASSUME NEW e \in Ends, ReadPing(e) PROVE ReadTypes'
  <2>1. UNCHANGED readVars /\ \E f : QueueFrame(e, f)
    BY <1>8 DEF ReadPing
  <2>2. QED BY <1>3, <2>1
<1>9. ASSUME NEW e \in Ends, ReadPong(e) \/ TakePongs(e) PROVE ReadTypes'
  <2>1. UNCHANGED <<status, why, frames, out, reading, fragment, eof, closing, confirmed, prefetched, got>>
    BY <1>9 DEF ReadPong, TakePongs, sendVars
  <2>2. QED BY <1>1, <1>2, <2>1
<1>10. ASSUME NEW e \in Ends, ReadClose(e) PROVE ReadTypes'
  <2>1. "close received" \in Reasons
    BY DEF Reasons
  <2>2. CloseSeen(e) /\ ReadEnds(e) /\ closing' = [closing EXCEPT ![e] = TRUE] /\ UNCHANGED <<fragment, eof>>
    BY <1>10 DEF ReadClose
  <2>3. StatusTyped'
    BY <1>2, <2>1, <2>2, TypedBy DEF CloseSeen
  <2>4. HandTyped'
    BY <1>2, <2>2, TypedBy DEF CloseSeen
  <2>5. OutTyped'
    BY <2>2, TypedBy
  <2>6. frames' = frames
    BY <1>10 DEF ReadClose, Push, sendVars
  <2>7. closing' \in [Ends -> BOOLEAN]
    BY <2>2 DEF ReadTypes
  <2>8. RestTyped'
    BY <2>2, <2>6, <2>7 DEF RestTyped, ReadTypes
  <2>9. QED BY <1>1, <2>3, <2>4, <2>5, <2>8
<1>11. ASSUME NEW e \in Ends, ReadReturn(e) PROVE ReadTypes'
  <2>1. "truncated" \in Reasons /\ "peer closed" \in Reasons
    BY DEF Reasons
  <2>2. ReadEnds(e) /\ UNCHANGED <<frames, fragment, closing>>
    BY <1>11 DEF ReadReturn, sendVars
  <2>3. StatusTyped'
    BY <1>2, <1>11, <2>1, TypedBy DEF ReadReturn
  <2>4. HandTyped'
    BY <1>2, <1>11, TypedBy DEF ReadReturn
  <2>5. OutTyped'
    BY <2>2, TypedBy
  <2>6. eof' = eof \/ eof' = [eof EXCEPT ![e] = TRUE]
    BY <1>11 DEF ReadReturn
  <2>7. eof' \in [Ends -> BOOLEAN]
    BY <2>6 DEF ReadTypes
  <2>8. RestTyped'
    BY <2>2, <2>7 DEF RestTyped, ReadTypes
  <2>9. QED BY <1>1, <2>3, <2>4, <2>5, <2>8
<1>12. ASSUME NEW e \in Ends, Close(e) PROVE ReadTypes'
  <2>1. /\ status' = [status EXCEPT ![e] = "closed"] /\ UNCHANGED <<frames, readVars>>
        /\ why' = IF why[e] = "none" THEN [why EXCEPT ![e] = "own decision"] ELSE why
    BY <1>12 DEF Close
  <2>2. status' \in [Ends -> {"open", "failed", "closed"}]
    BY <2>1 DEF ReadTypes
  <2>3. [why EXCEPT ![e] = "own decision"] \in [Ends -> Reasons] /\ why \in [Ends -> Reasons]
    BY DEF ReadTypes, Reasons
  <2>4. why' \in [Ends -> Reasons]
    BY <2>1, <2>3
  <2>5. QED BY <1>1, <1>2, <2>1, <2>2, <2>4 DEF readVars, StatusTyped
<1>13. ASSUME NEW e \in Ends, Path(e) PROVE ReadTypes'
  <2>1. UNCHANGED <<status, why, frames, readVars>>
    BY <1>13 DEF Path, sendVars
  <2>2. QED BY <1>1, <1>2, <2>1 DEF readVars
<1>14. CASE UNCHANGED vars
  <2>1. UNCHANGED <<status, why, frames, readVars>>
    BY <1>14 DEF vars, sendVars
  <2>2. QED BY <1>1, <1>2, <2>1 DEF readVars
<1>15. QED
  BY <1>4, <1>5, <1>6, <1>7, <1>8, <1>9, <1>10, <1>11, <1>12, <1>13, <1>14, WriteTypes, ReadStartTypes,
     ReadDataTypes DEF Next, Read

------------------------------------------------------------------------------
\* Both directions, step by step

\* The facts of both ends, seen from e.
LEMMA TalkAt ==
  ASSUME TalkInv, NEW e \in Ends, NEW p, p = Peer(e)
  PROVE  /\ Side(wire[e], tx[e], status[e], status[p], Mark(Received(p), fragment[p]), sent[e], frames[e])
         /\ Side(wire[p], tx[p], status[p], status[e], Mark(Received(e), fragment[e]), sent[p], frames[p])
         /\ Calm(reading[e], prefetched[e], out[e]) /\ Calm(reading[p], prefetched[p], out[p])
         /\ Receipt(Received(e), got[e], why[e], eof[e], closing[e], status[e], status[p], wire[p], frames[p])
         /\ Receipt(Received(p), got[p], why[p], eof[p], closing[p], status[p], status[e], wire[e], frames[e])
<1>1. p \in Ends /\ Peer(p) = e /\ Peer(e) = p
  BY PeerFacts
<1>2. Direction(e) /\ Direction(p) /\ Reader(e) /\ Reader(p)
  BY <1>1 DEF TalkInv, Talk
<1>3. QED BY <1>1, <1>2, Zenon DEF Direction, Reader

LEMMA TalkNext ==
  ASSUME NEW e \in Ends, NEW p, p = Peer(e),
         Side(wire'[e], tx'[e], status'[e], status'[p], Mark(Received(p)', fragment'[p]), sent'[e], frames'[e]),
         Side(wire'[p], tx'[p], status'[p], status'[e], Mark(Received(e)', fragment'[e]), sent'[p], frames'[p]),
         Calm(reading'[e], prefetched'[e], out'[e]), Calm(reading'[p], prefetched'[p], out'[p]),
         Receipt(Received(e)', got'[e], why'[e], eof'[e], closing'[e],
                 status'[e], status'[p], wire'[p], frames'[p]),
         Receipt(Received(p)', got'[p], why'[p], eof'[p], closing'[p],
                 status'[p], status'[e], wire'[e], frames'[e])
  PROVE  Talk'
<1>1. p \in Ends /\ Peer(p) = e /\ Peer(e) = p /\ \A x \in Ends : x = e \/ x = p
  BY PeerFacts
<1>2. Direction(e)' /\ Direction(p)'
  BY <1>1, Zenon DEF Direction
<1>3. Reader(e)' /\ Reader(p)'
  BY <1>1, Zenon DEF Reader
<1>4. QED BY <1>1, <1>2, <1>3 DEF Talk

LEMMA TypesAt ==
  ASSUME SendInv, ReadTypes, NEW e \in Ends
  PROVE  /\ wire[e] \in Seq(Frames) /\ tx[e] \in Seq(Frames) /\ sent[e] \in Nat /\ frames[e] \in Nat
         /\ got[e] \in Seq(Msgs) /\ prefetched[e] \in Seq(Msgs) /\ out[e] \in Seq(Msgs)
         /\ fragment[e] \in Seq(Msgs) /\ Received(e) \in Seq(Msgs)
         /\ reading[e] \in BOOLEAN /\ eof[e] \in BOOLEAN /\ closing[e] \in BOOLEAN /\ confirmed[e] \in BOOLEAN
         /\ status[e] \in {"open", "failed", "closed"}
<1>1. /\ got[e] \in Seq(Msgs) /\ prefetched[e] \in Seq(Msgs) /\ out[e] \in Seq(Msgs) /\ fragment[e] \in Seq(Msgs)
      /\ frames[e] \in Nat /\ status[e] \in {"open", "failed", "closed"}
  BY DEF ReadTypes
<1>2. got[e] \o prefetched[e] \in Seq(Msgs)
  BY <1>1, Concat
<1>3. Received(e) \in Seq(Msgs)
  BY <1>1, <1>2, Concat DEF Received
<1>4. sent[e] \in Nat
  BY DEF SendInv, SendTypes
<1>5. reading[e] \in BOOLEAN /\ eof[e] \in BOOLEAN /\ closing[e] \in BOOLEAN /\ confirmed[e] \in BOOLEAN
  BY DEF ReadTypes
<1>6. QED BY <1>1, <1>3, <1>4, <1>5, SendInvAt

LEMMA ReadSame ==
  ASSUME UNCHANGED readVars, NEW x
  PROVE  /\ Received(x)' = Received(x) /\ fragment'[x] = fragment[x] /\ reading'[x] = reading[x]
         /\ prefetched'[x] = prefetched[x] /\ out'[x] = out[x] /\ got'[x] = got[x] /\ eof'[x] = eof[x]
         /\ closing'[x] = closing[x]
BY DEF readVars, Received

LEMMA ThrowAt ==
  ASSUME ReadTypes, NEW e \in Ends, NEW r, Throw(e, r)
  PROVE  /\ status'[e] = "failed" /\ why'[e] = r
         /\ status'[Peer(e)] = status[Peer(e)] /\ why'[Peer(e)] = why[Peer(e)]
<1>1. Peer(e) \in Ends /\ Peer(e) # e
  BY PeerFacts
<1>2. DOMAIN status = Ends /\ DOMAIN why = Ends
  BY DEF ReadTypes
<1>3. status' = [status EXCEPT ![e] = "failed"] /\ why' = [why EXCEPT ![e] = r]
  BY DEF Throw
<1>4. QED BY <1>1, <1>2, <1>3

\* What e has yet to read is v.
Hears(e, p, v) ==
  /\ Side(v, tx[p], status[p], "open", Mark(Received(e), fragment[e]), sent[p], frames[p])
  /\ Receipt(Received(e), got[e], why[e], eof[e], closing[e], "open", status[p], v, frames[p])

\* An end fails, having changed nothing or having parsed a control frame.
LEMMA FailTalk ==
  ASSUME TalkInv, NEW e \in Ends, NEW p, p = Peer(e), status[e] = "open",
         NEW r, Throw(e, r), r \notin {"fragments out of order", "close received", "peer closed"},
         UNCHANGED sendVars, UNCHANGED readVars, wire'[e] = wire[e], NEW v, wire'[p] = v, Hears(e, p, v),
         sent'[p] = sent[p]
  PROVE  Talk'
<1>1. /\ status'[e] = "failed" /\ why'[e] = r /\ status'[p] = status[p] /\ why'[p] = why[p]
  BY ThrowAt DEF TalkInv
<1>2. tx' = tx /\ frames' = frames
  BY DEF sendVars
<1>3. /\ Side(wire[e], tx[e], status[e], status[p], Mark(Received(p), fragment[p]), sent[e], frames[e])
      /\ Calm(reading[e], prefetched[e], out[e]) /\ Calm(reading[p], prefetched[p], out[p])
      /\ Receipt(Received(p), got[p], why[p], eof[p], closing[p], status[p], status[e], wire[e], frames[e])
  BY TalkAt
<1>4. Side(wire[e], tx[e], "failed", status[p], Mark(Received(p), fragment[p]), sent'[e], frames[e])
  BY <1>3, SideFails
<1>5. Side(v, tx[p], status[p], "failed", Mark(Received(e), fragment[e]), sent[p], frames[p])
  <2> DEFINE a == Mark(Received(e), fragment[e])
             qs == "failed"
  <2>1. Side(v, tx[p], status[p], status[e], a, sent[p], frames[p])
    BY DEF Hears
  <2>2. status[e] # "closed" /\ qs # "open"
    OBVIOUS
  <2> HIDE DEF a, qs
  <2>3. Side(v, tx[p], status[p], qs, a, sent[p], frames[p])
    BY <2>1, <2>2, SideDown
  <2>4. QED BY <2>3 DEF a, qs
<1>6. Receipt(Received(e), got[e], r, eof[e], closing[e], "failed", status[p], v, frames[p])
  <2>1. Receipt(Received(e), got[e], why[e], eof[e], closing[e], "open", status[p], v, frames[p])
    BY DEF Hears
  <2>2. Ordered(Received(e), status[p], v)
    BY <2>1 DEF Receipt
  <2>3. QED BY <2>2 DEF Receipt
<1>7. Receipt(Received(p), got[p], why[p], eof[p], closing[p], status[p], "failed", wire[e], frames[e])
  <2>1. status[e] # "closed"
    OBVIOUS
  <2>2. QED BY <1>3, <2>1, ReceiptFree, Zenon
<1>8. \A x : /\ Received(x)' = Received(x) /\ fragment'[x] = fragment[x] /\ reading'[x] = reading[x]
             /\ prefetched'[x] = prefetched[x] /\ out'[x] = out[x] /\ got'[x] = got[x] /\ eof'[x] = eof[x]
             /\ closing'[x] = closing[x]
  BY ReadSame
<1>9. /\ Side(wire'[e], tx'[e], status'[e], status'[p], Mark(Received(p)', fragment'[p]), sent'[e], frames'[e])
      /\ Side(wire'[p], tx'[p], status'[p], status'[e], Mark(Received(e)', fragment'[e]), sent'[p], frames'[p])
  BY <1>1, <1>2, <1>4, <1>5, <1>8
<1>10. Calm(reading'[e], prefetched'[e], out'[e]) /\ Calm(reading'[p], prefetched'[p], out'[p])
  BY <1>3, <1>8
<1>11. /\ Receipt(Received(e)', got'[e], why'[e], eof'[e], closing'[e],
                  status'[e], status'[p], wire'[p], frames'[p])
       /\ Receipt(Received(p)', got'[p], why'[p], eof'[p], closing'[p],
                  status'[p], status'[e], wire'[e], frames'[e])
  BY <1>1, <1>2, <1>6, <1>7, <1>8
<1>12. QED BY <1>9, <1>10, <1>11, TalkNext

\* A frame is queued, with or without parsing a control frame.
LEMMA PushTalk ==
  ASSUME TalkInv, NEW e \in Ends, NEW p, p = Peer(e), status[e] = "open",
         NEW f \in Frames, f.have = 0, Queueable(f, status[p]), sent'[e] \in Nat,
         Link(f, 2 * sent[e], 2 * sent'[e]), Push(e, f), UNCHANGED <<status, why>>,
         UNCHANGED readVars, wire'[e] = wire[e], NEW v, wire'[p] = v, Hears(e, p, v), sent'[p] = sent[p]
  PROVE  Talk'
<1>1. p \in Ends /\ p # e
  BY PeerFacts
<1>2. tx'[e] = Append(tx[e], f) /\ tx'[p] = tx[p] /\ frames' = frames
  <2>1. DOMAIN tx = Ends
    BY DEF TalkInv, SendInv, SendTypes
  <2>2. tx' = [tx EXCEPT ![e] = Append(tx[e], f)] /\ frames' = frames
    BY DEF Push
  <2>3. QED BY <1>1, <2>1, <2>2
<1>3. /\ Side(wire[e], tx[e], status[e], status[p], Mark(Received(p), fragment[p]), sent[e], frames[e])
      /\ Calm(reading[e], prefetched[e], out[e]) /\ Calm(reading[p], prefetched[p], out[p])
      /\ Receipt(Received(p), got[p], why[p], eof[p], closing[p], status[p], status[e], wire[e], frames[e])
  BY TalkAt
<1>4. tx[e] \in Seq(Frames) /\ sent[e] \in Nat /\ frames[e] \in Nat
  BY TypesAt DEF TalkInv
<1>5. Side(wire[e], Append(tx[e], f), "open", status[p], Mark(Received(p), fragment[p]), sent'[e], frames[e])
  BY <1>3, <1>4, SidePush
<1>6. \A x : /\ Received(x)' = Received(x) /\ fragment'[x] = fragment[x] /\ reading'[x] = reading[x]
             /\ prefetched'[x] = prefetched[x] /\ out'[x] = out[x] /\ got'[x] = got[x] /\ eof'[x] = eof[x]
             /\ closing'[x] = closing[x]
  BY ReadSame
<1>7. status' = status /\ why' = why
  OBVIOUS
<1>8. Side(wire'[e], tx'[e], status'[e], status'[p], Mark(Received(p)', fragment'[p]), sent'[e], frames'[e])
  BY <1>2, <1>5, <1>6, <1>7
<1>9. Side(wire'[p], tx'[p], status'[p], status'[e], Mark(Received(e)', fragment'[e]), sent'[p], frames'[p])
  BY <1>2, <1>6, <1>7 DEF Hears
<1>10. Calm(reading'[e], prefetched'[e], out'[e]) /\ Calm(reading'[p], prefetched'[p], out'[p])
  BY <1>3, <1>6
<1>11. Receipt(Received(e)', got'[e], why'[e], eof'[e], closing'[e],
               status'[e], status'[p], wire'[p], frames'[p])
  BY <1>2, <1>6, <1>7 DEF Hears
<1>12. Receipt(Received(p)', got'[p], why'[p], eof'[p], closing'[p],
               status'[p], status'[e], wire'[e], frames'[e])
  BY <1>2, <1>3, <1>6, <1>7
<1>13. QED BY <1>8, <1>9, <1>10, <1>11, <1>12, TalkNext

LEMMA QueueTalk ==
  ASSUME TalkInv, NEW e \in Ends, NEW p, p = Peer(e), status[e] = "open",
         NEW f \in Frames, f.have = 0, Queueable(f, status[p]), sent'[e] \in Nat,
         Link(f, 2 * sent[e], 2 * sent'[e]), QueueFrame(e, f),
         UNCHANGED readVars, wire'[e] = wire[e], NEW v, wire'[p] = v, Hears(e, p, v), sent'[p] = sent[p]
  PROVE  Talk'
<1>1. CASE Fits(e, f)
  <2>1. Push(e, f) /\ UNCHANGED <<status, why>>
    BY <1>1 DEF QueueFrame
  <2>2. QED BY <2>1, PushTalk
<1>2. CASE ~Fits(e, f)
  <2>1. Throw(e, "TX queue limit") /\ UNCHANGED sendVars
    BY <1>2 DEF QueueFrame
  <2>2. QED BY <2>1, FailTalk
<1>3. QED BY <1>1, <1>2

\* Nothing read: what e hears is what is there.
LEMMA HearsAll ==
  ASSUME TalkInv, NEW e \in Ends, NEW p, p = Peer(e), status[e] = "open"
  PROVE  Hears(e, p, wire[p])
<1>1. /\ Side(wire[p], tx[p], status[p], status[e], Mark(Received(e), fragment[e]), sent[p], frames[p])
      /\ Receipt(Received(e), got[e], why[e], eof[e], closing[e], status[e], status[p], wire[p], frames[p])
  BY TalkAt
<1>2. QED BY <1>1, Zenon DEF Hears

LEMMA SendBinaryTalk ==
  ASSUME TalkInv, NEW e \in Ends, SendBinary(e)
  PROVE  Talk'
<1> DEFINE p == Peer(e)
           n == sent[e] + 1
<1>1. PICK len \in Lens : QueueFrame(e, Frame("binary", n, len, TRUE))
  BY DEF SendBinary
<1>2. /\ sent' = [sent EXCEPT ![e] = n] /\ UNCHANGED wire /\ UNCHANGED readVars /\ status[e] = "open"
  BY DEF SendBinary, pathVars, Idle
<1>3. sent[e] \in Nat /\ n \in Nat /\ len \in Nat
  BY WsAssumption, TypesAt DEF TalkInv
<1>4. p \in Ends /\ p # e /\ p = Peer(e)
  BY PeerFacts
<1>5. sent'[e] = n /\ sent'[p] = sent[p]
  <2>1. DOMAIN sent = Ends
    BY DEF TalkInv, SendInv, SendTypes
  <2> HIDE DEF n, p
  <2>2. QED BY <1>2, <1>4, <2>1
<1> DEFINE f == Frame("binary", n, len, TRUE)
<1>6. /\ f \in Frames /\ f.have = 0 /\ f.op = "binary" /\ f.id = n /\ f.fin = TRUE /\ f.cut = FALSE
      /\ f.len = len
  <2> HIDE DEF n
  <2>1. QED BY <1>3 DEF Frame, Frames, Ops
<1>7. Queueable(f, status[p])
  <2> HIDE DEF f
  <2>1. QED BY <1>3, <1>6 DEF Queueable, Size
<1>8. Link(f, 2 * sent[e], 2 * sent'[e])
  <2> HIDE DEF f
  <2>1. QED BY <1>3, <1>5, <1>6 DEF Link, Data
<1>9. Hears(e, p, wire[p])
  <2> HIDE DEF p
  <2>1. QED BY <1>2, <1>4, HearsAll
<1> HIDE DEF f, n, p
<1>10. QueueFrame(e, f) /\ sent'[e] \in Nat /\ wire' = wire
  BY <1>1, <1>2, <1>3, <1>5 DEF f
<1>11. QED BY <1>2, <1>4, <1>5, <1>6, <1>7, <1>8, <1>9, <1>10, QueueTalk

LEMMA SendPingTalk ==
  ASSUME TalkInv, SendPing
  PROVE  Talk'
<1> DEFINE e == "client"
           p == Peer(e)
           n == pings + 1
           f == Frame("ping", n, 1, TRUE)
<1>1. QueueFrame(e, f) /\ wire' = wire /\ sent' = sent /\ UNCHANGED readVars /\ status[e] = "open"
  BY DEF SendPing, pathVars, Idle
<1>2. n \in Nat /\ e \in Ends
  BY DEF TalkInv, SendInv, SendTypes, Ends
<1>3. sent[e] \in Nat
  BY <1>2, TypesAt DEF TalkInv
<1>4. f \in Frames /\ f.have = 0 /\ f.op = "ping" /\ f.cut = FALSE /\ f.len = 1
  <2> HIDE DEF n
  <2>1. QED BY <1>2 DEF Frame, Frames, Ops
<1> HIDE DEF f, p, e
<1>5. Queueable(f, status[p])
  BY <1>4 DEF Queueable, Size
<1>6. Link(f, 2 * sent[e], 2 * sent'[e])
  BY <1>1, <1>4 DEF Link, Data
<1>7. p = Peer(e)
  BY DEF p
<1>8. Hears(e, p, wire[p])
  BY <1>1, <1>2, <1>7, HearsAll
<1>9. QED BY <1>1, <1>2, <1>3, <1>4, <1>5, <1>6, <1>7, <1>8, QueueTalk

LEMMA ThrowTalk ==
  ASSUME TalkInv, NEW e \in Ends, Stall(e) \/ IoFails(e)
  PROVE  Talk'
<1> DEFINE p == Peer(e)
<1>1. /\ wire' = wire /\ sent' = sent /\ UNCHANGED readVars /\ UNCHANGED sendVars /\ status[e] = "open"
      /\ Throw(e, "write stalled") \/ Throw(e, "I/O failed")
  BY DEF Stall, IoFails, pathVars, Idle
<1>2. p = Peer(e)
  OBVIOUS
<1> HIDE DEF p
<1>3. Hears(e, p, wire[p])
  BY <1>1, <1>2, HearsAll
<1>4. PICK r \in {"write stalled", "I/O failed"} : Throw(e, r)
  BY <1>1
<1>5. r \notin {"fragments out of order", "close received", "peer closed"}
  OBVIOUS
<1>6. QED BY <1>1, <1>2, <1>3, <1>4, <1>5, FailTalk

\* Only e's sending state changes.
LEMMA SenderTalk ==
  ASSUME NEW e \in Ends, NEW p, p = Peer(e), TalkInv, UNCHANGED readVars,
         status'[p] = status[p], why'[p] = why[p], wire'[p] = wire[p], tx'[p] = tx[p], sent'[p] = sent[p],
         frames'[p] = frames[p],
         Side(wire'[e], tx'[e], status'[e], status[p], Mark(Received(p), fragment[p]), sent'[e], frames'[e]),
         Side(wire[p], tx[p], status[p], status'[e], Mark(Received(e), fragment[e]), sent[p], frames[p]),
         Receipt(Received(e), got[e], why'[e], eof[e], closing[e], status'[e], status[p], wire[p], frames[p]),
         Receipt(Received(p), got[p], why[p], eof[p], closing[p], status[p], status'[e], wire'[e], frames'[e])
  PROVE  Talk'
<1>1. Calm(reading[e], prefetched[e], out[e]) /\ Calm(reading[p], prefetched[p], out[p])
  BY TalkAt
<1>2. \A x : /\ Received(x)' = Received(x) /\ fragment'[x] = fragment[x] /\ reading'[x] = reading[x]
             /\ prefetched'[x] = prefetched[x] /\ out'[x] = out[x] /\ got'[x] = got[x] /\ eof'[x] = eof[x]
             /\ closing'[x] = closing[x]
  BY ReadSame
<1>3. /\ Side(wire'[e], tx'[e], status'[e], status'[p], Mark(Received(p)', fragment'[p]), sent'[e], frames'[e])
      /\ Side(wire'[p], tx'[p], status'[p], status'[e], Mark(Received(e)', fragment'[e]), sent'[p], frames'[p])
  BY <1>2
<1>4. Calm(reading'[e], prefetched'[e], out'[e]) /\ Calm(reading'[p], prefetched'[p], out'[p])
  BY <1>1, <1>2
<1>5. /\ Receipt(Received(e)', got'[e], why'[e], eof'[e], closing'[e],
                 status'[e], status'[p], wire'[p], frames'[p])
      /\ Receipt(Received(p)', got'[p], why'[p], eof'[p], closing'[p],
                 status'[p], status'[e], wire'[e], frames'[e])
  BY <1>2
<1>6. QED BY <1>3, <1>4, <1>5, TalkNext

LEMMA WriteTalk ==
  ASSUME TalkInv, NEW e \in Ends, Write(e)
  PROVE  Talk'
<1> DEFINE p == Peer(e)
           t == tx[e]
           f == Head(t)
<1>1. p \in Ends /\ p # e /\ p = Peer(e)
  BY PeerFacts
<1>2. /\ t \in Seq(Frames) /\ t # <<>> /\ wire[e] \in Seq(Frames) /\ unread[e] \in Nat /\ sent[e] \in Nat
      /\ frames[e] \in Nat
  <2>1. unread[e] \in Nat
    BY DEF TalkInv, SendInv, SendTypes
  <2>2. QED BY <2>1, TypesAt DEF TalkInv, Write
<1>3. f \in Frames /\ Size(f) \in Nat /\ f.have \in Nat
  <2>1. f \in Frames
    BY <1>2
  <2> HIDE DEF f
  <2>2. QED BY <2>1, FrameTypes DEF Frames
<1>4. status[e] = "open" /\ UNCHANGED <<status, why, readVars, sent>>
  BY DEF Write, Idle
<1>5. PICK n \in 1..Least(Size(f) - f.have, Socket - unread[e]) :
        /\ wire' = [wire EXCEPT ![e] = Written(wire[e], f, n)]
        /\ frames' = IF f.op = "binary" /\ f.have + n = Size(f) THEN [frames EXCEPT ![e] = @ + 1] ELSE frames
        /\ tx' = [tx EXCEPT ![e] = IF f.have + n = Size(f) THEN Tail(t)
                                   ELSE [t EXCEPT ![1].have = f.have + n]]
  <2> HIDE DEF t, f
  <2>1. QED BY DEF Write, t, f, TalkInv, SendInv, SendTypes
<1>6. n \in Nat /\ n >= 1 /\ f.have + n <= Size(f)
  <2> DEFINE a == Size(f) - f.have
             b == Socket - unread[e]
  <2>1. n \in 1..Least(a, b)
    OBVIOUS
  <2>2. a \in Int
    BY <1>3
  <2>3. b \in Int
    BY <1>2, WsAssumption
  <2> HIDE DEF a, b
  <2>4. n \in Nat /\ n >= 1 /\ n <= a
    BY <2>1, <2>2, <2>3 DEF Least
  <2>5. QED BY <1>3, <2>4 DEF a
<1>7. /\ DOMAIN wire = Ends /\ DOMAIN tx = Ends /\ DOMAIN frames = Ends
  BY DEF TalkInv, SendInv, SendTypes, ReadTypes
<1>8. wire'[e] = Written(wire[e], f, n) /\ wire'[p] = wire[p]
  <2> HIDE DEF p, f
  <2>1. QED BY <1>1, <1>5, <1>7
<1>9. frames'[e] = Whole(t, n, frames[e]) /\ frames'[p] = frames[p]
  <2> HIDE DEF p
  <2>1. QED BY <1>1, <1>5, <1>7 DEF Whole
<1>10. tx'[e] = After(t, n) /\ tx'[p] = tx[p]
  <2> DEFINE x == IF f.have + n = Size(f) THEN Tail(t) ELSE [t EXCEPT ![1].have = f.have + n]
  <2>1. x = After(t, n)
    <3>1. f = t[1]
      BY <1>2
    <3>2. QED BY <3>1 DEF After, Put, Grown
  <2> HIDE DEF p, x
  <2>2. tx' = [tx EXCEPT ![e] = x]
    BY <1>5 DEF x
  <2>3. QED BY <1>1, <1>7, <2>1, <2>2
<1>11. /\ Side(wire[e], t, "open", status[p], Mark(Received(p), fragment[p]), sent[e], frames[e])
       /\ Side(wire[p], tx[p], status[p], status[e], Mark(Received(e), fragment[e]), sent[p], frames[p])
       /\ Receipt(Received(e), got[e], why[e], eof[e], closing[e], status[e], status[p], wire[p], frames[p])
       /\ Receipt(Received(p), got[p], why[p], eof[p], closing[p], status[p], status[e], wire[e], frames[e])
  <2> HIDE DEF p
  <2>1. QED BY <1>1, <1>4, TalkAt
<1> HIDE DEF p, t
<1>12. Side(wire'[e], tx'[e], "open", status[p], Mark(Received(p), fragment[p]), sent[e], frames'[e])
  BY <1>2, <1>6, <1>8, <1>9, <1>10, <1>11, SideWrite
<1>13. Receipt(Received(p), got[p], why[p], eof[p], closing[p], status[p], status[e], wire'[e], frames'[e])
  <2>1. status[e] # "closed"
    BY <1>4
  <2>2. QED BY <1>11, <2>1, ReceiptFree, Zenon
<1>14. status' = status /\ why' = why /\ sent' = sent
  BY <1>4
<1>15. QED BY <1>1, <1>4, <1>8, <1>9, <1>10, <1>11, <1>12, <1>13, <1>14, SenderTalk

LEMMA CloseTalk ==
  ASSUME TalkInv, NEW e \in Ends, Close(e)
  PROVE  Talk'
<1> DEFINE p == Peer(e)
           w == wire[e]
<1>1. p \in Ends /\ p # e /\ p = Peer(e)
  BY PeerFacts
<1>2. w \in Seq(Frames)
  BY TypesAt DEF TalkInv
<1>3. /\ status[e] # "closed" /\ status' = [status EXCEPT ![e] = "closed"]
      /\ why' = IF why[e] = "none" THEN [why EXCEPT ![e] = "own decision"] ELSE why
      /\ wire' \in {wire, [wire EXCEPT ![e] = CloseFrame(w)]}
      /\ tx' = [tx EXCEPT ![e] = <<>>] /\ UNCHANGED readVars /\ frames' = frames /\ sent' = sent
  BY DEF Close, Idle
<1>4. DOMAIN wire = Ends /\ DOMAIN tx = Ends /\ DOMAIN status = Ends /\ DOMAIN why = Ends
  BY DEF TalkInv, SendInv, SendTypes, ReadTypes
<1>5. wire'[e] \in {w, CloseFrame(w)} /\ wire'[p] = wire[p]
  <2> HIDE DEF p
  <2>1. QED BY <1>1, <1>3, <1>4
<1>6. tx'[p] = tx[p] /\ status'[e] = "closed" /\ status'[p] = status[p] /\ why'[p] = why[p]
  <2> HIDE DEF p
  <2>1. QED BY <1>1, <1>3, <1>4
<1>7. why'[e] = why[e] \/ why'[e] = "own decision"
  BY <1>3, <1>4
<1> HIDE DEF p, w
<1>8. /\ Side(w, tx[e], status[e], status[p], Mark(Received(p), fragment[p]), sent[e], frames[e])
      /\ Side(wire[p], tx[p], status[p], status[e], Mark(Received(e), fragment[e]), sent[p], frames[p])
      /\ Receipt(Received(e), got[e], why[e], eof[e], closing[e], status[e], status[p], wire[p], frames[p])
      /\ Receipt(Received(p), got[p], why[p], eof[p], closing[p], status[p], status[e], w, frames[e])
  BY <1>1, TalkAt DEF w
<1>9. Side(wire'[e], tx'[e], "closed", status[p], Mark(Received(p), fragment[p]), sent[e], frames[e])
  <2> DEFINE a == Mark(Received(p), fragment[p])
             v == wire'[e]
             u == tx'[e]
  <2>1. Side(w, tx[e], status[e], status[p], a, sent[e], frames[e]) /\ v \in {w, CloseFrame(w)}
    BY <1>5, <1>8
  <2>2. status[e] # "closed"
    BY <1>3
  <2> HIDE DEF a, v, u
  <2>3. Side(v, u, "closed", status[p], a, sent[e], frames[e])
    BY <1>2, <2>1, <2>2, SideClosed
  <2>4. QED BY <2>3 DEF a, v, u
<1>10. Side(wire[p], tx[p], status[p], "closed", Mark(Received(e), fragment[e]), sent[p], frames[p])
  BY <1>3, <1>8, SideDown
<1>11. Receipt(Received(e), got[e], why'[e], eof[e], closing[e], "closed", status[p], wire[p], frames[p])
  BY <1>7, <1>8, ReceiptLeaves
<1>12. Receipt(Received(p), got[p], why[p], eof[p], closing[p], status[p], "closed", wire'[e], frames[e])
  BY <1>3, <1>8, ReceiptFree
<1>13. QED BY <1>1, <1>3, <1>5, <1>6, <1>9, <1>10, <1>11, <1>12, SenderTalk

LEMMA PathTalk ==
  ASSUME TalkInv, NEW e \in Ends, Path(e)
  PROVE  Talk'
<1> DEFINE p == Peer(e)
           w == wire[e]
<1>1. p \in Ends /\ p # e /\ p = Peer(e)
  BY PeerFacts
<1>2. w \in Seq(Frames) /\ tx[e] \in Seq(Frames)
  BY TypesAt DEF TalkInv
<1>3. PICK i \in 1..Len(w) : Split(e, i) \/ Overtake(e, i)
  BY DEF Path
<1>4. status' = status /\ why' = why /\ tx' = tx /\ frames' = frames /\ UNCHANGED readVars /\ sent' = sent
  BY DEF Path, sendVars
<1>5. /\ Side(w, tx[e], status[e], status[p], Mark(Received(p), fragment[p]), sent[e], frames[e])
      /\ Side(wire[p], tx[p], status[p], status[e], Mark(Received(e), fragment[e]), sent[p], frames[p])
      /\ Receipt(Received(e), got[e], why[e], eof[e], closing[e], status[e], status[p], wire[p], frames[p])
      /\ Receipt(Received(p), got[p], why[p], eof[p], closing[p], status[p], status[e], w, frames[e])
  <2> HIDE DEF p
  <2>1. QED BY <1>1, TalkAt DEF w
<1>6. SendInv /\ DOMAIN wire = Ends
  BY DEF TalkInv, SendInv, SendTypes
<1>7. PICK v : /\ wire' = [wire EXCEPT ![e] = v]
               /\ Side(v, tx[e], status[e], status[p], Mark(Received(p), fragment[p]), sent[e], frames[e])
  <2>1. CASE Split(e, i)
    <3>1. /\ wire' = [wire EXCEPT ![e] = SplitAt(w, i)] /\ w[i].len > 1 /\ w[i].fin /\ w[i].op = "binary"
          /\ Complete(w[i]) /\ ~w[i].cut
      BY <1>6, <2>1, SplitIs
    <3>2. w[i].fin = TRUE /\ w[i].cut = FALSE
      <4>1. w[i] \in Frames
        BY <1>2
      <4>2. w[i].fin \in BOOLEAN /\ w[i].cut \in BOOLEAN
        BY <4>1 DEF Frames
      <4>3. QED BY <3>1, <4>2
    <3> HIDE DEF p, w
    <3>3. Side(SplitAt(w, i), tx[e], status[e], status[p], Mark(Received(p), fragment[p]), sent[e], frames[e])
      BY <1>2, <1>5, <3>1, <3>2, SideSplit
    <3>4. QED BY <3>1, <3>3
  <2>2. CASE Overtake(e, i)
    <3>1. /\ wire' = [wire EXCEPT ![e] = Swap(w, i)] /\ i < Len(w) /\ w[i].op = "continuation"
          /\ w[i + 1].op \in {"ping", "pong"} /\ Complete(w[i + 1])
      BY <1>6, <2>2, OvertakeIs
    <3> HIDE DEF p, w
    <3>2. Side(Swap(w, i), tx[e], status[e], status[p], Mark(Received(p), fragment[p]), sent[e], frames[e])
      BY <1>2, <1>5, <3>1, SideSwap
    <3>3. QED BY <3>1, <3>2
  <2>3. QED BY <1>3, <2>1, <2>2
<1>8. w # <<>>
  BY <1>2, <1>3
<1>9. wire'[e] = v /\ wire'[p] = wire[p]
  <2> HIDE DEF p
  <2>1. QED BY <1>1, <1>6, <1>7
<1> HIDE DEF p, w
<1>10. Receipt(Received(p), got[p], why[p], eof[p], closing[p], status[p], status[e], v, frames[e])
  BY <1>5, <1>8, ReceiptBusy
<1>11. QED BY <1>1, <1>4, <1>5, <1>7, <1>9, <1>10, SenderTalk

LEMMA QuietTalk ==
  ASSUME Talk, UNCHANGED <<status, why, tx, frames, wire, sent>>,
         UNCHANGED <<out, reading, fragment, eof, closing, prefetched, got>>
  PROVE  Talk'
<1>1. \A x : Received(x)' = Received(x)
  BY DEF Received
<1>2. ASSUME NEW x \in Ends PROVE Direction(x)' /\ Reader(x)'
  <2>1. Direction(x) /\ Reader(x)
    BY DEF Talk
  <2>2. QED BY <1>1, <2>1 DEF Direction, Reader
<1>3. QED BY <1>2 DEF Talk

------------------------------------------------------------------------------
\* The reader's steps

\* What e has received, and what it knows of the close, changes; the peer has the same.
PeerSame(p) ==
  /\ Received(p)' = Received(p) /\ fragment'[p] = fragment[p] /\ reading'[p] = reading[p]
  /\ prefetched'[p] = prefetched[p] /\ out'[p] = out[p] /\ got'[p] = got[p] /\ eof'[p] = eof[p]
  /\ closing'[p] = closing[p] /\ status'[p] = status[p] /\ why'[p] = why[p] /\ tx'[p] = tx[p]

LEMMA ReaderTalk ==
  ASSUME TalkInv, NEW e \in Ends, NEW p, p = Peer(e), PeerSame(p), wire'[e] = wire[e], sent' = sent,
         frames' = frames,
         Side(wire[e], tx'[e], status'[e], status[p], Mark(Received(p), fragment[p]), sent[e], frames[e]),
         Side(wire'[p], tx[p], status[p], status'[e], Mark(Received(e)', fragment'[e]), sent[p], frames[p]),
         Calm(reading'[e], prefetched'[e], out'[e]),
         Receipt(Received(e)', got'[e], why'[e], eof'[e], closing'[e],
                 status'[e], status[p], wire'[p], frames[p]),
         status[e] # "closed" \/ status'[e] = status[e]
  PROVE  Talk'
<1>1. /\ Calm(reading[p], prefetched[p], out[p])
      /\ Receipt(Received(p), got[p], why[p], eof[p], closing[p], status[p], status[e], wire[e], frames[e])
  BY TalkAt
<1>2. Receipt(Received(p), got[p], why[p], eof[p], closing[p], status[p], status'[e], wire[e], frames[e])
  <2>1. CASE status'[e] = status[e]
    BY <1>1, <2>1
  <2>2. CASE status[e] # "closed"
    BY <1>1, <2>2, ReceiptFree, Zenon
  <2>3. QED BY <2>1, <2>2
<1>3. /\ Side(wire'[e], tx'[e], status'[e], status'[p], Mark(Received(p)', fragment'[p]), sent'[e], frames'[e])
      /\ Side(wire'[p], tx'[p], status'[p], status'[e], Mark(Received(e)', fragment'[e]), sent'[p], frames'[p])
  BY DEF PeerSame
<1>4. Calm(reading'[p], prefetched'[p], out'[p])
  BY <1>1 DEF PeerSame
<1>5. Receipt(Received(e)', got'[e], why'[e], eof'[e], closing'[e],
              status'[e], status'[p], wire'[p], frames'[p])
  BY DEF PeerSame
<1>6. Receipt(Received(p)', got'[p], why'[p], eof'[p], closing'[p],
              status'[p], status'[e], wire'[e], frames'[e])
  BY <1>2 DEF PeerSame
<1>7. QED BY <1>3, <1>4, <1>5, <1>6, TalkNext

LEMMA ReceivedSame ==
  ASSUME NEW p, got'[p] = got[p], prefetched'[p] = prefetched[p], out'[p] = out[p]
  PROVE  Received(p)' = Received(p)
BY DEF Received

\* A complete frame of the peer.
LEMMA ArrivedFacts ==
  ASSUME TalkInv, NEW e \in Ends, NEW p, p = Peer(e), Arrived(e), Parsed(e)
  PROVE  /\ status[e] = "open" /\ reading[e] = TRUE /\ prefetched[e] = <<>>
         /\ wire[p] \in Seq(Frames) /\ wire[p] # <<>> /\ Complete(Head(wire[p])) /\ NextFrame(e) = Head(wire[p])
         /\ NextFrame(e) \in Frames /\ wire'[p] = Tail(wire[p]) /\ wire'[e] = wire[e] /\ p \in Ends /\ p # e
<1>1. p \in Ends /\ p # e
  BY PeerFacts
<1>2. SendInv /\ DOMAIN wire = Ends
  BY DEF TalkInv, SendInv, SendTypes
<1>3. /\ wire[p] \in Seq(Frames) /\ wire[p] # <<>> /\ NextFrame(e) \in Frames
      /\ wire' = [wire EXCEPT ![p] = Tail(wire[p])]
  BY <1>2, ParsedStep
<1>4. status[e] = "open" /\ reading[e] /\ Complete(Head(wire[p])) /\ NextFrame(e) = Head(wire[p])
  BY DEF Arrived, NextFrame
<1>5. reading[e] = TRUE
  <2>1. reading[e] \in BOOLEAN
    BY DEF TalkInv, ReadTypes
  <2>2. QED BY <1>4, <2>1
<1>6. prefetched[e] = <<>>
  <2>1. Calm(reading[e], prefetched[e], out[e])
    BY TalkAt
  <2>2. QED BY <1>5, <2>1 DEF Calm
<1>7. wire'[p] = Tail(wire[p]) /\ wire'[e] = wire[e]
  BY <1>1, <1>2, <1>3
<1>8. QED BY <1>1, <1>3, <1>4, <1>5, <1>6, <1>7

\* A control frame is taken off the wire.
LEMMA HearsTail ==
  ASSUME TalkInv, NEW e \in Ends, NEW p, p = Peer(e), Arrived(e), Parsed(e), NextFrame(e).op \notin Data
  PROVE  Hears(e, p, Tail(wire[p]))
<1> DEFINE w == wire[p]
           a == Mark(Received(e), fragment[e])
<1>1. /\ status[e] = "open" /\ w \in Seq(Frames) /\ w # <<>> /\ Complete(Head(w)) /\ NextFrame(e) = Head(w)
      /\ p \in Ends
  BY ArrivedFacts
<1>2. /\ Side(w, tx[p], status[p], "open", a, sent[p], frames[p])
      /\ Receipt(Received(e), got[e], why[e], eof[e], closing[e], "open", status[p], w, frames[p])
  <2>1. Hears(e, p, wire[p])
    BY <1>1, HearsAll
  <2>2. QED BY <2>1 DEF Hears
<1>3. tx[p] \in Seq(Frames)
  BY <1>1, TypesAt DEF TalkInv
<1> HIDE DEF a, w
<1>4. PICK b \in Nat : Link(Head(w), a, b) /\ Side(Tail(w), tx[p], status[p], "open", b, sent[p], frames[p])
  BY <1>1, <1>2, <1>3, SideParsed
<1>5. b = a
  BY <1>1, <1>4 DEF Link
<1>6. Receipt(Received(e), got[e], why[e], eof[e], closing[e], "open", status[p], Tail(w), frames[p])
  BY <1>1, <1>2, ReceiptBusy, Zenon
<1>7. QED BY <1>4, <1>5, <1>6 DEF Hears, a, w

LEMMA ReadPingTalk ==
  ASSUME TalkInv, NEW e \in Ends, ReadPing(e)
  PROVE  Talk'
<1> DEFINE p == Peer(e)
           g == NextFrame(e)
           f == [g EXCEPT !.op = "pong", !.have = 0, !.cut = FALSE]
<1>1. /\ Arrived(e) /\ Parsed(e) /\ g.op = "ping" /\ QueueFrame(e, f) /\ UNCHANGED readVars /\ sent' = sent
  BY DEF ReadPing
<1>2. /\ status[e] = "open" /\ g \in Frames /\ wire'[p] = Tail(wire[p]) /\ wire'[e] = wire[e]
  BY <1>1, ArrivedFacts
<1>3. f \in Frames /\ f.op = "pong" /\ f.have = 0 /\ f.cut = FALSE /\ f.len \in Nat
  <2> HIDE DEF g
  <2>1. QED BY <1>2 DEF Frames, Ops
<1>4. g.op \notin Data
  BY <1>1 DEF Data
<1>5. p = Peer(e)
  OBVIOUS
<1> HIDE DEF f, p
<1>6. Hears(e, p, Tail(wire[p]))
  BY <1>1, <1>4, <1>5, HearsTail
<1>7. Queueable(f, status[p])
  BY <1>3 DEF Queueable, Size
<1>8. sent[e] \in Nat
  BY TypesAt DEF TalkInv
<1>9. Link(f, 2 * sent[e], 2 * sent'[e])
  BY <1>1, <1>3, <1>8 DEF Link, Data
<1> HIDE DEF g
<1>10. QED BY <1>1, <1>2, <1>3, <1>5, <1>6, <1>7, <1>8, <1>9, QueueTalk

LEMMA ReadPongTalk ==
  ASSUME TalkInv, NEW e \in Ends, ReadPong(e)
  PROVE  Talk'
<1> DEFINE p == Peer(e)
<1>1. /\ Arrived(e) /\ Parsed(e) /\ NextFrame(e).op = "pong" /\ tx' = tx /\ frames' = frames /\ sent' = sent
      /\ UNCHANGED <<status, why, out, reading, fragment, eof, closing, prefetched, got>>
  BY DEF ReadPong, sendVars
<1>2. status[e] = "open" /\ wire'[p] = Tail(wire[p]) /\ wire'[e] = wire[e]
  BY <1>1, ArrivedFacts
<1>3. NextFrame(e).op \notin Data
  BY <1>1 DEF Data
<1>4. p = Peer(e)
  OBVIOUS
<1> HIDE DEF p
<1>5. Hears(e, p, Tail(wire[p]))
  BY <1>1, <1>3, <1>4, HearsTail
<1>6. PeerSame(p) /\ Received(e)' = Received(e)
  BY <1>1, ReceivedSame DEF PeerSame
<1>7. /\ Side(wire[e], tx[e], status[e], status[p], Mark(Received(p), fragment[p]), sent[e], frames[e])
      /\ Calm(reading[e], prefetched[e], out[e])
  BY <1>4, TalkAt
<1>8. Side(wire[e], tx'[e], status'[e], status[p], Mark(Received(p), fragment[p]), sent[e], frames[e])
  BY <1>1, <1>7
<1>9. Side(wire'[p], tx[p], status[p], status'[e], Mark(Received(e)', fragment'[e]), sent[p], frames[p])
  BY <1>1, <1>2, <1>5, <1>6 DEF Hears
<1>10. Calm(reading'[e], prefetched'[e], out'[e])
  BY <1>1, <1>7
<1>11. Receipt(Received(e)', got'[e], why'[e], eof'[e], closing'[e], status'[e], status[p], wire'[p], frames[p])
  BY <1>1, <1>2, <1>5, <1>6 DEF Hears
<1>12. status'[e] = status[e] /\ sent' = sent /\ frames' = frames
  BY <1>1
<1>13. QED BY <1>2, <1>4, <1>6, <1>8, <1>9, <1>10, <1>11, <1>12, ReaderTalk

\* The mark tells whether a message is half received.
LEMMA MarkFacts ==
  ASSUME NEW l \in Seq(Msgs), NEW fr
  PROVE  /\ Mark(l, fr) \in Nat /\ Len(l) \in Nat
         /\ (fr = <<>> => Mark(l, fr) = 2 * Len(l)) /\ (fr # <<>> => Mark(l, fr) = 2 * Len(l) + 1)
<1>1. Len(l) \in Nat
  OBVIOUS
<1>2. QED BY <1>1 DEF Mark

\* One more message, the next one.
LEMMA OrderedAppend ==
  ASSUME NEW l \in Seq(Msgs), NEW ps, NEW w, Ordered(l, ps, w), w # <<>>, NEW x \in Msgs, x.id = Len(l) + 1,
         NEW v, x.cut = TRUE => ps = "closed" /\ v = <<>>
  PROVE  Ordered(Append(l, x), ps, v)
<1> DEFINE k == Append(l, x)
           N == Len(l)
<1>1. N \in Nat /\ Len(k) = N + 1 /\ k[N + 1] = x /\ \A i \in 1..N : k[i] = l[i]
  OBVIOUS
<1>2. \A i \in 1..N : l[i].id = i /\ ~(l[i].cut = TRUE)
  BY DEF Ordered
<1> HIDE DEF k
<1>3. \A i \in 1..Len(k) : i \in 1..N \/ i = N + 1
  BY <1>1
<1>4. \A i \in 1..Len(k) : k[i].id = i /\ (k[i].cut = TRUE => i = Len(k) /\ ps = "closed" /\ v = <<>>)
  BY <1>1, <1>2, <1>3
<1>5. QED BY <1>4 DEF Ordered, k

LEMMA ReadDataTalk ==
  ASSUME TalkInv, NEW e \in Ends, ReadData(e)
  PROVE  Talk'
<1> DEFINE p == Peer(e)
           w == wire[p]
           f == NextFrame(e)
           l == Received(e)
           fr == fragment[e]
           a == Mark(l, fr)
           N == Len(l)
           x == Message(f)
<1>1. /\ Arrived(e) /\ Parsed(e) /\ f.op \in {"binary", "continuation"} /\ tx' = tx /\ frames' = frames
      /\ sent' = sent /\ UNCHANGED <<reading, eof, closing, prefetched, got>>
  BY DEF ReadData, sendVars
<1>2. /\ status[e] = "open" /\ w \in Seq(Frames) /\ w # <<>> /\ Complete(Head(w)) /\ f = Head(w) /\ f \in Frames
      /\ wire'[p] = Tail(w) /\ wire'[e] = wire[e] /\ p \in Ends /\ p # e
  BY <1>1, ArrivedFacts
<1>3. /\ tx[p] \in Seq(Frames) /\ l \in Seq(Msgs) /\ fr \in Seq(Msgs) /\ got[e] \in Seq(Msgs)
      /\ prefetched[e] \in Seq(Msgs) /\ out[e] \in Seq(Msgs)
  <2> HIDE DEF p
  <2>1. QED BY <1>2, TypesAt DEF TalkInv
<1>4. p = Peer(e)
  OBVIOUS
<1> HIDE DEF p
<1>5. /\ Side(wire[e], tx[e], status[e], status[p], Mark(Received(p), fragment[p]), sent[e], frames[e])
      /\ Calm(reading[e], prefetched[e], out[e])
  BY <1>4, TalkAt
<1>6. /\ Side(w, tx[p], status[p], "open", a, sent[p], frames[p])
      /\ Receipt(l, got[e], why[e], eof[e], closing[e], "open", status[p], w, frames[p])
  <2>1. Hears(e, p, wire[p])
    BY <1>2, <1>4, HearsAll
  <2>2. QED BY <2>1 DEF Hears
<1>7. /\ a \in Nat /\ N \in Nat /\ (fr = <<>> => a = 2 * N) /\ (fr # <<>> => a = 2 * N + 1)
  BY <1>3, MarkFacts
<1> HIDE DEF w, l, fr, a, N, f
<1>8. PICK b \in Nat : Link(f, a, b) /\ Side(Tail(w), tx[p], status[p], "open", b, sent[p], frames[p])
  BY <1>2, <1>3, <1>6, SideParsed
<1>9. f.id \in Nat /\ f.fin \in BOOLEAN /\ f.cut \in BOOLEAN
  BY <1>2 DEF Frames
<1>10. ~((f.op = "binary") # (fr = <<>>))
  <2>1. CASE f.op = "binary"
    <3>1. 2 * f.id = a + 2
      BY <1>8, <2>1 DEF Link
    <3>2. fr = <<>>
      BY <1>7, <1>9, <3>1
    <3>3. QED BY <2>1, <3>2
  <2>2. CASE f.op = "continuation"
    <3>1. 2 * f.id = a + 1
      BY <1>8, <2>2 DEF Link
    <3>2. fr # <<>>
      BY <1>7, <1>9, <3>1
    <3>3. QED BY <2>2, <3>2
  <2>3. QED BY <1>1, <2>1, <2>2
<1>11. /\ out' = IF f.fin THEN [out EXCEPT ![e] = Append(out[e], x)] ELSE out
       /\ fragment' = [fragment EXCEPT ![e] = Collected(fr, f)] /\ status' = status /\ why' = why
  BY <1>10 DEF ReadData, f, fr
<1>12. DOMAIN out = Ends /\ DOMAIN fragment = Ends
  BY DEF TalkInv, ReadTypes
<1>13. PeerSame(p)
  <2>1. out'[p] = out[p] /\ fragment'[p] = fragment[p]
    BY <1>2, <1>11, <1>12
  <2>2. QED BY <1>1, <1>11, <2>1, ReceivedSame DEF PeerSame
<1>14. f.id = N + 1
  <2>1. f.op = "binary" => 2 * f.id = a + 2 /\ a = 2 * N
    BY <1>7, <1>8, <1>10 DEF Link
  <2>2. f.op = "continuation" => 2 * f.id = a + 1 /\ a = 2 * N + 1
    BY <1>7, <1>8, <1>10 DEF Link
  <2>3. QED BY <1>1, <1>7, <1>9, <2>1, <2>2
<1>15. Ordered(l, status[p], w)
  BY <1>6 DEF Receipt
<1>16. Receipt(l, got[e], why[e], eof[e], closing[e], "open", status[p], Tail(w), frames[p])
  BY <1>2, <1>6, ReceiptBusy, Zenon
<1>17. fragment'[e] = Collected(fr, f)
  BY <1>11, <1>12
<1>18. /\ b = Mark(Received(e)', fragment'[e])
       /\ Receipt(Received(e)', got[e], why[e], eof[e], closing[e], "open", status[p], Tail(w), frames[p])
  <2>1. CASE f.fin = TRUE
    <3>1. x \in Msgs /\ x.id = f.id /\ x.cut = f.cut
      BY <1>9 DEF Message, Msgs
    <3> HIDE DEF x
    <3>2. out'[e] = Append(out[e], x) /\ fragment'[e] = <<>>
      BY <1>11, <1>12, <1>17, <2>1 DEF Collected
    <3>3. Received(e)' = Append(l, x)
      <4>1. Received(e)' = (got[e] \o prefetched[e]) \o Append(out[e], x)
        BY <1>1, <3>2 DEF Received
      <4>2. got[e] \o prefetched[e] \in Seq(Msgs)
        BY <1>3, Concat
      <4>3. QED BY <1>3, <3>1, <4>1, <4>2, ConcatLast DEF l, Received
    <3>4. x.cut = TRUE => status[p] = "closed" /\ Tail(w) = <<>>
      <4>1. 1 \in 1..Len(w) /\ w[1] = f
        BY <1>2
      <4>2. f.cut = TRUE => 1 = Len(w) /\ status[p] = "closed"
        BY <1>1, <1>6, <4>1 DEF Side, WireShape, Data
      <4>3. 1 = Len(w) => Tail(w) = <<>>
        BY <1>2
      <4>4. QED BY <3>1, <4>2, <4>3
    <3>5. x.id = Len(l) + 1
      BY <1>14, <3>1 DEF N
    <3>6. Ordered(Append(l, x), status[p], Tail(w))
      BY <1>2, <1>3, <1>15, <3>1, <3>4, <3>5, OrderedAppend
    <3>7. Len(Append(l, x)) = N + 1 /\ Append(l, x) \in Seq(Msgs)
      BY <1>3, <3>1 DEF N
    <3>8. b = 2 * (N + 1)
      <4>1. f.op = "binary" => b = a + 2 /\ a = 2 * N
        BY <1>7, <1>8, <1>10, <2>1 DEF Link
      <4>2. f.op = "continuation" => b = a + 1 /\ a = 2 * N + 1
        BY <1>7, <1>8, <1>10 DEF Link
      <4>3. QED BY <1>1, <1>7, <4>1, <4>2
    <3> DEFINE k == Append(l, x)
    <3> HIDE DEF k
    <3>9. Mark(k, <<>>) = 2 * (N + 1)
      BY <3>7, MarkFacts DEF k
    <3>10. frames[p] \in Nat
      BY <1>2 DEF TalkInv, ReadTypes
    <3>11. Receipt(k, got[e], why[e], eof[e], closing[e], "open", status[p], Tail(w), frames[p])
      <4>1. Len(k) = Len(l) + 1 /\ Len(l) \in Nat /\ Ordered(k, status[p], Tail(w))
        BY <1>7, <3>6, <3>7 DEF k, N
      <4>2. frames[p] <= Len(l) => frames[p] <= Len(k)
        BY <3>10, <4>1
      <4>3. QED BY <1>16, <4>1, <4>2 DEF Receipt
    <3>12. QED BY <3>2, <3>3, <3>8, <3>9, <3>11 DEF k
  <2>2. CASE f.fin = FALSE
    <3>1. out'[e] = out[e] /\ fragment'[e] = Append(fr, x)
      BY <1>11, <1>17, <2>2 DEF Collected
    <3>2. Received(e)' = l
      BY <1>1, <3>1 DEF Received, l
    <3>3. f.op = "binary" /\ b = a + 1
      BY <1>1, <1>8, <2>2 DEF Link
    <3>4. a = 2 * N /\ fragment'[e] # <<>>
      <4>1. a = 2 * N
        BY <1>7, <1>10, <3>3
      <4>2. x \in Msgs
        BY <1>9 DEF Message, Msgs
      <4> HIDE DEF x
      <4>3. Append(fr, x) # <<>>
        BY <1>3, <4>2, NotNil
      <4>4. QED BY <3>1, <4>1, <4>3 DEF x
    <3>5. Mark(l, fragment'[e]) = 2 * N + 1
      BY <1>3, <3>4, MarkFacts DEF N
    <3>6. b = Mark(l, fragment'[e])
      BY <3>3, <3>4, <3>5
    <3>7. QED BY <1>16, <3>2, <3>6
  <2>3. QED BY <1>9, <2>1, <2>2
<1>19. Side(wire[e], tx'[e], status'[e], status[p], Mark(Received(p), fragment[p]), sent[e], frames[e])
  BY <1>1, <1>5, <1>11
<1>20. Side(wire'[p], tx[p], status[p], status'[e], Mark(Received(e)', fragment'[e]), sent[p], frames[p])
  BY <1>2, <1>8, <1>11, <1>18
<1>21. Calm(reading'[e], prefetched'[e], out'[e])
  <2>1. reading'[e] = TRUE /\ prefetched'[e] = <<>>
    BY <1>1, <1>4, ArrivedFacts
  <2>2. QED BY <2>1 DEF Calm
<1>22. Receipt(Received(e)', got'[e], why'[e], eof'[e], closing'[e], status'[e], status[p], wire'[p], frames[p])
  BY <1>1, <1>2, <1>11, <1>18
<1>23. status'[e] = status[e] /\ sent' = sent /\ frames' = frames
  BY <1>1, <1>11
<1>24. QED BY <1>2, <1>4, <1>13, <1>19, <1>20, <1>21, <1>22, <1>23, ReaderTalk

\* Whatever is handed over and kept, the messages received are the same.
LEMMA HandOverSame ==
  ASSUME TalkInv, NEW e \in Ends, NEW p, p = Peer(e), prefetched[e] = <<>>, HandOver(e), ReadEnds(e)
  PROVE  /\ Received(e)' = Received(e) /\ Len(got[e]) <= Len(got'[e]) /\ Len(got'[e]) \in Nat
         /\ Calm(reading'[e], prefetched'[e], out'[e])
         /\ got'[p] = got[p] /\ prefetched'[p] = prefetched[p] /\ out'[p] = out[p] /\ reading'[p] = reading[p]
<1> DEFINE g == got[e]
           o == out[e]
           early == ~confirmed[e] /\ o # <<>>
           a == IF early THEN <<Head(o)>> ELSE o
           b == IF early THEN Tail(o) ELSE <<>>
<1>1. p \in Ends /\ p # e
  BY PeerFacts
<1>2. g \in Seq(Msgs) /\ o \in Seq(Msgs)
  BY TypesAt DEF TalkInv
<1>3. DOMAIN got = Ends /\ DOMAIN prefetched = Ends /\ DOMAIN out = Ends /\ DOMAIN reading = Ends
  BY DEF TalkInv, ReadTypes
<1>4. got' = [got EXCEPT ![e] = g \o a] /\ prefetched' = [prefetched EXCEPT ![e] = b]
  BY DEF HandOver
<1>5. reading' = [reading EXCEPT ![e] = FALSE] /\ out' = [out EXCEPT ![e] = <<>>]
  BY DEF ReadEnds
<1>6. a \in Seq(Msgs) /\ b \in Seq(Msgs) /\ (g \o a) \o b = g \o o
  <2>1. CASE early
    <3>1. <<Head(o)>> \in Seq(Msgs) /\ Tail(o) \in Seq(Msgs)
      <4> DEFINE y == Head(o)
      <4>1. y \in Msgs /\ Tail(o) \in Seq(Msgs)
        BY <1>2, <2>1
      <4> HIDE DEF y
      <4>2. <<y>> \in Seq(Msgs)
        BY <4>1
      <4>3. QED BY <4>1, <4>2 DEF y
    <3>2. (g \o <<Head(o)>>) \o Tail(o) = g \o o
      BY <1>2, <2>1, ConcatHead
    <3>3. a = <<Head(o)>> /\ b = Tail(o)
      BY <2>1
    <3> HIDE DEF a, b
    <3>4. QED BY <3>1, <3>2, <3>3
  <2>2. CASE ~early
    <3>1. a = o /\ b = <<>>
      BY <2>2
    <3> HIDE DEF a, b
    <3>2. g \o o \in Seq(Msgs)
      BY <1>2, Concat
    <3>3. (g \o o) \o <<>> = g \o o
      BY <3>2, ConcatNil
    <3>4. QED BY <1>2, <3>1, <3>3
  <2>3. QED BY <2>1, <2>2
<1> HIDE DEF a, b
<1>7. got'[e] = g \o a /\ prefetched'[e] = b /\ out'[e] = <<>> /\ reading'[e] = FALSE
  BY <1>3, <1>4, <1>5
<1>8. Received(e)' = Received(e)
  <2>1. Received(e) = (g \o <<>>) \o o
    BY DEF Received
  <2>2. g \o <<>> = g
    BY <1>2, ConcatNil
  <2>3. Received(e)' = ((g \o a) \o b) \o <<>>
    BY <1>7 DEF Received
  <2>4. g \o o \in Seq(Msgs)
    BY <1>2, Concat
  <2>5. (g \o o) \o <<>> = g \o o
    BY <2>4, ConcatNil
  <2>6. QED BY <1>6, <2>1, <2>2, <2>3, <2>5
<1>9. Len(g \o a) = Len(g) + Len(a) /\ Len(g) \in Nat /\ Len(a) \in Nat
  BY <1>2, <1>6, Concat
<1>10. got'[p] = got[p] /\ prefetched'[p] = prefetched[p] /\ out'[p] = out[p] /\ reading'[p] = reading[p]
  BY <1>1, <1>3, <1>4, <1>5
<1>11. Calm(reading'[e], prefetched'[e], out'[e])
  BY <1>7 DEF Calm
<1>12. Len(got[e]) <= Len(got'[e]) /\ Len(got'[e]) \in Nat
  BY <1>7, <1>9
<1>13. QED BY <1>8, <1>10, <1>11, <1>12

\* More is handed over, and the end of the peer's frames may have been seen.
LEMMA ReceiptHanded ==
  ASSUME NEW l, NEW g, NEW wy, NEW ef, NEW cl, NEW st, NEW ps, NEW w, NEW m \in Nat,
         Receipt(l, g, wy, ef, cl, st, ps, w, m), NEW h, Len(g) \in Nat, Len(h) \in Nat, Len(g) <= Len(h),
         NEW eg, NEW cm, (eg = ef /\ cm = cl) \/ (ps = "closed" /\ m <= Len(l))
  PROVE  Receipt(l, h, wy, eg, cm, st, ps, w, m)
<1>1. m <= Len(g) => m <= Len(h)
  OBVIOUS
<1>2. QED BY <1>1 DEF Receipt

\* What was parsed is lost with the session.
LEMMA ReceiptCut ==
  ASSUME NEW k \in Seq(Msgs), NEW o \in Seq(Msgs), NEW g, NEW wy, NEW ef, NEW cl, NEW st, NEW ps, NEW w, NEW m,
         Receipt(k \o o, g, wy, ef, cl, st, ps, w, m), NEW eg, NEW cm
  PROVE  Receipt(k, g, "truncated", eg, cm, "failed", ps, w, m)
<1> DEFINE l == k \o o
           N == Len(k)
<1>1. Len(l) = N + Len(o) /\ N \in Nat /\ Len(o) \in Nat /\ \A i \in 1..N : l[i] = k[i]
  BY Concat
<1>2. Ordered(l, ps, w)
  BY DEF Receipt
<1> HIDE DEF l
<1>3. \A i \in 1..N : i \in 1..Len(l) /\ (i = Len(l) => i = N)
  BY <1>1
<1>4. Ordered(k, ps, w)
  BY <1>1, <1>2, <1>3 DEF Ordered
<1>5. QED BY <1>4 DEF Receipt

\* Once the wire is empty, all that the peer has written has been received.
LEMMA AllWritten ==
  ASSUME NEW t, NEW st, NEW l \in Seq(Msgs), NEW fr, NEW n, NEW m \in Nat,
         Side(<<>>, t, st, "open", Mark(l, fr), n, m)
  PROVE  m <= Len(l)
<1> DEFINE a == Mark(l, fr)
           N == Len(l)
<1>1. /\ a \in Nat /\ N \in Nat /\ (fr = <<>> => a = 2 * N) /\ (fr # <<>> => a = 2 * N + 1)
  BY MarkFacts
<1>2. PICK z \in Nat : Flow(<<>>, t, st, a, n, m, z)
  BY DEF Side
<1> HIDE DEF a, N
<1>3. Linked(<<>>, a, z) /\ 2 * m <= z
  BY <1>2 DEF Flow
<1>4. a = z
  BY <1>1, <1>3, LinkedNil
<1>5. m <= N
  BY <1>1, <1>3, <1>4
<1>6. QED BY <1>5 DEF N

\* The session of e ends while it reads: its own direction and what it heard.
LEMMA ReaderFails ==
  ASSUME NEW w, NEW t, NEW ps, NEW a, NEW n, NEW m, Side(w, t, "open", ps, a, n, m)
  PROVE  Side(w, t, "failed", ps, a, n, m)
BY SideFails

LEMMA ReadCloseTalk ==
  ASSUME TalkInv, NEW e \in Ends, ReadClose(e)
  PROVE  Talk'
<1> DEFINE p == Peer(e)
           w == wire[p]
           l == Received(e)
           c == Frame("close", 0, 0, TRUE)
<1>1. /\ Arrived(e) /\ Parsed(e) /\ NextFrame(e).op = "close" /\ sent' = sent /\ UNCHANGED <<fragment, eof>>
      /\ closing' = [closing EXCEPT ![e] = TRUE] /\ CloseSeen(e) /\ ReadEnds(e)
  BY DEF ReadClose
<1>2. IF Fits(e, c) THEN Push(e, c) ELSE UNCHANGED sendVars
  BY DEF ReadClose
<1>3. /\ status[e] = "open" /\ w \in Seq(Frames) /\ w # <<>> /\ NextFrame(e) = Head(w)
      /\ wire'[p] = Tail(w) /\ wire'[e] = wire[e] /\ p \in Ends /\ p # e /\ prefetched[e] = <<>>
      /\ reading[e] = TRUE
  BY <1>1, ArrivedFacts
<1>4. NextFrame(e).op \notin Data /\ p = Peer(e)
  BY <1>1 DEF Data
<1>5. l \in Seq(Msgs) /\ got[e] \in Seq(Msgs) /\ tx[e] \in Seq(Frames) /\ sent[e] \in Nat /\ frames[e] \in Nat
  BY TypesAt DEF TalkInv
<1> HIDE DEF p
<1>6. frames[p] \in Nat
  BY <1>3 DEF TalkInv, ReadTypes
<1>7. /\ Side(wire[e], tx[e], "open", status[p], Mark(Received(p), fragment[p]), sent[e], frames[e])
      /\ Side(w, tx[p], status[p], "open", Mark(l, fragment[e]), sent[p], frames[p])
  BY <1>3, <1>4, TalkAt
<1>8. status[p] = "closed" /\ Tail(w) = <<>>
  <2>1. 1 \in 1..Len(w) /\ w[1] = NextFrame(e)
    BY <1>3
  <2>2. WireShape(w, status[p], "open")
    BY <1>7 DEF Side
  <2>3. 1 = Len(w) /\ status[p] = "closed"
    BY <1>1, <2>1, <2>2 DEF WireShape
  <2> HIDE DEF w
  <2>4. Tail(w) = <<>>
    BY <1>3, <2>3
  <2>5. QED BY <2>3, <2>4
<1>9. /\ Side(Tail(w), tx[p], status[p], "open", Mark(l, fragment[e]), sent[p], frames[p])
      /\ Receipt(l, got[e], why[e], eof[e], closing[e], "open", status[p], Tail(w), frames[p])
  <2>1. Hears(e, p, Tail(wire[p]))
    BY <1>1, <1>4, HearsTail
  <2>2. QED BY <2>1 DEF Hears
<1>10. frames[p] <= Len(l)
  <2> DEFINE fr == fragment[e]
  <2>1. Side(<<>>, tx[p], status[p], "open", Mark(l, fr), sent[p], frames[p])
    BY <1>8, <1>9
  <2> HIDE DEF l, fr
  <2>2. QED BY <1>5, <1>6, <2>1, AllWritten
<1>11. /\ Side(wire[e], tx'[e], "open", status[p], Mark(Received(p), fragment[p]), sent[e], frames[e])
       /\ tx'[p] = tx[p] /\ frames' = frames
  <2>1. CASE Fits(e, c)
    <3>1. c \in Frames /\ c.have = 0 /\ c.op = "close" /\ c.cut = FALSE /\ c.len = 0
      BY DEF Frame, Frames, Ops
    <3>2. tx' = [tx EXCEPT ![e] = Append(tx[e], c)] /\ frames' = frames
      BY <1>2, <2>1 DEF Push
    <3> HIDE DEF c
    <3>3. Queueable(c, status[p])
      BY <1>8, <3>1 DEF Queueable, Size
    <3>4. Link(c, 2 * sent[e], 2 * sent[e])
      BY <3>1 DEF Link, Data
    <3>5. DOMAIN tx = Ends
      BY DEF TalkInv, SendInv, SendTypes
    <3>6. tx'[e] = Append(tx[e], c) /\ tx'[p] = tx[p]
      BY <1>3, <3>2, <3>5
    <3>7. Side(wire[e], Append(tx[e], c), "open", status[p], Mark(Received(p), fragment[p]), sent[e], frames[e])
      BY <1>5, <1>7, <3>1, <3>3, <3>4, SidePush
    <3>8. QED BY <3>2, <3>6, <3>7
  <2>2. CASE ~Fits(e, c)
    <3>1. tx' = tx /\ frames' = frames
      BY <1>2, <2>2 DEF sendVars
    <3>2. QED BY <1>7, <3>1
  <2>3. QED BY <2>1, <2>2
<1>12. closing'[p] = closing[p] /\ closing'[e] = TRUE /\ eof' = eof /\ fragment' = fragment
  <2>1. DOMAIN closing = Ends
    BY DEF TalkInv, ReadTypes
  <2>2. QED BY <1>1, <1>3, <2>1
<1>13. CASE out[e] = <<>>
  <2>1. Throw(e, "close received") /\ UNCHANGED <<got, prefetched, confirmed>>
    BY <1>1, <1>13 DEF CloseSeen
  <2>2. /\ status'[e] = "failed" /\ why'[e] = "close received" /\ status'[p] = status[p] /\ why'[p] = why[p]
    BY <1>4, <2>1, ThrowAt DEF TalkInv
  <2>3. out'[e] = <<>> /\ reading'[e] = FALSE /\ out'[p] = out[p] /\ reading'[p] = reading[p]
    <3>1. DOMAIN out = Ends /\ DOMAIN reading = Ends
      BY DEF TalkInv, ReadTypes
    <3>2. reading' = [reading EXCEPT ![e] = FALSE] /\ out' = [out EXCEPT ![e] = <<>>]
      BY <1>1 DEF ReadEnds
    <3>3. QED BY <1>3, <3>1, <3>2
  <2>4. Received(e)' = l /\ PeerSame(p)
    <3>1. Received(e)' = l /\ Received(p)' = Received(p)
      BY <1>13, <2>1, <2>3, ReceivedSame
    <3>2. QED BY <1>11, <1>12, <2>1, <2>2, <2>3, <3>1 DEF PeerSame
  <2>5. l = got[e]
    <3>1. l = (got[e] \o <<>>) \o <<>>
      BY <1>3, <1>13 DEF Received
    <3> HIDE DEF l
    <3>2. QED BY <1>5, <3>1, ConcatNil
  <2>6. Receipt(l, got[e], "close received", eof[e], TRUE, "failed", status[p], Tail(w), frames[p])
    <3>1. frames[p] <= Len(got[e])
      BY <1>10, <2>5
    <3>2. Ordered(l, status[p], Tail(w))
      BY <1>9 DEF Receipt
    <3> HIDE DEF l, w
    <3>3. QED BY <1>8, <3>1, <3>2 DEF Receipt
  <2>7. Side(wire[e], tx'[e], "failed", status[p], Mark(Received(p), fragment[p]), sent[e], frames[e])
    BY <1>11, ReaderFails
  <2>8. Side(Tail(w), tx[p], status[p], "failed", Mark(l, fragment[e]), sent[p], frames[p])
    <3> DEFINE a == Mark(l, fragment[e])
               v == Tail(w)
               qs == "failed"
    <3>1. Side(v, tx[p], status[p], status[e], a, sent[p], frames[p])
      BY <1>3, <1>9
    <3>2. status[e] # "closed" /\ qs # "open"
      BY <1>3
    <3> HIDE DEF a, v, qs
    <3>3. Side(v, tx[p], status[p], qs, a, sent[p], frames[p])
      BY <3>1, <3>2, SideDown
    <3>4. QED BY <3>3 DEF a, v, qs
  <2>9. Calm(reading'[e], prefetched'[e], out'[e])
    BY <2>3 DEF Calm
  <2> HIDE DEF l, w
  <2>10. Side(wire[e], tx'[e], status'[e], status[p], Mark(Received(p), fragment[p]), sent[e], frames[e])
    BY <2>2, <2>7
  <2>11. Side(wire'[p], tx[p], status[p], status'[e], Mark(Received(e)', fragment'[e]), sent[p], frames[p])
    BY <1>3, <1>12, <2>2, <2>4, <2>8
  <2>12. Receipt(Received(e)', got'[e], why'[e], eof'[e], closing'[e],
                 status'[e], status[p], wire'[p], frames[p])
    BY <1>3, <1>12, <2>1, <2>2, <2>4, <2>6
  <2>13. status[e] # "closed"
    BY <1>3
  <2>14. QED BY <1>1, <1>3, <1>4, <1>11, <2>4, <2>9, <2>10, <2>11, <2>12, <2>13, ReaderTalk
<1>14. CASE out[e] # <<>>
  <2>1. HandOver(e) /\ UNCHANGED <<status, why>> /\ ReadEnds(e)
    BY <1>1, <1>14 DEF CloseSeen
  <2>2. /\ Received(e)' = l /\ Len(got[e]) <= Len(got'[e]) /\ Len(got'[e]) \in Nat
        /\ Calm(reading'[e], prefetched'[e], out'[e])
        /\ got'[p] = got[p] /\ prefetched'[p] = prefetched[p] /\ out'[p] = out[p] /\ reading'[p] = reading[p]
    BY <1>3, <1>4, <2>1, HandOverSame
  <2>3. PeerSame(p)
    BY <1>11, <1>12, <2>1, <2>2, ReceivedSame DEF PeerSame
  <2>4. Len(got[e]) \in Nat
    BY <1>5
  <2> HIDE DEF l, w
  <2>5. Receipt(l, got'[e], why[e], eof[e], TRUE, "open", status[p], Tail(w), frames[p])
    BY <1>6, <1>8, <1>9, <1>10, <2>2, <2>4, ReceiptHanded
  <2>6. Side(wire[e], tx'[e], status'[e], status[p], Mark(Received(p), fragment[p]), sent[e], frames[e])
    BY <1>3, <1>11, <2>1
  <2>7. Side(wire'[p], tx[p], status[p], status'[e], Mark(Received(e)', fragment'[e]), sent[p], frames[p])
    BY <1>3, <1>9, <1>12, <2>1, <2>2
  <2>8. Receipt(Received(e)', got'[e], why'[e], eof'[e], closing'[e],
                status'[e], status[p], wire'[p], frames[p])
    BY <1>3, <1>12, <2>1, <2>2, <2>5
  <2>9. status[e] # "closed"
    BY <1>3
  <2>10. QED BY <1>1, <1>3, <1>4, <1>11, <2>2, <2>3, <2>6, <2>7, <2>8, <2>9, ReaderTalk
<1>15. QED BY <1>13, <1>14

LEMMA ReadReturnTalk ==
  ASSUME TalkInv, NEW e \in Ends, ReadReturn(e)
  PROVE  Talk'
<1> DEFINE p == Peer(e)
           w == wire[p]
           l == Received(e)
<1>1. /\ status[e] = "open" /\ reading[e] /\ ReadEnds(e) /\ tx' = tx /\ frames' = frames /\ wire' = wire
      /\ sent' = sent /\ fragment' = fragment /\ closing' = closing
  BY DEF ReadReturn, sendVars, pathVars
<1>2. p \in Ends /\ p # e /\ p = Peer(e)
  BY PeerFacts
<1>3. /\ l \in Seq(Msgs) /\ got[e] \in Seq(Msgs) /\ prefetched[e] \in Seq(Msgs) /\ out[e] \in Seq(Msgs)
      /\ reading[e] \in BOOLEAN
  BY TypesAt DEF TalkInv
<1> HIDE DEF p
<1>4. frames[p] \in Nat /\ DOMAIN eof = Ends /\ DOMAIN out = Ends /\ DOMAIN reading = Ends
  BY <1>2 DEF TalkInv, ReadTypes
<1>5. /\ Side(wire[e], tx[e], "open", status[p], Mark(Received(p), fragment[p]), sent[e], frames[e])
      /\ Side(w, tx[p], status[p], "open", Mark(l, fragment[e]), sent[p], frames[p])
      /\ Receipt(l, got[e], why[e], eof[e], closing[e], "open", status[p], w, frames[p])
      /\ Calm(reading[e], prefetched[e], out[e])
  BY <1>1, <1>2, TalkAt
<1>6. prefetched[e] = <<>>
  BY <1>1, <1>3, <1>5 DEF Calm
<1>7. out'[e] = <<>> /\ reading'[e] = FALSE /\ out'[p] = out[p] /\ reading'[p] = reading[p]
  <2>1. reading' = [reading EXCEPT ![e] = FALSE] /\ out' = [out EXCEPT ![e] = <<>>]
    BY <1>1 DEF ReadEnds
  <2>2. QED BY <1>2, <1>4, <2>1
<1>8. Len(got[e]) \in Nat
  BY <1>3
<1>9. ASSUME w = <<>> PROVE frames[p] <= Len(l)
  <2> DEFINE fr == fragment[e]
  <2>1. Side(<<>>, tx[p], status[p], "open", Mark(l, fr), sent[p], frames[p])
    BY <1>5, <1>9
  <2> HIDE DEF l, fr
  <2>2. QED BY <1>3, <1>4, <2>1, AllWritten
<1>10. l = got[e] \o out[e]
  <2>1. got[e] \o <<>> = got[e]
    BY <1>3, ConcatNil
  <2>2. QED BY <1>6, <2>1 DEF Received
<1>11. ASSUME HandOver(e), UNCHANGED <<status, why>>, eof'[p] = eof[p],
              eof'[e] = eof[e] \/ (status[p] = "closed" /\ w = <<>>)
       PROVE  Talk'
  <2>1. /\ Received(e)' = l /\ Len(got[e]) <= Len(got'[e]) /\ Len(got'[e]) \in Nat
        /\ Calm(reading'[e], prefetched'[e], out'[e])
        /\ got'[p] = got[p] /\ prefetched'[p] = prefetched[p] /\ out'[p] = out[p] /\ reading'[p] = reading[p]
    BY <1>1, <1>2, <1>6, <1>11, HandOverSame
  <2>2. status' = status /\ why' = why
    BY <1>11
  <2>3. PeerSame(p)
    BY <1>1, <1>11, <2>1, <2>2, ReceivedSame DEF PeerSame
  <2>4. (eof'[e] = eof[e] /\ closing[e] = closing[e]) \/ (status[p] = "closed" /\ frames[p] <= Len(l))
    BY <1>9, <1>11
  <2> HIDE DEF l, w
  <2>5. Receipt(l, got'[e], why[e], eof'[e], closing[e], "open", status[p], w, frames[p])
    BY <1>4, <1>5, <1>8, <2>1, <2>4, ReceiptHanded
  <2>6. Side(wire[e], tx'[e], status'[e], status[p], Mark(Received(p), fragment[p]), sent[e], frames[e])
    BY <1>1, <1>5, <2>2
  <2>7. Side(wire'[p], tx[p], status[p], status'[e], Mark(Received(e)', fragment'[e]), sent[p], frames[p])
    BY <1>1, <1>5, <2>1, <2>2 DEF w
  <2>8. Receipt(Received(e)', got'[e], why'[e], eof'[e], closing'[e],
                status'[e], status[p], wire'[p], frames[p])
    BY <1>1, <2>1, <2>2, <2>5 DEF w
  <2>9. wire'[e] = wire[e] /\ status[e] # "closed"
    BY <1>1
  <2>10. QED BY <1>1, <1>2, <2>1, <2>3, <2>6, <2>7, <2>8, <2>9, ReaderTalk
<1>12. ASSUME NEW r, Throw(e, r), UNCHANGED <<got, prefetched, confirmed>>, eof'[p] = eof[p],
              Receipt(got[e], got[e], r, eof'[e], closing[e], "failed", status[p], w, frames[p])
       PROVE  Talk'
  <2>1. /\ status'[e] = "failed" /\ why'[e] = r /\ status'[p] = status[p] /\ why'[p] = why[p]
    BY <1>2, <1>12, ThrowAt DEF TalkInv
  <2>2. got' = got /\ prefetched' = prefetched
    BY <1>12
  <2>3. Received(e)' = got[e]
    <3>1. Received(e)' = (got[e] \o <<>>) \o <<>>
      BY <1>6, <1>7, <2>2 DEF Received
    <3>2. QED BY <1>3, <3>1, ConcatNil
  <2>4. PeerSame(p)
    BY <1>1, <1>7, <1>12, <2>1, <2>2, ReceivedSame DEF PeerSame
  <2>5. Side(wire[e], tx[e], "failed", status[p], Mark(Received(p), fragment[p]), sent[e], frames[e])
    BY <1>5, ReaderFails
  <2>6. Side(w, tx[p], status[p], "failed", Mark(got[e], fragment[e]), sent[p], frames[p])
    <3> DEFINE a == Mark(l, fragment[e])
               b == Mark(got[e], fragment[e])
               qs == "failed"
    <3>1. Side(w, tx[p], status[p], status[e], a, sent[p], frames[p])
      BY <1>1, <1>5
    <3>2. status[e] # "closed" /\ qs # "open"
      BY <1>1
    <3> HIDE DEF a, b, qs, w
    <3>3. Side(w, tx[p], status[p], qs, b, sent[p], frames[p])
      BY <3>1, <3>2, SideDown
    <3>4. QED BY <3>3 DEF b, qs
  <2>7. Calm(reading'[e], prefetched'[e], out'[e])
    BY <1>7 DEF Calm
  <2>8. Side(wire[e], tx'[e], status'[e], status[p], Mark(Received(p), fragment[p]), sent[e], frames[e])
    BY <1>1, <2>1, <2>5
  <2>9. Side(wire'[p], tx[p], status[p], status'[e], Mark(Received(e)', fragment'[e]), sent[p], frames[p])
    BY <1>1, <2>1, <2>3, <2>6
  <2>10. Receipt(Received(e)', got'[e], why'[e], eof'[e], closing'[e],
                 status'[e], status[p], wire'[p], frames[p])
    BY <1>1, <1>12, <2>1, <2>2, <2>3
  <2>11. wire'[e] = wire[e] /\ status[e] # "closed"
    BY <1>1
  <2>12. QED BY <1>1, <1>2, <2>4, <2>7, <2>8, <2>9, <2>10, <2>11, ReaderTalk
<1>13. Receipt(got[e], got[e], "truncated", eof'[e], closing[e], "failed", status[p], w, frames[p])
  <2>1. Receipt(got[e] \o out[e], got[e], why[e], eof[e], closing[e], "open", status[p], w, frames[p])
    BY <1>5, <1>10
  <2> HIDE DEF w
  <2>2. QED BY <1>3, <2>1, ReceiptCut
<1>14. CASE HandOver(e) /\ UNCHANGED <<status, why, eof>>
  BY <1>11, <1>14
<1>15. ASSUME status[p] = "closed", eof' = [eof EXCEPT ![e] = TRUE],
              IF w # <<>> \/ fragment[e] # <<>>
              THEN Throw(e, "truncated") /\ UNCHANGED <<got, prefetched, confirmed>>
              ELSE IF out[e] = <<>> THEN Throw(e, "peer closed") /\ UNCHANGED <<got, prefetched, confirmed>>
              ELSE HandOver(e) /\ UNCHANGED <<status, why>>
       PROVE  Talk'
  <2>1. eof'[p] = eof[p]
    BY <1>2, <1>4, <1>15
  <2>2. CASE w # <<>> \/ fragment[e] # <<>>
    <3>1. Throw(e, "truncated") /\ UNCHANGED <<got, prefetched, confirmed>>
      BY <1>15, <2>2
    <3>2. QED BY <1>12, <1>13, <2>1, <3>1
  <2>3. CASE w = <<>> /\ fragment[e] = <<>> /\ out[e] = <<>>
    <3>1. Throw(e, "peer closed") /\ UNCHANGED <<got, prefetched, confirmed>>
      BY <1>15, <2>3
    <3>2. l = got[e]
      BY <1>3, <1>10, <2>3, ConcatNil
    <3>3. frames[p] <= Len(got[e])
      BY <1>9, <2>3, <3>2
    <3>4. Ordered(got[e], status[p], w)
      BY <1>5, <3>2 DEF Receipt
    <3>5. Receipt(got[e], got[e], "peer closed", eof'[e], closing[e], "failed", status[p], w, frames[p])
      BY <1>15, <3>3, <3>4 DEF Receipt
    <3>6. QED BY <1>12, <2>1, <3>1, <3>5
  <2>4. CASE w = <<>> /\ fragment[e] = <<>> /\ out[e] # <<>>
    <3>1. HandOver(e) /\ UNCHANGED <<status, why>>
      BY <1>15, <2>4
    <3>2. QED BY <1>11, <1>15, <2>1, <2>4, <3>1
  <2>5. QED BY <2>2, <2>3, <2>4
<1>16. QED BY <1>14, <1>15 DEF ReadReturn, p, w

LEMMA ReadStartTalk ==
  ASSUME TalkInv, NEW e \in Ends, ReadStart(e)
  PROVE  Talk'
<1> DEFINE p == Peer(e)
           w == wire[p]
           l == Received(e)
<1>1. /\ status[e] = "open" /\ ~reading[e] /\ tx' = tx /\ frames' = frames /\ wire' = wire
      /\ sent' = sent /\ fragment' = fragment /\ closing' = closing /\ eof' = eof /\ out' = out
  BY DEF ReadStart, sendVars, Idle
<1>2. p \in Ends /\ p # e /\ p = Peer(e)
  BY PeerFacts
<1>3. /\ l \in Seq(Msgs) /\ got[e] \in Seq(Msgs) /\ prefetched[e] \in Seq(Msgs) /\ out[e] \in Seq(Msgs)
      /\ reading[e] \in BOOLEAN /\ closing[e] \in BOOLEAN /\ eof[e] \in BOOLEAN
  BY TypesAt DEF TalkInv
<1> HIDE DEF p
<1>4. /\ frames[p] \in Nat /\ DOMAIN reading = Ends /\ DOMAIN got = Ends /\ DOMAIN prefetched = Ends
  BY <1>2 DEF TalkInv, ReadTypes
<1>5. /\ Side(wire[e], tx[e], "open", status[p], Mark(Received(p), fragment[p]), sent[e], frames[e])
      /\ Side(w, tx[p], status[p], "open", Mark(l, fragment[e]), sent[p], frames[p])
      /\ Receipt(l, got[e], why[e], eof[e], closing[e], "open", status[p], w, frames[p])
      /\ Calm(reading[e], prefetched[e], out[e])
  BY <1>1, <1>2, TalkAt
<1>6. out[e] = <<>> /\ reading[e] = FALSE
  BY <1>1, <1>3, <1>5 DEF Calm
<1>7. l = got[e] \o prefetched[e]
  <2>1. got[e] \o prefetched[e] \in Seq(Msgs)
    BY <1>3, Concat
  <2>2. (got[e] \o prefetched[e]) \o <<>> = got[e] \o prefetched[e]
    BY <2>1, ConcatNil
  <2>3. QED BY <1>6, <2>2 DEF Received
<1>8. wire'[e] = wire[e] /\ status[e] # "closed"
  BY <1>1
<1>9. CASE prefetched[e] # <<>>
  <2>1. /\ got' = [got EXCEPT ![e] = got[e] \o prefetched[e]]
        /\ prefetched' = [prefetched EXCEPT ![e] = <<>>] /\ status' = status /\ why' = why /\ reading' = reading
    BY <1>9 DEF ReadStart
  <2>2. got'[e] = l /\ prefetched'[e] = <<>> /\ got'[p] = got[p] /\ prefetched'[p] = prefetched[p]
    BY <1>2, <1>4, <1>7, <2>1
  <2>3. Received(e)' = l
    <3>1. Received(e)' = (l \o <<>>) \o <<>>
      BY <1>1, <1>6, <2>2 DEF Received
    <3> HIDE DEF l
    <3>2. QED BY <1>3, <3>1, ConcatNil
  <2>4. PeerSame(p)
    BY <1>1, <2>1, <2>2, ReceivedSame DEF PeerSame
  <2> HIDE DEF l, w
  <2>5. Len(got[e]) \in Nat /\ Len(l) \in Nat /\ Len(got[e]) <= Len(l)
    <3> DEFINE g == got[e]
               q == prefetched[e]
    <3>1. g \in Seq(Msgs) /\ q \in Seq(Msgs) /\ l = g \o q
      BY <1>3, <1>7
    <3> HIDE DEF g, q
    <3>2. Len(l) = Len(g) + Len(q) /\ Len(g) \in Nat /\ Len(q) \in Nat
      BY <3>1, Concat
    <3>3. QED BY <3>2 DEF g
  <2>6. Receipt(l, l, why[e], eof[e], closing[e], "open", status[p], w, frames[p])
    BY <1>4, <1>5, <2>5, ReceiptHanded
  <2>7. Calm(reading'[e], prefetched'[e], out'[e])
    BY <1>1, <1>6, <2>1, <2>2 DEF Calm
  <2>8. Side(wire[e], tx'[e], status'[e], status[p], Mark(Received(p), fragment[p]), sent[e], frames[e])
    BY <1>1, <1>5, <2>1
  <2>9. Side(wire'[p], tx[p], status[p], status'[e], Mark(Received(e)', fragment'[e]), sent[p], frames[p])
    BY <1>1, <1>5, <2>1, <2>3 DEF w
  <2>10. Receipt(Received(e)', got'[e], why'[e], eof'[e], closing'[e],
                 status'[e], status[p], wire'[p], frames[p])
    BY <1>1, <2>1, <2>2, <2>3, <2>6 DEF w
  <2>11. QED BY <1>1, <1>2, <1>8, <2>4, <2>7, <2>8, <2>9, <2>10, ReaderTalk
<1>10. CASE prefetched[e] = <<>>
  <2>1. got' = got /\ prefetched' = prefetched
    BY <1>10 DEF ReadStart
  <2>2. l = got[e] /\ Received(e)' = l
    BY <1>1, <1>3, <1>7, <1>10, <2>1, ConcatNil, ReceivedSame
  <2>3. ASSUME NEW r \in {"close received", "peer closed"}, Throw(e, r), reading' = reading,
               closing[e] \/ eof[e]
        PROVE  Talk'
    <3>1. /\ status'[e] = "failed" /\ why'[e] = r /\ status'[p] = status[p] /\ why'[p] = why[p]
      BY <1>2, <2>3, ThrowAt DEF TalkInv
    <3>2. PeerSame(p)
      BY <1>1, <2>1, <2>3, <3>1, ReceivedSame DEF PeerSame
    <3>3. closing[e] = TRUE \/ eof[e] = TRUE
      BY <1>3, <2>3
    <3>4. status[p] = "closed" /\ frames[p] <= Len(l) /\ Ordered(l, status[p], w)
      BY <1>5, <3>3 DEF Receipt
    <3>5. Receipt(l, got[e], r, eof[e], closing[e], "failed", status[p], w, frames[p])
      BY <2>2, <3>4 DEF Receipt
    <3>6. Side(wire[e], tx[e], "failed", status[p], Mark(Received(p), fragment[p]), sent[e], frames[e])
      BY <1>5, ReaderFails
    <3>7. Side(w, tx[p], status[p], "failed", Mark(l, fragment[e]), sent[p], frames[p])
      <4> DEFINE a == Mark(l, fragment[e])
                 qs == "failed"
      <4>1. Side(w, tx[p], status[p], status[e], a, sent[p], frames[p])
        BY <1>1, <1>5
      <4>2. status[e] # "closed" /\ qs # "open"
        BY <1>1
      <4> HIDE DEF a, qs, w
      <4>3. Side(w, tx[p], status[p], qs, a, sent[p], frames[p])
        BY <4>1, <4>2, SideDown
      <4>4. QED BY <4>3 DEF a, qs
    <3>8. Calm(reading'[e], prefetched'[e], out'[e])
      BY <1>1, <1>5, <2>1, <2>3
    <3> HIDE DEF l, w
    <3>9. Side(wire[e], tx'[e], status'[e], status[p], Mark(Received(p), fragment[p]), sent[e], frames[e])
      BY <1>1, <3>1, <3>6
    <3>10. Side(wire'[p], tx[p], status[p], status'[e], Mark(Received(e)', fragment'[e]), sent[p], frames[p])
      BY <1>1, <2>2, <3>1, <3>7 DEF w
    <3>11. Receipt(Received(e)', got'[e], why'[e], eof'[e], closing'[e],
                   status'[e], status[p], wire'[p], frames[p])
      BY <1>1, <2>1, <2>2, <3>1, <3>5 DEF w
    <3>12. QED BY <1>1, <1>2, <1>8, <3>2, <3>8, <3>9, <3>10, <3>11, ReaderTalk
  <2>4. ASSUME reading' = [reading EXCEPT ![e] = TRUE], UNCHANGED <<status, why>> PROVE Talk'
    <3>1. reading'[p] = reading[p] /\ reading'[e] = TRUE /\ status' = status /\ why' = why
      BY <1>2, <1>4, <2>4
    <3>2. PeerSame(p)
      BY <1>1, <2>1, <3>1, ReceivedSame DEF PeerSame
    <3>3. Calm(reading'[e], prefetched'[e], out'[e])
      BY <1>10, <2>1, <3>1 DEF Calm
    <3> HIDE DEF l, w
    <3>4. Side(wire[e], tx'[e], status'[e], status[p], Mark(Received(p), fragment[p]), sent[e], frames[e])
      BY <1>1, <1>5, <3>1
    <3>5. Side(wire'[p], tx[p], status[p], status'[e], Mark(Received(e)', fragment'[e]), sent[p], frames[p])
      BY <1>1, <1>5, <2>2, <3>1 DEF w
    <3>6. Receipt(Received(e)', got'[e], why'[e], eof'[e], closing'[e],
                  status'[e], status[p], wire'[p], frames[p])
      BY <1>1, <1>5, <2>1, <2>2, <3>1 DEF w
    <3>7. QED BY <1>1, <1>2, <1>8, <3>2, <3>3, <3>4, <3>5, <3>6, ReaderTalk
  <2>5. \/ Throw(e, "close received") /\ reading' = reading /\ closing[e]
        \/ Throw(e, "peer closed") /\ reading' = reading /\ eof[e]
        \/ reading' = [reading EXCEPT ![e] = TRUE] /\ UNCHANGED <<status, why>>
    BY <1>10 DEF ReadStart
  <2>6. QED BY <2>3, <2>4, <2>5
<1>11. QED BY <1>9, <1>10

------------------------------------------------------------------------------
LEMMA InitTalk == Init => TalkInv
<1> SUFFICES ASSUME Init PROVE TalkInv
  OBVIOUS
<1>1. SendInv
  BY InitSend
<1>2. ReadTypes
  <2>1. status \in [Ends -> {"open", "failed", "closed"}] /\ frames \in [Ends -> Nat]
    BY DEF Init
  <2>2. why \in [Ends -> Reasons]
    BY DEF Init, Reasons
  <2>3. /\ got \in [Ends -> Seq(Msgs)] /\ prefetched \in [Ends -> Seq(Msgs)] /\ out \in [Ends -> Seq(Msgs)]
        /\ fragment \in [Ends -> Seq(Msgs)]
    BY DEF Init
  <2>4. /\ reading \in [Ends -> BOOLEAN] /\ eof \in [Ends -> BOOLEAN] /\ closing \in [Ends -> BOOLEAN]
        /\ confirmed \in [Ends -> BOOLEAN]
    BY DEF Init
  <2>5. QED BY <2>1, <2>2, <2>3, <2>4 DEF ReadTypes
<1>3. ASSUME NEW e \in Ends PROVE Direction(e) /\ Reader(e)
  <2> DEFINE p == Peer(e)
             nil == <<>>
  <2>1. p \in Ends
    BY PeerFacts
  <2>2. \A x \in Ends : /\ wire[x] = nil /\ tx[x] = nil /\ status[x] = "open" /\ sent[x] = 0 /\ frames[x] = 0
                        /\ got[x] = nil /\ prefetched[x] = nil /\ out[x] = nil /\ fragment[x] = nil
                        /\ why[x] = "none" /\ eof[x] = FALSE /\ closing[x] = FALSE /\ reading[x] = FALSE
    BY DEF Init
  <2>3. \A x \in Ends : Received(x) = nil
    <3>1. nil \o nil = nil
      OBVIOUS
    <3> HIDE DEF nil
    <3>2. QED BY <2>2, <3>1 DEF Received
  <2>4. Len(nil) = 0 /\ nil = <<>>
    OBVIOUS
  <2> HIDE DEF nil, p
  <2>5. Mark(nil, nil) = 0
    BY <2>4 DEF Mark
  <2>6. Side(nil, nil, "open", "open", 0, 0, 0)
    <3>1. Linked(nil, 0, 0)
      BY <2>4, LinkedNil
    <3>2. RestOf(nil) = nil /\ HalfOf(nil) = 0 /\ ~Begun(nil)
      BY <2>4 DEF RestOf, HalfOf, Begun
    <3>3. Flow(nil, nil, "open", 0, 0, 0, 0)
      BY <3>1, <3>2 DEF Flow
    <3>4. TxShape(nil, nil, "open", "open") /\ WireShape(nil, "open", "open")
      BY <2>4, <3>2 DEF TxShape, WireShape
    <3>5. QED BY <3>3, <3>4 DEF Side
  <2>7. Direction(e)
    BY <2>1, <2>2, <2>3, <2>5, <2>6 DEF Direction, p
  <2>8. Receipt(nil, nil, "none", FALSE, FALSE, "open", "open", nil, 0) /\ Calm(FALSE, nil, nil)
    BY <2>4 DEF Receipt, Ordered, Calm
  <2>9. Reader(e)
    BY <2>1, <2>2, <2>3, <2>8 DEF Reader, p
  <2>10. QED BY <2>7, <2>9
<1>4. QED BY <1>1, <1>2, <1>3 DEF TalkInv, Talk

LEMMA NextTalk == TalkInv /\ [Next]_vars => TalkInv'
<1> SUFFICES ASSUME TalkInv, [Next]_vars PROVE TalkInv'
  OBVIOUS
<1>1. SendInv /\ ReadTypes /\ Talk
  BY DEF TalkInv
<1>2. SendInv' /\ ReadTypes'
  BY <1>1, NextSend, NextReadTypes
<1>3. Talk'
  <2>1. CASE Tick
    <3>1. /\ UNCHANGED <<status, why, tx, frames, wire, sent>>
          /\ UNCHANGED <<out, reading, fragment, eof, closing, prefetched, got>>
      BY <2>1 DEF Tick, pathVars, readVars
    <3>2. QED BY <1>1, <3>1, QuietTalk
  <2>2. ASSUME NEW e \in Ends, TakePongs(e) PROVE Talk'
    <3>1. /\ UNCHANGED <<status, why, tx, frames, wire, sent>>
          /\ UNCHANGED <<out, reading, fragment, eof, closing, prefetched, got>>
      BY <2>2 DEF TakePongs, pathVars, sendVars
    <3>2. QED BY <1>1, <3>1, QuietTalk
  <2>3. CASE UNCHANGED vars
    <3>1. /\ UNCHANGED <<status, why, tx, frames, wire, sent>>
          /\ UNCHANGED <<out, reading, fragment, eof, closing, prefetched, got>>
      BY <2>3 DEF vars, pathVars, sendVars, readVars
    <3>2. QED BY <1>1, <3>1, QuietTalk
  <2>4. ASSUME NEW e \in Ends, Read(e) PROVE Talk'
    BY <2>4, ReadStartTalk, ReadDataTalk, ReadPingTalk, ReadPongTalk, ReadCloseTalk, ReadReturnTalk DEF Read
  <2>5. QED
    BY <2>1, <2>2, <2>3, <2>4, SendPingTalk, SendBinaryTalk, WriteTalk, ThrowTalk, CloseTalk, PathTalk DEF Next
<1>4. QED BY <1>2, <1>3 DEF TalkInv

\* The messages handed over are the beginning of those received.
LEMMA Handed ==
  ASSUME TalkInv, NEW e \in Ends
  PROVE  /\ Len(got[e]) \in Nat /\ Len(Received(e)) \in Nat /\ Len(got[e]) <= Len(Received(e))
         /\ \A i \in 1..Len(got[e]) : Received(e)[i] = got[e][i] /\ got[e][i].cut \in BOOLEAN
<1> DEFINE g == got[e]
           q == prefetched[e]
           o == out[e]
           k == g \o q
<1>1. g \in Seq(Msgs) /\ q \in Seq(Msgs) /\ o \in Seq(Msgs) /\ Received(e) = k \o o
  BY TypesAt DEF TalkInv, Received
<1> HIDE DEF g, q, o
<1>2. /\ k \in Seq(Msgs) /\ Len(k) = Len(g) + Len(q) /\ Len(g) \in Nat /\ Len(q) \in Nat
      /\ \A i \in 1..Len(g) : k[i] = g[i]
  BY <1>1, Concat
<1> HIDE DEF k
<1>3. /\ Len(Received(e)) = Len(k) + Len(o) /\ Len(o) \in Nat /\ \A i \in 1..Len(k) : Received(e)[i] = k[i]
  <2> DEFINE r == Received(e)
  <2>1. r = k \o o /\ k \in Seq(Msgs) /\ o \in Seq(Msgs)
    BY <1>1, <1>2
  <2> HIDE DEF r
  <2>2. Len(r) = Len(k) + Len(o) /\ Len(o) \in Nat /\ \A i \in 1..Len(k) : r[i] = k[i]
    BY <2>1, Concat
  <2>3. QED BY <2>2 DEF r
<1>4. \A i \in 1..Len(g) : i \in 1..Len(k)
  BY <1>2
<1>5. \A i \in 1..Len(g) : g[i].cut \in BOOLEAN
  <2>1. \A i \in 1..Len(g) : g[i] \in Msgs
    BY <1>1
  <2>2. \A x \in Msgs : x.cut \in BOOLEAN
    BY DEF Msgs
  <2>3. QED BY <2>1, <2>2
<1>6. Len(Received(e)) \in Nat /\ Len(g) <= Len(Received(e))
  BY <1>2, <1>3
<1>7. \A i \in 1..Len(g) : Received(e)[i] = g[i]
  BY <1>2, <1>3, <1>4
<1>8. QED BY <1>2, <1>5, <1>6, <1>7 DEF g

\* Messages come out of a session in the order they went in, each once, whatever the
\* partial writes, the fragments and the control frames between them, and whatever
\* came with the key confirmation; a damaged one is the last, of a peer that closed
\* in the middle of it; no peer is accused of a fragment out of order.
THEOREM MessagesInOrder == Spec => []MessagesExact
<1>1. TalkInv => MessagesExact
  <2> SUFFICES ASSUME TalkInv, NEW e \in Ends
               PROVE  /\ why[e] # "fragments out of order"
                      /\ \A i \in 1..Len(got[e]) :
                           /\ got[e][i].id = i
                           /\ got[e][i].cut => i = Len(got[e]) /\ status[Peer(e)] = "closed"
    BY DEF MessagesExact
  <2> DEFINE p == Peer(e)
             l == Received(e)
  <2>1. Receipt(l, got[e], why[e], eof[e], closing[e], status[e], status[p], wire[p], frames[p])
    BY TalkAt
  <2>2. why[e] # "fragments out of order" /\ Ordered(l, status[p], wire[p])
    BY <2>1 DEF Receipt
  <2>3. /\ Len(got[e]) \in Nat /\ Len(l) \in Nat /\ Len(got[e]) <= Len(l)
        /\ \A i \in 1..Len(got[e]) : l[i] = got[e][i] /\ got[e][i].cut \in BOOLEAN
    BY Handed
  <2> HIDE DEF p, l
  <2>4. \A i \in 1..Len(got[e]) : i \in 1..Len(l) /\ (i = Len(l) => i = Len(got[e]))
    BY <2>3
  <2>5. ASSUME NEW i \in 1..Len(got[e])
        PROVE  got[e][i].id = i /\ (got[e][i].cut = TRUE => i = Len(got[e]) /\ status[p] = "closed")
    BY <2>2, <2>3, <2>4 DEF Ordered
  <2>6. QED BY <2>2, <2>3, <2>5 DEF p
<1>2. QED BY <1>1, InitTalk, NextTalk, PTL DEF Spec

\* When a session ends because the peer's close frame or the end of its stream came,
\* every message that the peer had written whole has been handed over before.
THEOREM DataBeforeClose == Spec => []CloseAfterData
<1>1. TalkInv => CloseAfterData
  <2> SUFFICES ASSUME TalkInv, NEW e \in Ends, why[e] \in {"close received", "peer closed"}
               PROVE  Len(got[e]) >= frames[Peer(e)]
    BY DEF CloseAfterData
  <2> DEFINE p == Peer(e)
  <2>1. Receipt(Received(e), got[e], why[e], eof[e], closing[e], status[e], status[p], wire[p], frames[p])
    BY TalkAt
  <2>2. frames[p] <= Len(got[e])
    BY <2>1 DEF Receipt
  <2>3. QED BY <2>2
<1>2. QED BY <1>1, InitTalk, NextTalk, PTL DEF Spec
=============================================================================
