---------------------------- MODULE TlsLoopProofs ----------------------------
(***************************************************************************)
(* The tls loop, for every queue limit, delay, batch, socket and timer:    *)
(* what is on its way in one direction is in order of its numbers, through *)
(* every drop and every repeated write, so that the other end never sees a *)
(* number twice; and while both ends turn, the one that listens has heard  *)
(* of the other within KeepAlive + 1 ticks.                                *)
(***************************************************************************)
EXTENDS TlsLoop, Integers, WellFoundedInduction, TLAPS

\* Every set of natural numbers has a least element.
LEMMA LeastNat ==
  ASSUME NEW T, T \subseteq Nat, T # {}
  PROVE  \E x \in T : \A y \in T : x <= y
<1> DEFINE R == OpToRel(<, Nat)
<1>1. IsWellFoundedOn(R, Nat)
  BY NatLessThanWellFounded
<1>2. \A x, y \in Nat : <<y, x>> \in R <=> y < x
  BY DEF OpToRel
<1> HIDE DEF R
<1>3. \E x \in T : \A y \in T : ~(<<y, x>> \in R)
  BY <1>1, WFMin
<1>4. PICK x \in T : \A y \in T : ~(<<y, x>> \in R)
  BY <1>3
<1>5. \A y \in T : ~(y < x)
  BY <1>2, <1>4
<1>6. \A y \in T : x <= y
  BY <1>5
<1>7. QED BY <1>6

\* Induction, for a set instead of a predicate.
LEMMA Induction ==
  ASSUME NEW S, 0 \in S, \A n \in Nat : n \in S => n + 1 \in S
  PROVE  Nat \subseteq S
<1> SUFFICES ASSUME Nat \ S # {} PROVE FALSE
  OBVIOUS
<1>1. PICK x \in Nat \ S : \A y \in Nat \ S : x <= y
  BY LeastNat
<1>2. x # 0 /\ x - 1 \in Nat /\ x - 1 \in S
  BY <1>1
<1>3. QED BY <1>1, <1>2

\* What a recursive definition needs: for every start and every step there is a
\* function on 0..N that follows them.
Follows(g, N, A, a, step) ==
  g \in [0..N -> A] /\ g[0] = a /\ \A m \in 1..N : g[m] = step[<<g[m - 1], m>>]

LEMMA Recursion ==
  ASSUME NEW N \in Nat, NEW A, NEW a \in A, NEW step \in [A \X (1..N) -> A]
  PROVE  \E g : Follows(g, N, A, a, step)
<1> DEFINE Part(g, n) == g[0] = a /\ \A m \in 1..n : g[m] = step[<<g[m - 1], m>>]
           Made == {n \in Nat : n <= N => \E g \in [0..n -> A] : Part(g, n)}
<1>1. 0 \in Made
  <2>1. [m \in 0..0 |-> a] \in [0..0 -> A] /\ Part([m \in 0..0 |-> a], 0)
    OBVIOUS
  <2>2. QED BY <2>1
<1>2. ASSUME NEW n \in Nat, n \in Made PROVE n + 1 \in Made
  <2>1. SUFFICES ASSUME n + 1 <= N PROVE \E g \in [0..(n + 1) -> A] : Part(g, n + 1)
    OBVIOUS
  <2>2. n <= N /\ n + 1 \in 1..N
    BY <2>1
  <2>3. PICK g \in [0..n -> A] : Part(g, n)
    BY <1>2, <2>2
  <2> DEFINE h == [m \in 0..(n + 1) |-> IF m <= n THEN g[m] ELSE step[<<g[n], n + 1>>]]
  <2>4. h \in [0..(n + 1) -> A]
    BY <2>2
  <2>5. h[0] = a
    BY <2>3
  <2>6. ASSUME NEW m \in 1..(n + 1) PROVE h[m] = step[<<h[m - 1], m>>]
    <3>1. m - 1 \in 0..n /\ h[m - 1] = g[m - 1]
      OBVIOUS
    <3>2. CASE m <= n
      BY <2>3, <3>1, <3>2
    <3>3. CASE m = n + 1
      <4>1. m - 1 = n /\ h[m] = step[<<g[n], n + 1>>]
        BY <3>3
      <4>2. QED BY <3>1, <3>3, <4>1
    <3>4. QED BY <3>2, <3>3
  <2>7. Part(h, n + 1)
    BY <2>5, <2>6
  <2> HIDE DEF h, Part
  <2>8. QED BY <2>4, <2>7
<1>3. \A n \in Nat : n \in Made => n + 1 \in Made
  <2> HIDE DEF Made
  <2> QED BY <1>2
<1>4. N \in Made
  <2> HIDE DEF Made
  <2> QED BY <1>1, <1>3, Induction
<1>5. QED BY <1>4 DEF Follows

------------------------------------------------------------------------------
\* What a sender holds

Kinds == {"data", "ping", "pong", "keepalive"}
Records == [seq : Nat, kind : Kinds, val : Nat]
Waiting == [seq : Nat, kind : Kinds, val : Nat, at : Nat]
Rests == {[kind |-> "rest wrong"], [kind |-> "rest short"]}
Repeats == {NoWrite} \cup [rec : Records, gone : Int]
SenderType == [q : Seq(Waiting), kept : Repeats, wire : Seq(Records \cup Rests),
               next : Nat, lastTx : Nat]
ReceiverType == [highest : Nat, rest : BOOLEAN, lastRx : Nat]

IsRec(x) == x.kind \in Kinds

\* The records on their way: on the wire, kept by SSL, in the queue.
Carried(s) ==
  {s.wire[i] : i \in {j \in 1..Len(s.wire) : IsRec(s.wire[j])}}
  \cup {OnWire(s.q[i]) : i \in 1..Len(s.q)}
  \cup (IF s.kept = NoWrite THEN {} ELSE {s.kept.rec})

\* Numbers increase along the wire, the repeated write and the queue; the
\* repeated write may be the front of the queue.
InOrder(s) ==
  /\ \A i, j \in 1..Len(s.wire) :
       i < j /\ IsRec(s.wire[i]) /\ IsRec(s.wire[j]) => s.wire[i].seq < s.wire[j].seq
  /\ \A i \in 1..Len(s.wire), j \in 1..Len(s.q) : IsRec(s.wire[i]) => s.wire[i].seq < s.q[j].seq
  /\ \A i, j \in 1..Len(s.q) : i < j => s.q[i].seq < s.q[j].seq
  /\ s.kept # NoWrite =>
       /\ \A i \in 1..Len(s.wire) : IsRec(s.wire[i]) => s.wire[i].seq < s.kept.rec.seq
       /\ \A j \in 1..Len(s.q) : s.kept.rec.seq <= s.q[j].seq

\* They are newer than number h and the packets U, and packets have the order of
\* their numbers, up to packet v.
Fresh(S, v, h, U) ==
  /\ \A x \in S : h < x.seq /\ (x.kind = "data" => x.val <= v /\ \A u \in U : u < x.val)
  /\ \A x, y \in S : x.kind = "data" /\ y.kind = "data" /\ x.seq < y.seq => x.val < y.val

Below(S, n) == \A x \in S : x.seq < n

Stream(s, v, h, U) == s \in SenderType /\ InOrder(s) /\ Fresh(Carried(s), v, h, U)
Sends(s, v, h, U) == Stream(s, v, h, U) /\ h < s.next /\ Below(Carried(s), s.next)

\* An item of the wire is a record or a leftover.
LEMMA ItemKinds ==
  ASSUME NEW x \in Records \cup Rests
  PROVE  /\ (x \in Records /\ IsRec(x)) \/ (~IsRec(x) /\ (x.kind = "rest wrong" \/ x.kind = "rest short"))
         /\ IsRec(x) <=> x \in Records
         /\ x \in Rests => ~IsRec(x)
         /\ IsRec(x) => x.kind # "rest wrong" /\ x.kind # "rest short"
<1>1. x \in Records => IsRec(x)
  BY DEF Records, IsRec
<1>2. x \in Rests => x.kind = "rest wrong" \/ x.kind = "rest short"
  <2>1. [kind |-> "rest wrong"].kind = "rest wrong" /\ [kind |-> "rest short"].kind = "rest short"
    OBVIOUS
  <2> DEFINE a == [kind |-> "rest wrong"]
             b == [kind |-> "rest short"]
  <2>2. a.kind = "rest wrong" /\ b.kind = "rest short"
    BY <2>1
  <2>3. x \in Rests => x = a \/ x = b
    BY Zenon DEF Rests
  <2> HIDE DEF a, b
  <2>4. QED BY <2>2, <2>3
<1>3. QED BY <1>1, <1>2 DEF IsRec, Kinds

LEMMA SenderFacts ==
  ASSUME NEW s \in SenderType
  PROVE  /\ s.q \in Seq(Waiting) /\ s.kept \in Repeats /\ s.wire \in Seq(Records \cup Rests)
         /\ s.next \in Nat /\ s.lastTx \in Nat /\ Len(s.q) \in Nat /\ Len(s.wire) \in Nat
         /\ DOMAIN s.q = 1..Len(s.q)
         /\ \A i \in 1..Len(s.q) : s.q[i] \in Waiting /\ OnWire(s.q[i]) \in Records
                                   /\ OnWire(s.q[i]).seq = s.q[i].seq
         /\ \A i \in 1..Len(s.wire) : s.wire[i] \in Records \cup Rests
                                      /\ (IsRec(s.wire[i]) <=> s.wire[i] \in Records)
         /\ s.kept # NoWrite => s.kept.rec \in Records /\ s.kept.gone \in Int
                                /\ s.kept = [rec |-> s.kept.rec, gone |-> s.kept.gone]
         /\ \A x : x \in Carried(s) <=>
              \/ \E i \in 1..Len(s.wire) : IsRec(s.wire[i]) /\ x = s.wire[i]
              \/ \E i \in 1..Len(s.q) : x = OnWire(s.q[i])
              \/ s.kept # NoWrite /\ x = s.kept.rec
         /\ Carried(s) \subseteq Records
<1>1. /\ s.q \in Seq(Waiting) /\ s.kept \in Repeats /\ s.wire \in Seq(Records \cup Rests)
      /\ s.next \in Nat /\ s.lastTx \in Nat
  BY DEF SenderType
<1>2. /\ Len(s.q) \in Nat /\ Len(s.wire) \in Nat /\ DOMAIN s.q = 1..Len(s.q)
      /\ \A i \in 1..Len(s.q) : s.q[i] \in Waiting
      /\ \A i \in 1..Len(s.wire) : s.wire[i] \in Records \cup Rests
  BY <1>1
<1>3. \A y \in Waiting : OnWire(y) \in Records /\ OnWire(y).seq = y.seq
  BY DEF OnWire, Waiting, Records
<1>4. \A y \in Records \cup Rests : IsRec(y) <=> y \in Records
  BY ItemKinds
<1>5. s.kept # NoWrite => s.kept.rec \in Records /\ s.kept.gone \in Int
                          /\ s.kept = [rec |-> s.kept.rec, gone |-> s.kept.gone]
  <2> DEFINE k == s.kept
  <2>1. k # NoWrite => k \in [rec : Records, gone : Int]
    BY <1>1 DEF Repeats
  <2> HIDE DEF k
  <2>2. \A y \in [rec : Records, gone : Int] :
          y.rec \in Records /\ y.gone \in Int /\ y = [rec |-> y.rec, gone |-> y.gone]
    OBVIOUS
  <2>3. k # NoWrite => k.rec \in Records /\ k.gone \in Int /\ k = [rec |-> k.rec, gone |-> k.gone]
    BY <2>1, <2>2
  <2>4. QED BY <2>3 DEF k
<1>6. \A x : x \in Carried(s) <=>
        \/ \E i \in 1..Len(s.wire) : IsRec(s.wire[i]) /\ x = s.wire[i]
        \/ \E i \in 1..Len(s.q) : x = OnWire(s.q[i])
        \/ s.kept # NoWrite /\ x = s.kept.rec
  BY DEF Carried
<1>7. Carried(s) \subseteq Records
  BY <1>2, <1>3, <1>4, <1>5, <1>6
<1>8. QED BY <1>1, <1>2, <1>3, <1>4, <1>5, <1>6, <1>7

\* Fewer records.
LEMMA FreshSubset ==
  ASSUME NEW S, NEW T \in SUBSET S, NEW v, NEW h, NEW U, Fresh(S, v, h, U)
  PROVE  Fresh(T, v, h, U)
BY DEF Fresh

LEMMA Suffix ==
  ASSUME NEW S, NEW s \in Seq(S), NEW n \in 0..Len(s)
  PROVE  /\ SubSeq(s, n + 1, Len(s)) \in Seq(S) /\ Len(SubSeq(s, n + 1, Len(s))) = Len(s) - n
         /\ Len(s) - n \in Nat /\ n \in Nat
         /\ \A i \in 1..(Len(s) - n) : SubSeq(s, n + 1, Len(s))[i] = s[i + n] /\ i + n \in 1..Len(s)
<1>1. Len(s) \in Nat
  OBVIOUS
<1>2. QED BY <1>1

------------------------------------------------------------------------------
\* Dropping

LEMMA DropFacts ==
  ASSUME NEW s \in SenderType, NEW n \in 0..Len(s.q), NEW here \in Int,
         NEW r, r = DropFronts(s, n, here)
  PROVE  /\ r \in SenderType /\ r.q = SubSeq(s.q, n + 1, Len(s.q))
         /\ r.wire = s.wire /\ r.next = s.next /\ r.lastTx = s.lastTx
         /\ (r.kept # NoWrite <=> s.kept # NoWrite)
         /\ (s.kept # NoWrite => r.kept.rec = s.kept.rec)
<1> DEFINE k == IF n > 0 /\ s.kept # NoWrite /\ s.kept.gone = 0
                THEN [s.kept EXCEPT !.gone = here] ELSE s.kept
           a == SubSeq(s.q, n + 1, Len(s.q))
<1>1. r = [s EXCEPT !.q = a, !.kept = k]
  BY DEF DropFronts
<1>2. a \in Seq(Waiting)
  BY SenderFacts, Suffix
<1>3. k \in Repeats /\ (k # NoWrite <=> s.kept # NoWrite) /\ (s.kept # NoWrite => k.rec = s.kept.rec)
  <2>1. CASE n > 0 /\ s.kept # NoWrite /\ s.kept.gone = 0
    <3> DEFINE m == [s.kept EXCEPT !.gone = here]
    <3>1. s.kept.rec \in Records /\ s.kept = [rec |-> s.kept.rec, gone |-> s.kept.gone]
      BY <2>1, SenderFacts
    <3>2. m = [rec |-> s.kept.rec, gone |-> here]
      <4> DEFINE x == s.kept.rec
                 y == s.kept.gone
      <4>1. s.kept = [rec |-> x, gone |-> y]
        BY <3>1
      <4> HIDE DEF x, y
      <4>2. m = [rec |-> x, gone |-> here]
        BY <4>1
      <4>3. QED BY <4>2 DEF x
    <3>3. m.rec = s.kept.rec /\ m \in [rec : Records, gone : Int]
      BY <3>1, <3>2
    <3> HIDE DEF m
    <3>4. m # NoWrite
      <4>1. m.rec.kind \in Kinds
        BY <3>1, <3>3 DEF Records
      <4>2. NoWrite.rec.kind = "none"
        BY DEF NoWrite
      <4>3. QED BY <4>1, <4>2 DEF Kinds
    <3>5. k = m
      BY <2>1 DEF m
    <3> HIDE DEF k
    <3>6. QED BY <2>1, <3>3, <3>4, <3>5 DEF Repeats
  <2>2. CASE ~(n > 0 /\ s.kept # NoWrite /\ s.kept.gone = 0)
    <3>1. k = s.kept
      BY <2>2
    <3> HIDE DEF k
    <3>2. QED BY <3>1, SenderFacts
  <2>3. QED BY <2>1, <2>2
<1> HIDE DEF a, k
<1>4. /\ r \in SenderType /\ r.q = a /\ r.kept = k
      /\ r.wire = s.wire /\ r.next = s.next /\ r.lastTx = s.lastTx
  BY <1>1, <1>2, <1>3 DEF SenderType
<1>5. QED BY <1>3, <1>4 DEF a

LEMMA DropKeeps ==
  ASSUME NEW v, NEW h, NEW U, NEW s, Sends(s, v, h, U), NEW n \in 0..Len(s.q), NEW here \in Int,
         NEW r, r = DropFronts(s, n, here)
  PROVE  Sends(r, v, h, U)
<1>1. s \in SenderType /\ InOrder(s) /\ Fresh(Carried(s), v, h, U) /\ h < s.next /\ Below(Carried(s), s.next)
  BY DEF Sends, Stream
<1>2. /\ r \in SenderType /\ r.q = SubSeq(s.q, n + 1, Len(s.q))
      /\ r.wire = s.wire /\ r.next = s.next /\ r.lastTx = s.lastTx
      /\ (r.kept # NoWrite <=> s.kept # NoWrite)
      /\ (s.kept # NoWrite => r.kept.rec = s.kept.rec)
  BY <1>1, DropFacts
<1>3. /\ Len(r.q) = Len(s.q) - n /\ Len(s.q) \in Nat /\ n \in Nat
      /\ \A i \in 1..Len(r.q) : r.q[i] = s.q[i + n] /\ i + n \in 1..Len(s.q)
  BY <1>1, <1>2, SenderFacts, Suffix
<1>4. Carried(r) \subseteq Carried(s)
  <2> SUFFICES ASSUME NEW x \in Carried(r) PROVE x \in Carried(s)
    OBVIOUS
  <2>1. \A y : y \in Carried(s) <=>
          \/ \E i \in 1..Len(s.wire) : IsRec(s.wire[i]) /\ y = s.wire[i]
          \/ \E i \in 1..Len(s.q) : y = OnWire(s.q[i])
          \/ s.kept # NoWrite /\ y = s.kept.rec
    BY <1>1, SenderFacts
  <2>2. \/ \E i \in 1..Len(r.wire) : IsRec(r.wire[i]) /\ x = r.wire[i]
        \/ \E i \in 1..Len(r.q) : x = OnWire(r.q[i])
        \/ r.kept # NoWrite /\ x = r.kept.rec
    BY <1>2, SenderFacts
  <2>3. QED BY <1>2, <1>3, <2>1, <2>2
<1>5. InOrder(r)
  <2>1. \A i, j \in 1..Len(r.q) : i < j => r.q[i].seq < r.q[j].seq
    <3>1. \A i, j \in 1..Len(r.q) : i < j => i + n < j + n
      BY <1>3
    <3>2. QED BY <1>1, <1>3, <3>1 DEF InOrder
  <2>2. \A i \in 1..Len(r.wire), j \in 1..Len(r.q) : IsRec(r.wire[i]) => r.wire[i].seq < r.q[j].seq
    BY <1>1, <1>2, <1>3 DEF InOrder
  <2>3. r.kept # NoWrite => \A j \in 1..Len(r.q) : r.kept.rec.seq <= r.q[j].seq
    BY <1>1, <1>2, <1>3 DEF InOrder
  <2>4. r.kept # NoWrite => \A i \in 1..Len(r.wire) : IsRec(r.wire[i]) => r.wire[i].seq < r.kept.rec.seq
    BY <1>1, <1>2 DEF InOrder
  <2>5. \A i, j \in 1..Len(r.wire) :
          i < j /\ IsRec(r.wire[i]) /\ IsRec(r.wire[j]) => r.wire[i].seq < r.wire[j].seq
    BY <1>1, <1>2 DEF InOrder
  <2>6. QED BY <2>1, <2>2, <2>3, <2>4, <2>5 DEF InOrder
<1>6. Fresh(Carried(r), v, h, U)
  BY <1>1, <1>4, FreshSubset
<1>7. Below(Carried(r), r.next)
  BY <1>1, <1>2, <1>4 DEF Below
<1>8. QED BY <1>1, <1>2, <1>5, <1>6, <1>7 DEF Sends, Stream

LEMMA ExpireKeeps ==
  ASSUME now \in Nat, NEW v, NEW h, NEW U, NEW s, Sends(s, v, h, U)
  PROVE  Sends(Expire(s), v, h, U) /\ Expire(s).wire = s.wire /\ Expire(s).lastTx = s.lastTx
<1> DEFINE N == Len(s.q)
           T == {i \in 1..N : ~(now - s.q[i].at > QueueDelay)}
           k == CHOOSE c \in 0..N : /\ \A i \in 1..c : now - s.q[i].at > QueueDelay
                                    /\ c < N => now - s.q[c + 1].at <= QueueDelay
<1>0. s \in SenderType /\ N \in Nat /\ s.next \in Int /\ QueueDelay \in Nat
  <2>1. s \in SenderType
    BY DEF Sends, Stream
  <2>2. N \in Nat /\ s.next \in Nat
    BY <2>1, SenderFacts
  <2>3. QED BY <2>1, <2>2, TlsLoopAssumption
<1>1. \A i \in 1..N : s.q[i].at \in Nat
  BY <1>0, SenderFacts DEF Waiting
<1>2. \E c \in 0..N : /\ \A i \in 1..c : now - s.q[i].at > QueueDelay
                      /\ c < N => now - s.q[c + 1].at <= QueueDelay
  <2>1. CASE T = {}
    <3>1. \A i \in 1..N : now - s.q[i].at > QueueDelay
      BY <2>1
    <3>2. N \in 0..N /\ ~(N < N)
      BY <1>0
    <3>3. QED BY <3>1, <3>2
  <2>2. CASE T # {}
    <3>1. T \subseteq Nat
      BY <1>0
    <3>2. PICK x \in T : \A y \in T : x <= y
      <4> HIDE DEF T
      <4>1. QED BY <2>2, <3>1, LeastNat
    <3>3. x \in 1..N /\ ~(now - s.q[x].at > QueueDelay)
      OBVIOUS
    <3>4. x - 1 \in 0..N /\ (x - 1) + 1 = x
      BY <1>0, <3>3
    <3>5. now - s.q[x].at <= QueueDelay
      BY <1>0, <1>1, <3>3
    <3>6. \A i \in 1..(x - 1) : now - s.q[i].at > QueueDelay
      <4> SUFFICES ASSUME NEW i \in 1..(x - 1) PROVE now - s.q[i].at > QueueDelay
        OBVIOUS
      <4>1. i \in 1..N /\ ~(x <= i)
        BY <1>0, <3>3
      <4>2. i \notin T
        BY <3>2, <4>1
      <4>3. QED BY <4>1, <4>2
    <3>7. QED BY <3>4, <3>5, <3>6
  <2>3. QED BY <2>1, <2>2
<1>3. k \in 0..N
  BY <1>2
<1>4. Expire(s) = DropFronts(s, k, s.next)
  BY DEF Expire
<1> HIDE DEF k
<1>5. QED BY <1>0, <1>3, <1>4, DropFacts, DropKeeps

------------------------------------------------------------------------------
\* Enqueueing

Bounds(v, h, U) == v \in Nat /\ h \in Nat /\ U \subseteq Nat /\ \A u \in U : u <= v

\* The values of new records.
News(kind, vals, v, w) ==
  /\ kind \in Kinds /\ vals \in Seq(Nat) /\ w \in Nat /\ v <= w
  /\ kind = "data" => /\ \A i \in 1..Len(vals) : v < vals[i] /\ vals[i] <= w
                      /\ \A i, j \in 1..Len(vals) : i < j => vals[i] < vals[j]

Extended(s, kind, vals) ==
  [s EXCEPT !.q = s.q \o [i \in 1..Len(vals) |->
                    [seq |-> s.next + i - 1, kind |-> kind, val |-> vals[i], at |-> now]],
            !.next = s.next + Len(vals)]

LEMMA Concat ==
  ASSUME NEW S, NEW s \in Seq(S), NEW t \in Seq(S)
  PROVE  /\ s \o t \in Seq(S) /\ Len(s \o t) = Len(s) + Len(t) /\ Len(s) \in Nat /\ Len(t) \in Nat
         /\ \A i \in 1..Len(s) : (s \o t)[i] = s[i]
         /\ \A i \in 1..Len(t) : (s \o t)[Len(s) + i] = t[i]
         /\ \A i \in 1..(Len(s) + Len(t)) :
              (i \in 1..Len(s) /\ (s \o t)[i] = s[i])
              \/ (i - Len(s) \in 1..Len(t) /\ (s \o t)[i] = t[i - Len(s)])
<1>1. Len(s) \in Nat /\ Len(t) \in Nat
  OBVIOUS
<1>2. QED BY <1>1

LEMMA ExtendKeeps ==
  ASSUME now \in Nat, NEW v, NEW h, NEW U, NEW w, Bounds(v, h, U), NEW s, Sends(s, v, h, U),
         NEW kind, NEW vals, News(kind, vals, v, w),
         NEW r, r = Extended(s, kind, vals)
  PROVE  /\ Sends(r, w, h, U) /\ Len(r.q) = Len(s.q) + Len(vals)
         /\ r.wire = s.wire /\ r.lastTx = s.lastTx /\ r.next = s.next + Len(vals)
<1> DEFINE new(i) == [seq |-> s.next + i - 1, kind |-> kind, val |-> vals[i], at |-> now]
           N == [i \in 1..Len(vals) |-> new(i)]
           a == s.q \o N
           m == Len(vals)
           n == Len(s.q)
<1>1. s \in SenderType /\ InOrder(s) /\ Fresh(Carried(s), v, h, U) /\ h < s.next /\ Below(Carried(s), s.next)
  BY DEF Sends, Stream
<1>2. /\ s.q \in Seq(Waiting) /\ s.next \in Nat /\ n \in Nat /\ m \in Nat /\ h \in Nat /\ v \in Nat /\ w \in Nat
      /\ vals \in Seq(Nat) /\ \A i \in 1..m : vals[i] \in Nat
  <2>1. s.q \in Seq(Waiting) /\ s.next \in Nat /\ n \in Nat
    BY <1>1, SenderFacts
  <2>2. h \in Nat /\ v \in Nat /\ w \in Nat /\ vals \in Seq(Nat)
    BY DEF Bounds, News
  <2>3. m \in Nat /\ \A i \in 1..m : vals[i] \in Nat
    BY <2>2
  <2>4. QED BY <2>1, <2>2, <2>3
<1>3. \A i \in 1..m : /\ new(i) \in Waiting /\ new(i).seq = s.next + i - 1 /\ new(i).kind = kind
                      /\ new(i).val = vals[i]
  <2> SUFFICES ASSUME NEW i \in 1..m
               PROVE  /\ new(i) \in Waiting /\ new(i).seq = s.next + i - 1 /\ new(i).kind = kind
                      /\ new(i).val = vals[i]
    OBVIOUS
  <2>1. s.next + i - 1 \in Nat /\ kind \in Kinds /\ vals[i] \in Nat
    BY <1>2 DEF News
  <2>2. QED BY <2>1 DEF Waiting
<1>4. N \in Seq(Waiting) /\ Len(N) = m /\ \A i \in 1..m : N[i] = new(i)
  <2> HIDE DEF new
  <2>1. \A i \in 1..m : new(i) \in Waiting
    BY <1>3
  <2>2. QED BY <1>2, <2>1
<1> HIDE DEF new, N
<1>5. /\ a \in Seq(Waiting) /\ Len(a) = n + m /\ \A i \in 1..n : a[i] = s.q[i]
      /\ \A i \in 1..m : a[n + i] = new(i)
  <2> DEFINE t == s.q
  <2>1. t \in Seq(Waiting) /\ N \in Seq(Waiting)
    BY <1>2, <1>4
  <2> HIDE DEF t
  <2>2. /\ t \o N \in Seq(Waiting) /\ Len(t \o N) = Len(t) + Len(N)
        /\ \A i \in 1..Len(t) : (t \o N)[i] = t[i]
        /\ \A i \in 1..Len(N) : (t \o N)[Len(t) + i] = N[i]
    BY <2>1, Concat
  <2>3. QED BY <1>4, <2>2 DEF t
<1> HIDE DEF a
<1>6. /\ r \in SenderType /\ r.q = a /\ r.next = s.next + m /\ r.kept = s.kept
      /\ r.wire = s.wire /\ r.lastTx = s.lastTx
  <2> DEFINE c == s.next + m
  <2>1. c \in Nat
    BY <1>2
  <2>2. r = [s EXCEPT !.q = a, !.next = c]
    BY DEF a, N, new, Extended
  <2> HIDE DEF c
  <2>3. /\ r \in SenderType /\ r.q = a /\ r.next = c /\ r.kept = s.kept
        /\ r.wire = s.wire /\ r.lastTx = s.lastTx
    BY <1>1, <1>5, <2>1, <2>2 DEF SenderType
  <2>4. QED BY <2>3 DEF c
<1> HIDE DEF m, n
<1>7. \A j \in 1..(n + m) : j \in 1..n \/ (j - n \in 1..m /\ j = n + (j - n))
  BY <1>2
<1>8. \A j \in 1..(n + m) : /\ a[j] \in Waiting
                            /\ (j \in 1..n /\ a[j] = s.q[j])
                               \/ (j - n \in 1..m /\ a[j] = new(j - n) /\ a[j].seq = s.next + (j - n) - 1)
  <2>1. \A j \in 1..(n + m) : a[j] \in Waiting
    BY <1>5
  <2>2. QED BY <1>3, <1>5, <1>7, <2>1
<1>9. \A y : y \in Carried(s) <=>
        \/ \E i \in 1..Len(s.wire) : IsRec(s.wire[i]) /\ y = s.wire[i]
        \/ \E i \in 1..n : y = OnWire(s.q[i])
        \/ s.kept # NoWrite /\ y = s.kept.rec
  BY <1>1, SenderFacts DEF n
<1>10. \A y : y \in Carried(r) <=>
         \/ \E i \in 1..Len(s.wire) : IsRec(s.wire[i]) /\ y = s.wire[i]
         \/ \E i \in 1..(n + m) : y = OnWire(a[i])
         \/ s.kept # NoWrite /\ y = s.kept.rec
  <2>1. \A y : y \in Carried(r) <=>
         \/ \E i \in 1..Len(r.wire) : IsRec(r.wire[i]) /\ y = r.wire[i]
         \/ \E i \in 1..Len(r.q) : y = OnWire(r.q[i])
         \/ r.kept # NoWrite /\ y = r.kept.rec
    BY <1>6, SenderFacts
  <2>2. QED BY <1>5, <1>6, <2>1
\* The old records, and the new ones behind them.
<1>11. \A x \in Carried(r) : x \in Carried(s) \/ \E i \in 1..m : x = OnWire(new(i))
  <2> SUFFICES ASSUME NEW x \in Carried(r), x \notin Carried(s) PROVE \E i \in 1..m : x = OnWire(new(i))
    OBVIOUS
  <2>1. PICK j \in 1..(n + m) : x = OnWire(a[j])
    BY <1>9, <1>10
  <2>2. ~(j \in 1..n /\ a[j] = s.q[j])
    BY <1>9, <2>1
  <2>3. QED BY <1>8, <2>1, <2>2
<1>12. \A i \in 1..m : /\ OnWire(new(i)).seq = s.next + i - 1 /\ OnWire(new(i)).kind = kind
                       /\ OnWire(new(i)).val = vals[i]
  BY <1>3 DEF OnWire
<1>13. Carried(s) \subseteq Records
  BY <1>1, SenderFacts
<1>14. \A x \in Carried(s) : x.seq \in Nat /\ x.val \in Nat /\ x.seq < s.next
  BY <1>1, <1>13 DEF Below, Records
<1>15. InOrder(r)
  <2>1. \A i, j \in 1..Len(r.q) : i < j => r.q[i].seq < r.q[j].seq
    <3> SUFFICES ASSUME NEW i \in 1..(n + m), NEW j \in 1..(n + m), i < j PROVE a[i].seq < a[j].seq
      BY <1>5, <1>6
    <3>1. CASE i \in 1..n /\ j \in 1..n
      BY <1>1, <1>5, <3>1 DEF InOrder, n
    <3>2. CASE i \in 1..n /\ j \notin 1..n
      <4>1. a[i].seq \in Nat /\ a[i].seq < s.next
        <5>1. OnWire(s.q[i]) \in Carried(s)
          BY <1>9, <3>2
        <5>2. a[i] = s.q[i] /\ OnWire(s.q[i]).seq = s.q[i].seq
          BY <1>5, <3>2 DEF OnWire
        <5>3. QED BY <1>14, <5>1, <5>2
      <4>2. a[j].seq = s.next + (j - n) - 1 /\ j - n \in 1..m
        BY <1>8, <3>2
      <4>3. QED BY <1>2, <4>1, <4>2
    <3>3. CASE i \notin 1..n
      <4>1. a[i].seq = s.next + (i - n) - 1 /\ i - n \in 1..m
        BY <1>8, <3>3
      <4>2. j \notin 1..n
        BY <1>2, <3>3
      <4>3. a[j].seq = s.next + (j - n) - 1 /\ j - n \in 1..m
        BY <1>8, <4>2
      <4>4. QED BY <1>2, <4>1, <4>3
    <3>4. QED BY <3>1, <3>2, <3>3
  <2>2. \A x \in Carried(s) : \A j \in 1..(n + m) : j \notin 1..n => x.seq < a[j].seq
    BY <1>2, <1>8, <1>14
  <2>3. \A i \in 1..Len(s.wire), j \in 1..(n + m) : IsRec(s.wire[i]) => s.wire[i].seq < a[j].seq
    <3> SUFFICES ASSUME NEW i \in 1..Len(s.wire), NEW j \in 1..(n + m), IsRec(s.wire[i])
                 PROVE  s.wire[i].seq < a[j].seq
      OBVIOUS
    <3>1. s.wire[i] \in Carried(s)
      BY <1>9
    <3>2. CASE j \in 1..n
      BY <1>1, <1>5, <3>2 DEF InOrder, n
    <3>3. QED BY <2>2, <3>1, <3>2
  <2>4. s.kept # NoWrite => \A j \in 1..(n + m) : s.kept.rec.seq <= a[j].seq
    <3> SUFFICES ASSUME s.kept # NoWrite, NEW j \in 1..(n + m) PROVE s.kept.rec.seq <= a[j].seq
      OBVIOUS
    <3>1. s.kept.rec \in Carried(s)
      BY <1>9
    <3>2. CASE j \in 1..n
      BY <1>1, <1>5, <3>2 DEF InOrder, n
    <3>3. CASE j \notin 1..n
      <4>1. s.kept.rec.seq < a[j].seq /\ s.kept.rec.seq \in Nat /\ a[j].seq \in Nat
        BY <1>8, <1>14, <2>2, <3>1, <3>3 DEF Waiting
      <4>2. QED BY <4>1
    <3>4. QED BY <3>2, <3>3
  <2>5. QED BY <1>1, <1>5, <1>6, <2>1, <2>3, <2>4 DEF InOrder
<1>16. Fresh(Carried(r), w, h, U)
  <2>1. ASSUME NEW x \in Carried(r)
        PROVE  h < x.seq /\ (x.kind = "data" => x.val <= w /\ \A u \in U : u < x.val)
    <3>1. CASE x \in Carried(s)
      <4>1. h < x.seq /\ (x.kind = "data" => x.val <= v /\ \A u \in U : u < x.val)
        BY <1>1, <3>1 DEF Fresh
      <4>2. x.val \in Nat /\ v <= w
        BY <1>14, <3>1 DEF News
      <4>3. QED BY <1>2, <4>1, <4>2
    <3>2. CASE x \notin Carried(s)
      <4>1. PICK i \in 1..m : x = OnWire(new(i))
        BY <1>11, <3>2
      <4>2. x.seq = s.next + i - 1 /\ x.kind = kind /\ x.val = vals[i]
        BY <1>12, <4>1
      <4>3. h < x.seq
        BY <1>1, <1>2, <4>2
      <4>4. x.kind = "data" => v < x.val /\ x.val <= w
        BY <4>2 DEF News, m
      <4>5. \A u \in U : u <= v /\ u \in Nat
        BY DEF Bounds
      <4>6. x.val \in Nat
        BY <1>2, <4>2
      <4>7. QED BY <1>2, <4>3, <4>4, <4>5, <4>6
    <3>3. QED BY <3>1, <3>2
  <2>2. ASSUME NEW x \in Carried(r), NEW y \in Carried(r), x.kind = "data", y.kind = "data", x.seq < y.seq
        PROVE  x.val < y.val
    <3>1. CASE x \in Carried(s) /\ y \in Carried(s)
      BY <1>1, <2>2, <3>1 DEF Fresh
    <3>2. CASE x \in Carried(s) /\ y \notin Carried(s)
      <4>1. PICK i \in 1..m : y = OnWire(new(i))
        BY <1>11, <3>2
      <4>2. kind = "data" /\ y.val = vals[i] /\ v < vals[i] /\ vals[i] \in Nat
        BY <1>2, <1>12, <2>2, <4>1 DEF News, m
      <4>3. x.val <= v /\ x.val \in Nat
        BY <1>1, <1>14, <2>2, <3>2 DEF Fresh
      <4>4. QED BY <1>2, <4>2, <4>3
    <3>3. CASE x \notin Carried(s) /\ y \in Carried(s)
      <4>1. PICK i \in 1..m : x = OnWire(new(i))
        BY <1>11, <3>3
      <4>2. x.seq = s.next + i - 1 /\ y.seq < s.next /\ y.seq \in Nat
        BY <1>12, <1>14, <3>3, <4>1
      <4>3. QED BY <1>2, <2>2, <4>2
    <3>4. CASE x \notin Carried(s) /\ y \notin Carried(s)
      <4>1. PICK i \in 1..m : x = OnWire(new(i))
        BY <1>11, <3>4
      <4>2. PICK j \in 1..m : y = OnWire(new(j))
        BY <1>11, <3>4
      <4>3. /\ x.seq = s.next + i - 1 /\ y.seq = s.next + j - 1 /\ kind = "data"
            /\ x.val = vals[i] /\ y.val = vals[j]
        BY <1>12, <2>2, <4>1, <4>2
      <4>4. i < j
        BY <1>2, <2>2, <4>3
      <4>5. QED BY <4>3, <4>4 DEF News, m
    <3>5. QED BY <3>1, <3>2, <3>3, <3>4
  <2>3. QED BY <2>1, <2>2 DEF Fresh
<1>17. Below(Carried(r), r.next)
  <2> SUFFICES ASSUME NEW x \in Carried(r) PROVE x.seq < s.next + m
    BY <1>6 DEF Below
  <2>1. CASE x \in Carried(s)
    BY <1>2, <1>14, <2>1
  <2>2. CASE x \notin Carried(s)
    <3>1. PICK i \in 1..m : x = OnWire(new(i))
      BY <1>11, <2>2
    <3>2. x.seq = s.next + i - 1
      BY <1>12, <3>1
    <3>3. QED BY <1>2, <3>2
  <2>3. QED BY <2>1, <2>2
<1>18. h < r.next
  BY <1>1, <1>2, <1>6
<1>19. QED BY <1>5, <1>6, <1>15, <1>16, <1>17, <1>18 DEF Sends, Stream, m, n

LEMMA EnqueueKeeps ==
  ASSUME now \in Nat, NEW v, NEW h, NEW U, NEW w, Bounds(v, h, U), NEW s, Sends(s, v, h, U),
         NEW kind, NEW vals, News(kind, vals, v, w)
  PROVE  /\ Sends(Enqueue(s, kind, vals), w, h, U)
         /\ Enqueue(s, kind, vals).wire = s.wire /\ Enqueue(s, kind, vals).lastTx = s.lastTx
         /\ Len(vals) > 0 => Enqueue(s, kind, vals).q # <<>>
<1> DEFINE a == s.q \o [i \in 1..Len(vals) |->
                  [seq |-> s.next + i - 1, kind |-> kind, val |-> vals[i], at |-> now]]
           r == Extended(s, kind, vals)
           over == IF Len(a) > QueueLimit THEN Len(a) - QueueLimit ELSE 0
           here == s.next + QueueLimit - Len(s.q) + 1
           t == DropFronts(r, over, here)
<1>1. Enqueue(s, kind, vals) = t
  BY DEF Enqueue, Extended
<1>2. s \in SenderType /\ s.next \in Nat /\ Len(s.q) \in Nat /\ QueueLimit \in Nat /\ QueueLimit > 0
      /\ Len(vals) \in Nat
  <2>1. s \in SenderType
    BY DEF Sends, Stream
  <2>2. vals \in Seq(Nat)
    BY DEF News
  <2>3. QueueLimit \in Nat /\ QueueLimit > 0
    BY TlsLoopAssumption
  <2>4. Len(vals) \in Nat
    BY <2>2
  <2>5. QED BY <2>1, <2>3, <2>4, SenderFacts
<1>3. here \in Int
  BY <1>2
<1>4. /\ Sends(r, w, h, U) /\ Len(r.q) = Len(s.q) + Len(vals)
      /\ r.wire = s.wire /\ r.lastTx = s.lastTx
  BY ExtendKeeps
<1>5. r.q = a
  <2> DEFINE c == s.next + Len(vals)
  <2> HIDE DEF a, c
  <2>1. r = [s EXCEPT !.q = a, !.next = c]
    BY DEF Extended, a, c
  <2>2. QED BY <1>2, <2>1 DEF SenderType
<1> HIDE DEF a, r, here
<1>6. r \in SenderType /\ Len(r.q) \in Nat
  BY <1>2, <1>4 DEF Sends, Stream
<1>7. over \in 0..Len(r.q) /\ (Len(vals) > 0 => over < Len(r.q))
  BY <1>2, <1>4, <1>5, <1>6
<1> HIDE DEF over
<1>8. Sends(t, w, h, U) /\ t.wire = s.wire /\ t.lastTx = s.lastTx /\ t.q = SubSeq(r.q, over + 1, Len(r.q))
  <2>1. Sends(t, w, h, U)
    BY <1>3, <1>4, <1>7, DropKeeps
  <2>2. t.wire = r.wire /\ t.lastTx = r.lastTx /\ t.q = SubSeq(r.q, over + 1, Len(r.q))
    BY <1>3, <1>6, <1>7, DropFacts
  <2>3. QED BY <1>4, <2>1, <2>2
<1>9. Len(vals) > 0 => t.q # <<>>
  <2>1. Len(t.q) = Len(r.q) - over
    BY <1>6, <1>7, <1>8, SenderFacts, Suffix
  <2>2. Len(<<>>) = 0
    OBVIOUS
  <2>3. QED BY <1>6, <1>7, <2>1, <2>2
<1> HIDE DEF t
<1>10. QED BY <1>1, <1>8, <1>9

------------------------------------------------------------------------------
\* Reading

Errors == {"none", "mismatch", "replay"}
Decoding == [s : SenderType, r : ReceiverType, out : Seq(Nat), err : Errors]

\* What one record of the peer changes.
Decoded(d, x, y) ==
  /\ d.err # "none" => y = d
  /\ d.err = "none" /\ (d.r.rest \/ x.kind = "rest wrong") =>
       y.err = "mismatch" /\ y.s = d.s /\ y.r = d.r
  /\ d.err = "none" /\ ~d.r.rest /\ x.kind = "rest short" =>
       /\ y.err = "none" /\ y.s = d.s /\ y.out = d.out
       /\ y.r.highest = d.r.highest /\ y.r.lastRx = d.r.lastRx
  /\ d.err = "none" /\ ~d.r.rest /\ IsRec(x) /\ x.seq <= d.r.highest =>
       y.err = "replay" /\ y.s = d.s
  /\ d.err = "none" /\ ~d.r.rest /\ IsRec(x) /\ ~(x.seq <= d.r.highest) =>
       /\ y.err = "none" /\ y.r.highest = x.seq /\ y.r.rest = d.r.rest /\ y.r.lastRx = d.r.lastRx
       /\ y.out = (IF x.kind = "data" THEN Append(d.out, x.val) ELSE d.out)
       /\ y.s = (IF x.kind = "ping" THEN Enqueue(d.s, "pong", <<x.val>>) ELSE d.s)

LEMMA DecodeFacts ==
  ASSUME NEW d \in Decoding, NEW x \in Records \cup Rests,
         Enqueue(d.s, "pong", <<x.val>>) \in SenderType \/ x.kind # "ping",
         NEW y, y = Decode(d, x)
  PROVE  y \in Decoding /\ Decoded(d, x, y)
<1>1. /\ d.s \in SenderType /\ d.r \in ReceiverType /\ d.out \in Seq(Nat) /\ d.err \in Errors
  BY DEF Decoding
<1>2. (x \in Records /\ IsRec(x)) \/ (~IsRec(x) /\ (x.kind = "rest wrong" \/ x.kind = "rest short"))
  BY ItemKinds
<1>3. IsRec(x) => x.kind # "rest wrong" /\ x.kind # "rest short"
  BY ItemKinds
<1>4. CASE d.err # "none"
  BY <1>4 DEF Decode, Decoded
<1>5. CASE d.err = "none" /\ (d.r.rest \/ x.kind = "rest wrong")
  <2>1. y = [d EXCEPT !.err = "mismatch"]
    BY <1>5 DEF Decode
  <2>2. y \in Decoding /\ y.err = "mismatch" /\ y.s = d.s /\ y.r = d.r
    BY <2>1 DEF Decoding, Errors
  <2>3. QED BY <1>3, <1>5, <2>2 DEF Decoded
<1>6. CASE d.err = "none" /\ ~d.r.rest /\ x.kind = "rest short"
  <2>1. x.kind # "rest wrong"
    BY <1>6
  <2>2. y = [d EXCEPT !.r.rest = TRUE]
    BY <1>6, <2>1 DEF Decode
  <2> DEFINE e == [d.r EXCEPT !.rest = TRUE]
  <2>3. e \in ReceiverType /\ e.highest = d.r.highest /\ e.lastRx = d.r.lastRx
    BY <1>1 DEF ReceiverType
  <2>4. y = [d EXCEPT !.r = e]
    BY <2>2
  <2> HIDE DEF e
  <2>5. y \in Decoding /\ y.err = d.err /\ y.s = d.s /\ y.r = e /\ y.out = d.out
    BY <2>3, <2>4 DEF Decoding
  <2>6. QED BY <1>3, <1>6, <2>1, <2>3, <2>5 DEF Decoded
<1>7. CASE d.err = "none" /\ ~d.r.rest /\ IsRec(x) /\ x.seq <= d.r.highest
  <2>1. y = [d EXCEPT !.err = "replay"]
    BY <1>3, <1>7 DEF Decode
  <2>2. y \in Decoding /\ y.err = "replay" /\ y.s = d.s
    BY <2>1 DEF Decoding, Errors
  <2>3. QED BY <1>3, <1>7, <2>2 DEF Decoded
<1>8. CASE d.err = "none" /\ ~d.r.rest /\ IsRec(x) /\ ~(x.seq <= d.r.highest)
  <2> DEFINE e == [d.r EXCEPT !.highest = x.seq]
             o == IF x.kind = "data" THEN Append(d.out, x.val) ELSE d.out
             t == IF x.kind = "ping" THEN Enqueue(d.s, "pong", <<x.val>>) ELSE d.s
  <2>1. x.seq \in Nat /\ x.val \in Nat
    BY <1>2, <1>8 DEF Records
  <2>2. e \in ReceiverType /\ e.highest = x.seq /\ e.rest = d.r.rest /\ e.lastRx = d.r.lastRx
    BY <1>1, <2>1 DEF ReceiverType
  <2>3. o \in Seq(Nat)
    BY <1>1, <2>1
  <2>4. t \in SenderType
    BY <1>1
  <2>5. y = [d EXCEPT !.r.highest = x.seq, !.out = o, !.s = t]
    BY <1>3, <1>8 DEF Decode
  <2> HIDE DEF o, t
  <2>6. y = [d EXCEPT !.r = e, !.out = o, !.s = t]
    BY <2>5
  <2> HIDE DEF e
  <2>7. y \in Decoding /\ y.err = d.err /\ y.s = t /\ y.r = e /\ y.out = o
    BY <2>2, <2>3, <2>4, <2>6 DEF Decoding
  <2>8. QED BY <1>3, <1>8, <2>2, <2>7 DEF o, t, Decoded
<1>9. QED BY <1>2, <1>4, <1>5, <1>6, <1>7, <1>8

\* What is on its way from the peer: the wire W holds records of S, in order.
Incoming(W, S, v, h, U) ==
  /\ W \in Seq(Records \cup Rests) /\ S \subseteq Records /\ Bounds(v, h, U) /\ Fresh(S, v, h, U)
  /\ \A i \in 1..Len(W) : IsRec(W[i]) => W[i] \in S
  /\ \A i, j \in 1..Len(W) : i < j /\ IsRec(W[i]) /\ IsRec(W[j]) => W[i].seq < W[j].seq

After(W, i, x) == \A j \in 1..i : IsRec(W[j]) => W[j].seq < x.seq

\* The first i have been read: everything behind them is still new.
Heard(top, out, W, i, S, v, h, U) ==
  /\ \A x \in S : After(W, i, x) =>
       top < x.seq /\ (x.kind = "data" => \A m \in 1..Len(out) : out[m] < x.val)
  /\ \A m \in 1..Len(out) : out[m] <= v /\ \A u \in U : u < out[m]
  /\ \A m, n \in 1..Len(out) : m < n => out[m] < out[n]
  /\ \A n \in Nat : h < n /\ Below(S, n) => top < n

\* One more record is read.
LEMMA HeardStep ==
  ASSUME NEW v, NEW h, NEW U, NEW W, NEW S, Incoming(W, S, v, h, U),
         NEW i \in Nat, i + 1 \in 1..Len(W), IsRec(W[i + 1]),
         NEW top \in Nat, NEW out \in Seq(Nat), Heard(top, out, W, i, S, v, h, U),
         NEW new, new = IF W[i + 1].kind = "data" THEN Append(out, W[i + 1].val) ELSE out
  PROVE  ~(W[i + 1].seq <= top) /\ Heard(W[i + 1].seq, new, W, i + 1, S, v, h, U)
<1> DEFINE x == W[i + 1]
<1>1. x \in S /\ x.seq \in Nat /\ x.val \in Nat /\ x \in Records
  BY DEF Incoming, Records
<1>2. After(W, i, x)
  <2> SUFFICES ASSUME NEW j \in 1..i, IsRec(W[j]) PROVE W[j].seq < x.seq
    BY DEF After
  <2>1. j \in 1..Len(W) /\ j < i + 1
    <3>1. Len(W) \in Nat
      BY DEF Incoming
    <3>2. QED BY <3>1
  <2>2. QED BY <2>1 DEF Incoming
<1>3. IsRec(x)
  OBVIOUS
<1>4. new = IF x.kind = "data" THEN Append(out, x.val) ELSE out
  OBVIOUS
<1>a. x = W[i + 1]
  OBVIOUS
<1> HIDE DEF x
<1>5. top < x.seq /\ (x.kind = "data" => \A m \in 1..Len(out) : out[m] < x.val)
  BY <1>1, <1>2 DEF Heard
<1>6. /\ S \subseteq Records /\ v \in Nat /\ h \in Nat /\ U \subseteq Nat
      /\ \A y \in S : h < y.seq /\ (y.kind = "data" => y.val <= v /\ \A u \in U : u < y.val)
      /\ \A y, z \in S : y.kind = "data" /\ z.kind = "data" /\ y.seq < z.seq => y.val < z.val
  BY DEF Incoming, Fresh, Bounds
<1>7. \A y \in S : After(W, i + 1, y) => After(W, i, y) /\ x.seq < y.seq
  BY <1>3, <1>a DEF After
<1>8. /\ Len(out) \in Nat
      /\ x.kind = "data" => /\ Len(new) = Len(out) + 1 /\ new[Len(out) + 1] = x.val
                            /\ \A m \in 1..Len(out) : new[m] = out[m]
      /\ x.kind # "data" => new = out
  BY <1>1, <1>4
<1>9. \A m \in 1..Len(new) : (m \in 1..Len(out) /\ new[m] = out[m])
                             \/ (x.kind = "data" /\ m = Len(out) + 1 /\ new[m] = x.val)
  BY <1>8
<1>10. ASSUME NEW y \in S, After(W, i + 1, y)
       PROVE  x.seq < y.seq /\ (y.kind = "data" => \A m \in 1..Len(new) : new[m] < y.val)
  <2>1. x.seq < y.seq /\ (y.kind = "data" => \A m \in 1..Len(out) : out[m] < y.val)
    BY <1>7, <1>10 DEF Heard
  <2>2. x.kind = "data" /\ y.kind = "data" => x.val < y.val
    BY <1>1, <1>6, <2>1
  <2>3. QED BY <1>9, <2>1, <2>2
<1>11. \A m \in 1..Len(new) : new[m] <= v /\ \A u \in U : u < new[m]
  <2>1. \A m \in 1..Len(out) : out[m] <= v /\ \A u \in U : u < out[m]
    BY DEF Heard
  <2>2. x.kind = "data" => x.val <= v /\ \A u \in U : u < x.val
    BY <1>1, <1>6
  <2>3. QED BY <1>9, <2>1, <2>2
<1>12. ASSUME NEW m \in 1..Len(new), NEW n \in 1..Len(new), m < n
       PROVE  new[m] < new[n]
  <2>1. \A a, b \in 1..Len(out) : a < b => out[a] < out[b]
    BY DEF Heard
  <2>2. CASE n \in 1..Len(out) /\ new[n] = out[n]
    <3>1. m \in 1..Len(out)
      BY <1>8, <1>12, <2>2
    <3>2. new[m] = out[m]
      BY <1>8, <1>9, <3>1
    <3>3. QED BY <1>12, <2>1, <2>2, <3>1, <3>2
  <2>3. CASE x.kind = "data" /\ n = Len(out) + 1 /\ new[n] = x.val
    <3>1. m \in 1..Len(out)
      BY <1>8, <1>12, <2>3
    <3>2. QED BY <1>5, <1>8, <2>3, <3>1
  <2>4. QED BY <1>9, <2>2, <2>3
<1>13. \A n \in Nat : h < n /\ Below(S, n) => x.seq < n
  BY <1>1 DEF Below
<1>14. ~(x.seq <= top)
  BY <1>1, <1>5
<1>15. Heard(x.seq, new, W, i + 1, S, v, h, U)
  BY <1>10, <1>11, <1>12, <1>13 DEF Heard
<1>16. QED BY <1>14, <1>15 DEF x

LEMMA OneKeeps ==
  ASSUME now \in Nat, NEW v, NEW h, NEW U, Bounds(v, h, U), NEW s, Sends(s, v, h, U),
         NEW kind \in Kinds \ {"data"}, NEW val \in Nat
  PROVE  /\ Sends(Enqueue(s, kind, <<val>>), v, h, U)
         /\ Enqueue(s, kind, <<val>>).wire = s.wire /\ Enqueue(s, kind, <<val>>).lastTx = s.lastTx
         /\ Enqueue(s, kind, <<val>>).q # <<>>
<1> DEFINE vals == <<val>>
<1>1. News(kind, vals, v, v) /\ Len(vals) > 0
  <2>1. v \in Nat
    BY DEF Bounds
  <2>2. vals \in Seq(Nat) /\ Len(vals) > 0 /\ v <= v
    BY <2>1
  <2>3. QED BY <2>1, <2>2 DEF News
<1> HIDE DEF vals
<1>2. /\ Sends(Enqueue(s, kind, vals), v, h, U)
      /\ Enqueue(s, kind, vals).wire = s.wire /\ Enqueue(s, kind, vals).lastTx = s.lastTx
      /\ Enqueue(s, kind, vals).q # <<>>
  BY <1>1, EnqueueKeeps
<1>3. QED BY <1>2 DEF vals

\* The own sender goes on unharmed while the loop decodes.
Own(t, s, v, h, U) == Sends(t, v, h, U) /\ t.wire = s.wire /\ t.lastTx = s.lastTx

LEMMA DecodeOwn ==
  ASSUME now \in Nat, NEW v, NEW h, NEW U, Bounds(v, h, U), NEW s,
         NEW d \in Decoding, Own(d.s, s, v, h, U), NEW x \in Records \cup Rests
  PROVE  /\ Enqueue(d.s, "pong", <<x.val>>) \in SenderType \/ x.kind # "ping"
         /\ Decode(d, x) \in Decoding /\ Own(Decode(d, x).s, s, v, h, U)
<1> DEFINE p == Enqueue(d.s, "pong", <<x.val>>)
           y == Decode(d, x)
<1>1. x.kind = "ping" => p \in SenderType /\ Own(p, s, v, h, U)
  <2> SUFFICES ASSUME x.kind = "ping" PROVE p \in SenderType /\ Own(p, s, v, h, U)
    OBVIOUS
  <2>1. x \in Records
    BY ItemKinds DEF IsRec, Kinds
  <2>2. x.val \in Nat /\ "pong" \in Kinds \ {"data"} /\ Sends(d.s, v, h, U)
    BY <2>1 DEF Records, Kinds, Own
  <2>3. Sends(p, v, h, U) /\ p.wire = d.s.wire /\ p.lastTx = d.s.lastTx
    BY <2>2, OneKeeps
  <2> HIDE DEF p
  <2>4. QED BY <2>3 DEF Own, Sends, Stream
<1> HIDE DEF p
<1>2. p \in SenderType \/ x.kind # "ping"
  BY <1>1
<1>3. y \in Decoding /\ Decoded(d, x, y)
  <2>1. Enqueue(d.s, "pong", <<x.val>>) \in SenderType \/ x.kind # "ping"
    BY <1>2 DEF p
  <2>2. QED BY <2>1, DecodeFacts
<1>4. (x \in Records /\ IsRec(x)) \/ (~IsRec(x) /\ (x.kind = "rest wrong" \/ x.kind = "rest short"))
  BY ItemKinds
<1> HIDE DEF y
<1>5. y.s = d.s \/ (x.kind = "ping" /\ y.s = p)
  <2>1. CASE d.err # "none"
    BY <1>3, <2>1 DEF Decoded
  <2>2. CASE d.err = "none"
    BY <1>3, <1>4, <2>2 DEF Decoded, p
  <2>3. QED BY <2>1, <2>2
<1>6. Own(y.s, s, v, h, U)
  BY <1>1, <1>5
<1>7. QED BY <1>2, <1>3, <1>6 DEF p, y

\* The outcome of reading the first i items of W.
Listened(d, i, s, r, W, S, v, U, vo, ho, Uo) ==
  /\ d \in Decoding /\ Own(d.s, s, vo, ho, Uo) /\ d.err # "replay" /\ d.r.lastRx = r.lastRx
  /\ d.err = "none" => Heard(d.r.highest, d.out, W, i, S, v, r.highest, U)
  /\ ~r.rest /\ (\A j \in 1..i : IsRec(W[j])) => d.err = "none" /\ ~d.r.rest

LEMMA ListenStep ==
  ASSUME now \in Nat, NEW vo, NEW ho, NEW Uo, Bounds(vo, ho, Uo), NEW s,
         NEW r \in ReceiverType, NEW v, NEW U, NEW W, NEW S, Incoming(W, S, v, r.highest, U),
         NEW i \in Nat, i + 1 \in 1..Len(W), NEW d, Listened(d, i, s, r, W, S, v, U, vo, ho, Uo)
  PROVE  Listened(Decode(d, W[i + 1]), i + 1, s, r, W, S, v, U, vo, ho, Uo)
<1> DEFINE x == W[i + 1]
           y == Decode(d, x)
<1>1. /\ d \in Decoding /\ Own(d.s, s, vo, ho, Uo) /\ d.err # "replay" /\ d.r.lastRx = r.lastRx
      /\ x \in Records \cup Rests
  BY DEF Listened, Incoming
<1>2. d.r \in ReceiverType /\ d.r.highest \in Nat /\ d.r.rest \in BOOLEAN /\ d.out \in Seq(Nat)
  BY <1>1 DEF Decoding, ReceiverType
<1>3. y \in Decoding /\ Own(y.s, s, vo, ho, Uo) /\ Decoded(d, x, y)
  <2>1. /\ Enqueue(d.s, "pong", <<x.val>>) \in SenderType \/ x.kind # "ping"
        /\ y \in Decoding /\ Own(y.s, s, vo, ho, Uo)
    <3> HIDE DEF x
    <3>1. QED BY <1>1, DecodeOwn
  <2>2. Decoded(d, x, y)
    <3> HIDE DEF x
    <3>1. QED BY <1>1, <2>1, DecodeFacts
  <2>3. QED BY <2>1, <2>2
<1>4. /\ (x \in Records /\ IsRec(x)) \/ (~IsRec(x) /\ (x.kind = "rest wrong" \/ x.kind = "rest short"))
      /\ IsRec(x) => x.kind # "rest wrong" /\ x.kind # "rest short"
  BY <1>1, ItemKinds
<1>5. d.err = "none" => Heard(d.r.highest, d.out, W, i, S, v, r.highest, U)
  BY DEF Listened
<1>6. d.err = "none" /\ IsRec(x) =>
        /\ ~(x.seq <= d.r.highest)
        /\ Heard(x.seq, IF x.kind = "data" THEN Append(d.out, x.val) ELSE d.out,
                 W, i + 1, S, v, r.highest, U)
  BY <1>2, <1>5, HeardStep
<1>7. \A z \in S : After(W, i + 1, z) => After(W, i, z)
  BY DEF After
<1>8. d.err = "none" => Heard(d.r.highest, d.out, W, i + 1, S, v, r.highest, U)
  BY <1>5, <1>7 DEF Heard
<1>9. (\A j \in 1..(i + 1) : IsRec(W[j])) => IsRec(x) /\ \A j \in 1..i : IsRec(W[j])
  OBVIOUS
<1>10. ~r.rest /\ (\A j \in 1..i : IsRec(W[j])) => d.err = "none" /\ ~d.r.rest
  BY DEF Listened
<1> HIDE DEF x, y
<1>11. CASE d.err # "none"
  <2>1. y = d
    BY <1>3, <1>11 DEF Decoded
  <2>2. QED BY <1>1, <1>9, <1>10, <1>11, <2>1 DEF Listened, x, y
<1>12. CASE d.err = "none" /\ (d.r.rest \/ x.kind = "rest wrong")
  <2>1. y.err = "mismatch" /\ y.r = d.r
    BY <1>3, <1>12 DEF Decoded
  <2>2. ~(~r.rest /\ (\A j \in 1..(i + 1) : IsRec(W[j])))
    BY <1>4, <1>9, <1>10, <1>12
  <2>3. QED BY <1>1, <1>3, <2>1, <2>2 DEF Listened, x, y
<1>13. CASE d.err = "none" /\ ~d.r.rest /\ x.kind = "rest short"
  <2>1. y.err = "none" /\ y.out = d.out /\ y.r.highest = d.r.highest /\ y.r.lastRx = d.r.lastRx
    BY <1>3, <1>13 DEF Decoded
  <2>2. ~(\A j \in 1..(i + 1) : IsRec(W[j]))
    BY <1>4, <1>9, <1>13
  <2>3. Heard(y.r.highest, y.out, W, i + 1, S, v, r.highest, U)
    BY <1>8, <1>13, <2>1
  <2>4. QED BY <1>1, <1>3, <2>1, <2>2, <2>3 DEF Listened, x, y
<1>14. CASE d.err = "none" /\ ~d.r.rest /\ IsRec(x)
  <2>1. /\ y.err = "none" /\ y.r.highest = x.seq /\ y.r.rest = d.r.rest /\ y.r.lastRx = d.r.lastRx
        /\ y.out = (IF x.kind = "data" THEN Append(d.out, x.val) ELSE d.out)
    BY <1>3, <1>6, <1>14 DEF Decoded
  <2>2. Heard(y.r.highest, y.out, W, i + 1, S, v, r.highest, U)
    BY <1>6, <1>14, <2>1
  <2>3. QED BY <1>1, <1>3, <1>14, <2>1, <2>2 DEF Listened, x, y
<1>15. QED BY <1>4, <1>11, <1>12, <1>13, <1>14

LEMMA ReadKeeps ==
  ASSUME now \in Nat, NEW vo, NEW ho, NEW Uo, Bounds(vo, ho, Uo), NEW s, Sends(s, vo, ho, Uo),
         NEW r \in ReceiverType, NEW v, NEW U, NEW W, NEW S, Incoming(W, S, v, r.highest, U),
         NEW k \in 0..Len(W), NEW xs, xs = SubSeq(W, 1, k)
  PROVE  \E l \in ReceiverType :
           /\ l.highest = r.highest /\ l.rest = r.rest /\ l.lastRx = (IF k = 0 THEN r.lastRx ELSE now)
           /\ Listened(ReadAll(s, r, xs), k, s, l, W, S, v, U, vo, ho, Uo)
<1> DEFINE l == IF xs = <<>> THEN r ELSE [r EXCEPT !.lastRx = now]
           a == [s |-> s, r |-> l, out |-> <<>>, err |-> "none"]
           Def(f) == [i \in 0..Len(xs) |-> IF i = 0 THEN a ELSE Decode(f[i - 1], xs[i])]
           kept == CHOOSE f : f = Def(f)
           A == {d \in Decoding : Own(d.s, s, vo, ho, Uo)}
           Good == {n \in Nat : n <= k => Listened(kept[n], n, s, l, W, S, v, U, vo, ho, Uo)}
<1>1. /\ W \in Seq(Records \cup Rests) /\ Len(W) \in Nat /\ k \in Nat /\ k <= Len(W)
      /\ xs \in Seq(Records \cup Rests) /\ Len(xs) = k /\ \A i \in 1..k : xs[i] = W[i] /\ i \in 1..Len(W)
      /\ (xs = <<>> <=> k = 0)
  <2>1. W \in Seq(Records \cup Rests)
    BY DEF Incoming
  <2>2. Len(W) \in Nat /\ k \in Nat /\ k <= Len(W)
    BY <2>1
  <2>3. xs \in Seq(Records \cup Rests) /\ Len(xs) = k /\ \A i \in 1..k : xs[i] = W[i] /\ i \in 1..Len(W)
    BY <2>1, <2>2
  <2>4. xs = <<>> <=> k = 0
    BY <2>3
  <2>5. QED BY <2>1, <2>2, <2>3, <2>4
<1>2. /\ l \in ReceiverType /\ l.highest = r.highest /\ l.rest = r.rest
      /\ l.lastRx = (IF k = 0 THEN r.lastRx ELSE now)
  <2>1. CASE xs = <<>>
    BY <1>1, <2>1
  <2>2. CASE xs # <<>>
    <3>1. l = [r EXCEPT !.lastRx = now] /\ k # 0
      BY <1>1, <2>2
    <3> HIDE DEF l
    <3>2. QED BY <3>1 DEF ReceiverType
  <2>3. QED BY <2>1, <2>2
<1>3. ReadAll(s, r, xs) = kept[k]
  <2>1. ReadAll(s, r, xs) = kept[Len(xs)]
    BY DEF ReadAll
  <2> HIDE DEF kept
  <2>2. QED BY <1>1, <2>1
<1> HIDE DEF l
<1>4. a \in A /\ a.s = s /\ a.r = l /\ a.out = <<>> /\ a.err = "none"
  <2>1. s \in SenderType
    BY DEF Sends, Stream
  <2>2. a \in Decoding
    BY <1>2, <2>1 DEF Decoding, Errors
  <2>3. Own(a.s, s, vo, ho, Uo)
    BY DEF Own
  <2>4. QED BY <2>2, <2>3
<1> HIDE DEF a
<1>5. \A d \in A, m \in 1..k : Decode(d, xs[m]) \in A
  <2> SUFFICES ASSUME NEW d \in A, NEW m \in 1..k PROVE Decode(d, xs[m]) \in A
    OBVIOUS
  <2> DEFINE x == xs[m]
  <2>1. x \in Records \cup Rests /\ d \in Decoding /\ Own(d.s, s, vo, ho, Uo)
    BY <1>1
  <2> HIDE DEF x
  <2>2. Decode(d, x) \in Decoding /\ Own(Decode(d, x).s, s, vo, ho, Uo)
    BY <2>1, DecodeOwn
  <2>3. QED BY <2>2 DEF x
<1>6. kept = Def(kept)
  <2> DEFINE step == [x \in A \X (1..k) |-> Decode(x[1], xs[x[2]])]
  <2> HIDE DEF A
  <2>1. step \in [A \X (1..k) -> A]
    BY <1>5
  <2>2. \A d \in A, m \in 1..k : step[<<d, m>>] = Decode(d, xs[m])
    OBVIOUS
  <2> HIDE DEF step
  <2>3. \E g : Follows(g, k, A, a, step)
    BY <1>1, <1>4, <2>1, Recursion
  <2>4. PICK g \in [0..k -> A] : g[0] = a /\ \A m \in 1..k : g[m] = step[<<g[m - 1], m>>]
    BY <2>3 DEF Follows
  <2>5. \A m \in 1..k : m - 1 \in 0..k /\ g[m - 1] \in A
    BY <1>1
  <2>6. \A m \in 1..k : g[m] = Decode(g[m - 1], xs[m])
    BY <2>2, <2>4, <2>5
  <2>7. \A n \in 0..k : g[n] = IF n = 0 THEN a ELSE Decode(g[n - 1], xs[n])
    <3>1. \A n \in 0..k : n = 0 \/ n \in 1..k
      BY <1>1
    <3>2. \A n \in 1..k : n # 0
      BY <1>1
    <3>3. QED BY <2>4, <2>6, <3>1, <3>2, Zenon
  <2>8. g = Def(g)
    BY <1>1, <2>7
  <2>9. QED BY <2>8
<1> HIDE DEF kept
<1>7. kept[0] = a
  BY <1>1, <1>6
<1>8. \A n \in 1..k : kept[n] = Decode(kept[n - 1], W[n])
  <2>1. \A n \in 1..k : n \in 0..Len(xs) /\ n # 0
    BY <1>1
  <2>2. \A n \in 0..Len(xs) : kept[n] = Def(kept)[n]
    BY <1>6, Zenon
  <2>3. \A n \in 1..k : kept[n] = Decode(kept[n - 1], xs[n])
    BY <2>1, <2>2, Zenon
  <2>4. QED BY <1>1, <2>3
<1>9. 0 \in Good
  <2>1. r.highest \in Nat /\ r.highest = l.highest
    BY <1>2 DEF ReceiverType
  <2>2. Heard(l.highest, <<>>, W, 0, S, v, l.highest, U)
    BY <2>1 DEF Heard, Incoming, Fresh
  <2>3. Listened(a, 0, s, l, W, S, v, U, vo, ho, Uo)
    BY <1>4, <2>2 DEF Listened
  <2>4. QED BY <1>7, <2>3
<1>10. ASSUME NEW n \in Nat, n \in Good PROVE n + 1 \in Good
  <2> SUFFICES ASSUME n + 1 <= k PROVE Listened(kept[n + 1], n + 1, s, l, W, S, v, U, vo, ho, Uo)
    OBVIOUS
  <2>1. n + 1 \in 1..k /\ (n + 1) - 1 = n /\ n + 1 \in 1..Len(W) /\ n <= k
    BY <1>1
  <2>2. Listened(kept[n], n, s, l, W, S, v, U, vo, ho, Uo)
    BY <1>10, <2>1
  <2>3. kept[n + 1] = Decode(kept[n], W[n + 1])
    BY <1>8, <2>1
  <2>4. l \in ReceiverType /\ Incoming(W, S, v, l.highest, U)
    BY <1>2
  <2>5. QED BY <2>1, <2>2, <2>3, <2>4, ListenStep
<1>11. k \in Good
  <2> HIDE DEF Good
  <2>1. QED BY <1>1, <1>9, <1>10, Induction
<1>12. Listened(kept[k], k, s, l, W, S, v, U, vo, ho, Uo)
  BY <1>1, <1>11
<1>13. QED BY <1>2, <1>3, <1>12

------------------------------------------------------------------------------
\* Writing

AllRec(W) == \A i \in 1..Len(W) : IsRec(W[i])

\* What SSL_write_ex is given: the repeated write first, then the queue.
Item(s, i) == IF i = 1 /\ s.kept # NoWrite THEN s.kept.rec ELSE OnWire(s.q[i])

LEMMA ItemFacts ==
  ASSUME NEW s \in SenderType, InOrder(s)
  PROVE  /\ \A i \in 1..Len(s.q) :
              /\ Item(s, i) \in Records /\ Item(s, i) \in Carried(s)
              /\ Item(s, i).seq \in Nat /\ s.q[i].seq \in Nat /\ Item(s, i).seq <= s.q[i].seq
              /\ \A j \in 1..Len(s.wire) : IsRec(s.wire[j]) => s.wire[j].seq < Item(s, i).seq
         /\ \A i, j \in 1..Len(s.q) : i < j => Item(s, i).seq < Item(s, j).seq /\ Item(s, i).seq < s.q[j].seq
<1>1. /\ \A i \in 1..Len(s.q) : s.q[i] \in Waiting /\ OnWire(s.q[i]) \in Records
                                /\ OnWire(s.q[i]).seq = s.q[i].seq
      /\ s.kept # NoWrite => s.kept.rec \in Records
      /\ \A x : x \in Carried(s) <=>
           \/ \E i \in 1..Len(s.wire) : IsRec(s.wire[i]) /\ x = s.wire[i]
           \/ \E i \in 1..Len(s.q) : x = OnWire(s.q[i])
           \/ s.kept # NoWrite /\ x = s.kept.rec
      /\ Len(s.q) \in Nat
  BY SenderFacts
<1>2. /\ \A i \in 1..Len(s.wire), j \in 1..Len(s.q) : IsRec(s.wire[i]) => s.wire[i].seq < s.q[j].seq
      /\ \A i, j \in 1..Len(s.q) : i < j => s.q[i].seq < s.q[j].seq
      /\ s.kept # NoWrite =>
           /\ \A i \in 1..Len(s.wire) : IsRec(s.wire[i]) => s.wire[i].seq < s.kept.rec.seq
           /\ \A j \in 1..Len(s.q) : s.kept.rec.seq <= s.q[j].seq
  BY DEF InOrder
<1>3. \A x \in Records : x.seq \in Nat
  BY DEF Records
<1>4. ASSUME NEW i \in 1..Len(s.q)
      PROVE  /\ Item(s, i) \in Records /\ Item(s, i) \in Carried(s)
             /\ Item(s, i).seq \in Nat /\ s.q[i].seq \in Nat /\ Item(s, i).seq <= s.q[i].seq
             /\ \A j \in 1..Len(s.wire) : IsRec(s.wire[j]) => s.wire[j].seq < Item(s, i).seq
  <2>1. s.q[i].seq \in Nat
    BY <1>1 DEF Waiting
  <2>2. CASE i = 1 /\ s.kept # NoWrite
    <3>1. Item(s, i) = s.kept.rec
      BY <2>2 DEF Item
    <3>2. QED BY <1>1, <1>2, <1>3, <2>1, <2>2, <3>1
  <2>3. CASE ~(i = 1 /\ s.kept # NoWrite)
    <3>1. Item(s, i) = OnWire(s.q[i])
      BY <2>3 DEF Item
    <3>2. QED BY <1>1, <1>2, <1>3, <2>1, <3>1
  <2>4. QED BY <2>2, <2>3
<1>5. ASSUME NEW i \in 1..Len(s.q), NEW j \in 1..Len(s.q), i < j
      PROVE  Item(s, i).seq < Item(s, j).seq /\ Item(s, i).seq < s.q[j].seq
  <2>1. Item(s, i).seq \in Nat /\ s.q[i].seq \in Nat /\ Item(s, i).seq <= s.q[i].seq
    BY <1>4
  <2>2. s.q[i].seq < s.q[j].seq /\ s.q[j].seq \in Nat
    BY <1>2, <1>4, <1>5
  <2>3. j # 1
    BY <1>1, <1>5
  <2>4. Item(s, j) = OnWire(s.q[j])
    BY <2>3 DEF Item
  <2>5. Item(s, j).seq = s.q[j].seq
    BY <1>1, <2>4
  <2>6. QED BY <2>1, <2>2, <2>5
<1>6. QED BY <1>4, <1>5

\* w of the items go out; the next one is kept when some are left of a batch.
Written(s, r, w) ==
  /\ r \in SenderType /\ r.q = SubSeq(s.q, w + 1, Len(s.q)) /\ r.next = s.next
  /\ Len(r.wire) = Len(s.wire) + w
  /\ \A i \in 1..Len(s.wire) : r.wire[i] = s.wire[i]
  /\ \A i \in 1..w : r.wire[Len(s.wire) + i] = Item(s, i)
  /\ r.kept = NoWrite \/ (w + 1 \in 1..Len(s.q) /\ r.kept.rec = Item(s, w + 1))

LEMMA BatchFacts ==
  ASSUME now \in Nat, NEW s \in SenderType, InOrder(s), NEW n \in Nat, NEW r, r = WriteBatch(s, n)
  PROVE  \E w \in 0..Len(s.q) :
           /\ Written(s, r, w) /\ r.lastTx = (IF w > 0 THEN now ELSE s.lastTx)
           /\ n > 0 /\ Len(s.q) > 0 /\ w = 0 => Len(s.wire) > 0
<1> DEFINE N == Least(n, Len(s.q))
           items == [i \in 1..N |-> IF i = 1 /\ s.kept # NoWrite THEN s.kept.rec ELSE OnWire(s.q[i])]
           room == IF Len(s.wire) < Socket THEN Socket - Len(s.wire) ELSE 0
           w == Least(Len(items), room)
           a == SubSeq(s.q, w + 1, Len(s.q))
           out == s.wire \o SubSeq(items, 1, w)
           k == IF w < Len(items) THEN [rec |-> items[w + 1], gone |-> 0] ELSE NoWrite
           tx == IF w > 0 THEN now ELSE s.lastTx
<1>1. r = [s EXCEPT !.q = a, !.wire = out, !.kept = k, !.lastTx = tx]
  BY DEF WriteBatch
<1>2. /\ s.q \in Seq(Waiting) /\ s.wire \in Seq(Records \cup Rests) /\ s.lastTx \in Nat
      /\ Len(s.q) \in Nat /\ Len(s.wire) \in Nat /\ Socket \in Nat /\ Socket > 0
  <2>1. Socket \in Nat /\ Socket > 0
    BY TlsLoopAssumption
  <2>2. QED BY <2>1, SenderFacts
<1>3. N \in 0..Len(s.q) /\ (n > 0 /\ Len(s.q) > 0 => N > 0) /\ room \in Nat /\ N \in Nat
  BY <1>2 DEF Least
<1> HIDE DEF N
<1>4. items \in Seq(Records) /\ Len(items) = N /\ \A i \in 1..N : items[i] = Item(s, i)
  <2> DEFINE f == [i \in 1..N |-> Item(s, i)]
  <2>1. items = f
    BY DEF Item
  <2>2. \A i \in 1..N : Item(s, i) \in Records
    BY <1>2, <1>3, ItemFacts
  <2>3. f \in Seq(Records) /\ Len(f) = N /\ \A i \in 1..N : f[i] = Item(s, i)
    BY <1>3, <2>2
  <2> HIDE DEF f
  <2>4. QED BY <2>1, <2>3, Zenon
<1> HIDE DEF items
<1>5. /\ w \in 0..N /\ w \in Nat /\ w \in 0..Len(s.q)
      /\ n > 0 /\ Len(s.q) > 0 /\ w = 0 => Len(s.wire) > 0
  BY <1>2, <1>3, <1>4 DEF Least
<1> HIDE DEF w
<1>6. a \in Seq(Waiting)
  BY <1>2, <1>5, Suffix
<1>7. /\ out \in Seq(Records \cup Rests) /\ Len(out) = Len(s.wire) + w
      /\ \A i \in 1..Len(s.wire) : out[i] = s.wire[i]
      /\ \A i \in 1..w : out[Len(s.wire) + i] = Item(s, i)
  <2> DEFINE b == SubSeq(items, 1, w)
             t == s.wire
  <2>1. b \in Seq(Records) /\ Len(b) = w /\ \A i \in 1..w : b[i] = items[i] /\ i \in 1..N
    BY <1>4, <1>5
  <2>2. b \in Seq(Records \cup Rests) /\ t \in Seq(Records \cup Rests)
    BY <1>2, <2>1
  <2> HIDE DEF b, t
  <2>3. /\ t \o b \in Seq(Records \cup Rests) /\ Len(t \o b) = Len(t) + Len(b)
        /\ \A i \in 1..Len(t) : (t \o b)[i] = t[i]
        /\ \A i \in 1..Len(b) : (t \o b)[Len(t) + i] = b[i]
    BY <2>2, Concat
  <2>4. out = t \o b
    BY DEF t, b
  <2>5. QED BY <1>4, <2>1, <2>3, <2>4 DEF t
<1>8. k \in Repeats /\ (k = NoWrite \/ (w + 1 \in 1..Len(s.q) /\ k.rec = Item(s, w + 1)))
  <2>1. CASE w < Len(items)
    <3>1. w + 1 \in 1..N /\ w + 1 \in 1..Len(s.q)
      BY <1>2, <1>3, <1>4, <1>5, <2>1
    <3>2. items[w + 1] = Item(s, w + 1) /\ Item(s, w + 1) \in Records
      BY <1>4, <3>1, ItemFacts
    <3>3. k = [rec |-> Item(s, w + 1), gone |-> 0]
      BY <2>1, <3>2
    <3> DEFINE x == Item(s, w + 1)
    <3> HIDE DEF k, x
    <3>4. k = [rec |-> x, gone |-> 0] /\ x \in Records
      BY <3>2, <3>3 DEF x
    <3>5. k \in [rec : Records, gone : Int] /\ k.rec = x
      BY <3>4
    <3>6. QED BY <3>1, <3>5 DEF Repeats, x
  <2>2. CASE ~(w < Len(items))
    <3>1. k = NoWrite
      BY <2>2
    <3> HIDE DEF k
    <3>2. QED BY <3>1 DEF Repeats
  <2>3. QED BY <2>1, <2>2
<1>9. tx \in Nat
  BY <1>2
<1> HIDE DEF a, out, k, tx
<1>10. /\ r \in SenderType /\ r.q = a /\ r.wire = out /\ r.kept = k /\ r.lastTx = tx /\ r.next = s.next
  BY <1>1, <1>6, <1>7, <1>8, <1>9 DEF SenderType
<1>11. Written(s, r, w)
  BY <1>7, <1>8, <1>10 DEF Written, a
<1>12. QED BY <1>5, <1>10, <1>11 DEF tx

LEMMA WrittenKeeps ==
  ASSUME NEW v, NEW h, NEW U, NEW s, Sends(s, v, h, U), NEW w \in 0..Len(s.q), NEW r, Written(s, r, w)
  PROVE  Sends(r, v, h, U) /\ (AllRec(s.wire) => AllRec(r.wire))
<1>1. s \in SenderType /\ InOrder(s) /\ Fresh(Carried(s), v, h, U) /\ h < s.next /\ Below(Carried(s), s.next)
  BY DEF Sends, Stream
<1>2. /\ r \in SenderType /\ r.q = SubSeq(s.q, w + 1, Len(s.q)) /\ r.next = s.next
      /\ Len(r.wire) = Len(s.wire) + w
      /\ \A i \in 1..Len(s.wire) : r.wire[i] = s.wire[i]
      /\ \A i \in 1..w : r.wire[Len(s.wire) + i] = Item(s, i)
      /\ r.kept = NoWrite \/ (w + 1 \in 1..Len(s.q) /\ r.kept.rec = Item(s, w + 1))
  BY DEF Written
<1>3. Len(s.wire) \in Nat /\ Len(s.q) \in Nat /\ w \in Nat /\ \A i \in 1..w : i \in 1..Len(s.q)
  <2>1. Len(s.wire) \in Nat /\ Len(s.q) \in Nat
    BY <1>1, SenderFacts
  <2>2. QED BY <2>1
<1>4. /\ Len(r.q) = Len(s.q) - w /\ \A i \in 1..Len(r.q) : r.q[i] = s.q[i + w] /\ i + w \in 1..Len(s.q)
  BY <1>1, <1>2, SenderFacts, Suffix
<1>5. \A i \in 1..Len(r.wire) :
        \/ i \in 1..Len(s.wire) /\ r.wire[i] = s.wire[i]
        \/ i - Len(s.wire) \in 1..w /\ r.wire[i] = Item(s, i - Len(s.wire))
  <2> SUFFICES ASSUME NEW i \in 1..Len(r.wire), i \notin 1..Len(s.wire)
               PROVE  i - Len(s.wire) \in 1..w /\ r.wire[i] = Item(s, i - Len(s.wire))
    BY <1>2
  <2>1. i - Len(s.wire) \in 1..w /\ Len(s.wire) + (i - Len(s.wire)) = i
    BY <1>2, <1>3
  <2>2. QED BY <1>2, <2>1
<1>6. /\ \A i \in 1..Len(s.q) :
           /\ Item(s, i) \in Records /\ Item(s, i) \in Carried(s)
           /\ Item(s, i).seq \in Nat /\ s.q[i].seq \in Nat /\ Item(s, i).seq <= s.q[i].seq
           /\ \A j \in 1..Len(s.wire) : IsRec(s.wire[j]) => s.wire[j].seq < Item(s, i).seq
      /\ \A i, j \in 1..Len(s.q) : i < j => Item(s, i).seq < Item(s, j).seq /\ Item(s, i).seq < s.q[j].seq
  BY <1>1, ItemFacts
<1>7. Carried(r) \subseteq Carried(s)
  <2> SUFFICES ASSUME NEW x \in Carried(r) PROVE x \in Carried(s)
    OBVIOUS
  <2>1. \A y : y \in Carried(s) <=>
          \/ \E i \in 1..Len(s.wire) : IsRec(s.wire[i]) /\ y = s.wire[i]
          \/ \E i \in 1..Len(s.q) : y = OnWire(s.q[i])
          \/ s.kept # NoWrite /\ y = s.kept.rec
    BY <1>1, SenderFacts
  <2>2. \/ \E i \in 1..Len(r.wire) : IsRec(r.wire[i]) /\ x = r.wire[i]
        \/ \E i \in 1..Len(r.q) : x = OnWire(r.q[i])
        \/ r.kept # NoWrite /\ x = r.kept.rec
    BY <1>2, SenderFacts
  <2>3. CASE \E i \in 1..Len(r.wire) : IsRec(r.wire[i]) /\ x = r.wire[i]
    <3>1. PICK i \in 1..Len(r.wire) : IsRec(r.wire[i]) /\ x = r.wire[i]
      BY <2>3
    <3>2. CASE i \in 1..Len(s.wire) /\ r.wire[i] = s.wire[i]
      BY <2>1, <3>1, <3>2
    <3>3. CASE i - Len(s.wire) \in 1..w /\ r.wire[i] = Item(s, i - Len(s.wire))
      BY <1>3, <1>6, <3>1, <3>3
    <3>4. QED BY <1>5, <3>2, <3>3
  <2>4. CASE \E i \in 1..Len(r.q) : x = OnWire(r.q[i])
    BY <1>4, <2>1, <2>4
  <2>5. CASE r.kept # NoWrite /\ x = r.kept.rec
    BY <1>2, <1>6, <2>5
  <2>6. QED BY <2>2, <2>3, <2>4, <2>5
<1>8. InOrder(r)
  <2>1. \A i, j \in 1..Len(r.q) : i < j => r.q[i].seq < r.q[j].seq
    <3>1. \A i, j \in 1..Len(r.q) : i < j => i + w < j + w
      BY <1>3, <1>4
    <3>2. QED BY <1>1, <1>4, <3>1 DEF InOrder
  <2>2. \A i, j \in 1..Len(r.wire) :
          i < j /\ IsRec(r.wire[i]) /\ IsRec(r.wire[j]) => r.wire[i].seq < r.wire[j].seq
    <3> SUFFICES ASSUME NEW i \in 1..Len(r.wire), NEW j \in 1..Len(r.wire), i < j,
                        IsRec(r.wire[i]), IsRec(r.wire[j])
                 PROVE  r.wire[i].seq < r.wire[j].seq
      OBVIOUS
    <3>1. CASE j \in 1..Len(s.wire) /\ r.wire[j] = s.wire[j]
      <4>1. i \in 1..Len(s.wire)
        BY <1>2, <1>3, <3>1
      <4>2. r.wire[i] = s.wire[i]
        BY <1>2, <4>1
      <4>3. QED BY <1>1, <3>1, <4>1, <4>2 DEF InOrder
    <3>2. CASE j - Len(s.wire) \in 1..w /\ r.wire[j] = Item(s, j - Len(s.wire))
      <4>1. CASE i \in 1..Len(s.wire) /\ r.wire[i] = s.wire[i]
        BY <1>3, <1>6, <3>2, <4>1
      <4>2. CASE i - Len(s.wire) \in 1..w /\ r.wire[i] = Item(s, i - Len(s.wire))
        <5>1. i - Len(s.wire) < j - Len(s.wire)
          BY <1>2, <1>3
        <5>2. QED BY <1>3, <1>6, <3>2, <4>2, <5>1
      <4>3. QED BY <1>5, <4>1, <4>2
    <3>3. QED BY <1>5, <3>1, <3>2
  <2>3. \A i \in 1..Len(r.wire), j \in 1..Len(r.q) : IsRec(r.wire[i]) => r.wire[i].seq < r.q[j].seq
    <3> SUFFICES ASSUME NEW i \in 1..Len(r.wire), NEW j \in 1..Len(r.q), IsRec(r.wire[i])
                 PROVE  r.wire[i].seq < r.q[j].seq
      OBVIOUS
    <3>1. r.q[j] = s.q[j + w] /\ j + w \in 1..Len(s.q) /\ j \in Nat /\ j > 0
      BY <1>3, <1>4
    <3>2. CASE i \in 1..Len(s.wire) /\ r.wire[i] = s.wire[i]
      BY <1>1, <3>1, <3>2 DEF InOrder
    <3>3. CASE i - Len(s.wire) \in 1..w /\ r.wire[i] = Item(s, i - Len(s.wire))
      <4>1. i - Len(s.wire) < j + w
        BY <1>3, <3>1, <3>3
      <4>2. QED BY <1>3, <1>6, <3>1, <3>3, <4>1
    <3>4. QED BY <1>5, <3>2, <3>3
  <2>4. ASSUME r.kept # NoWrite
        PROVE  /\ \A i \in 1..Len(r.wire) : IsRec(r.wire[i]) => r.wire[i].seq < r.kept.rec.seq
               /\ \A j \in 1..Len(r.q) : r.kept.rec.seq <= r.q[j].seq
    <3>1. w + 1 \in 1..Len(s.q) /\ r.kept.rec = Item(s, w + 1)
      BY <1>2, <2>4
    <3>2. ASSUME NEW i \in 1..Len(r.wire), IsRec(r.wire[i]) PROVE r.wire[i].seq < Item(s, w + 1).seq
      <4>1. CASE i \in 1..Len(s.wire) /\ r.wire[i] = s.wire[i]
        BY <1>6, <3>1, <3>2, <4>1
      <4>2. CASE i - Len(s.wire) \in 1..w /\ r.wire[i] = Item(s, i - Len(s.wire))
        <5>1. i - Len(s.wire) < w + 1
          BY <1>3, <4>2
        <5>2. QED BY <1>3, <1>6, <3>1, <4>2, <5>1
      <4>3. QED BY <1>5, <4>1, <4>2
    <3>3. ASSUME NEW j \in 1..Len(r.q) PROVE Item(s, w + 1).seq <= r.q[j].seq
      <4>1. r.q[j] = s.q[j + w] /\ j + w \in 1..Len(s.q) /\ j \in Nat /\ (j = 1 \/ w + 1 < j + w)
        BY <1>3, <1>4
      <4>2. Item(s, w + 1).seq \in Nat /\ s.q[j + w].seq \in Nat
        BY <1>6, <3>1, <4>1
      <4>3. CASE j = 1
        <5>1. j + w = w + 1
          BY <1>3, <4>3
        <5>2. QED BY <1>6, <3>1, <4>1, <5>1
      <4>4. CASE w + 1 < j + w
        <5>1. Item(s, w + 1).seq < s.q[j + w].seq
          BY <1>6, <3>1, <4>1, <4>4
        <5>2. QED BY <4>1, <4>2, <5>1
      <4>5. QED BY <4>1, <4>3, <4>4
    <3>4. QED BY <3>1, <3>2, <3>3
  <2>5. QED BY <2>1, <2>2, <2>3, <2>4 DEF InOrder
<1>9. Fresh(Carried(r), v, h, U) /\ Below(Carried(r), r.next)
  <2>1. Fresh(Carried(r), v, h, U)
    BY <1>1, <1>7, FreshSubset
  <2>2. QED BY <1>1, <1>2, <1>7, <2>1 DEF Below
<1>10. AllRec(s.wire) => AllRec(r.wire)
  <2>1. \A i \in 1..Len(s.q) : IsRec(Item(s, i))
    BY <1>6 DEF IsRec, Records
  <2>2. QED BY <1>3, <1>5, <2>1 DEF AllRec
<1>11. QED BY <1>1, <1>2, <1>8, <1>9, <1>10 DEF Sends, Stream

\* The facts of one batch that the loop's proofs use.
Wrote(s, r, v, h, U) ==
  /\ Sends(r, v, h, U) /\ (AllRec(s.wire) => AllRec(r.wire))
  /\ Len(r.wire) >= Len(s.wire) /\ Len(s.wire) \in Nat
  /\ (r.lastTx = now /\ Len(r.wire) > 0) \/ (r.lastTx = s.lastTx /\ r.wire = s.wire)

LEMMA WriteKeeps ==
  ASSUME now \in Nat, NEW v, NEW h, NEW U, NEW s, Sends(s, v, h, U), NEW n \in Nat,
         NEW r, r = WriteBatch(s, n)
  PROVE  Wrote(s, r, v, h, U) /\ (n > 0 /\ Len(s.q) > 0 => Len(r.wire) > 0)
<1>1. s \in SenderType /\ InOrder(s)
  BY DEF Sends, Stream
<1>2. PICK w \in 0..Len(s.q) :
        /\ Written(s, r, w) /\ r.lastTx = (IF w > 0 THEN now ELSE s.lastTx)
        /\ n > 0 /\ Len(s.q) > 0 /\ w = 0 => Len(s.wire) > 0
  BY <1>1, BatchFacts
<1>3. Sends(r, v, h, U) /\ (AllRec(s.wire) => AllRec(r.wire))
  BY <1>2, WrittenKeeps
<1>4. /\ Len(s.wire) \in Nat /\ Len(s.q) \in Nat /\ Len(r.wire) = Len(s.wire) + w
      /\ \A i \in 1..Len(s.wire) : r.wire[i] = s.wire[i]
      /\ s.wire \in Seq(Records \cup Rests) /\ r.wire \in Seq(Records \cup Rests)
  <2>1. r \in SenderType /\ Len(r.wire) = Len(s.wire) + w
        /\ \A i \in 1..Len(s.wire) : r.wire[i] = s.wire[i]
    BY <1>2 DEF Written
  <2>2. s.wire \in Seq(Records \cup Rests) /\ r.wire \in Seq(Records \cup Rests)
    BY <1>1, <2>1, SenderFacts
  <2>3. Len(s.wire) \in Nat /\ Len(s.q) \in Nat
    BY <1>1, SenderFacts
  <2>4. QED BY <2>1, <2>2, <2>3
<1>5. w = 0 => r.wire = s.wire
  <2> DEFINE a == r.wire
             b == s.wire
  <2> SUFFICES ASSUME w = 0 PROVE a = b
    OBVIOUS
  <2>1. /\ a \in Seq(Records \cup Rests) /\ b \in Seq(Records \cup Rests) /\ Len(a) = Len(b)
        /\ \A i \in 1..Len(b) : a[i] = b[i]
    BY <1>4
  <2> HIDE DEF a, b
  <2>2. QED BY <2>1
<1>6. w \in Nat /\ (w = 0 \/ w > 0)
  BY <1>4
<1>7. CASE w = 0
  <2>1. r.lastTx = s.lastTx
    BY <1>2, <1>7
  <2>2. QED BY <1>2, <1>3, <1>4, <1>5, <1>7, <2>1 DEF Wrote
<1>8. CASE w > 0
  <2>1. r.lastTx = now /\ Len(r.wire) > 0 /\ Len(r.wire) >= Len(s.wire)
    BY <1>2, <1>4, <1>6, <1>8
  <2>2. QED BY <1>3, <1>4, <2>1 DEF Wrote
<1>9. QED BY <1>6, <1>7, <1>8

\* The leftover of a longer front goes out behind the repeated write.
Trailed(s, rest) == [s EXCEPT !.wire = s.wire \o rest]

LEMMA TrailKeeps ==
  ASSUME NEW v, NEW h, NEW U, NEW s, Sends(s, v, h, U), NEW rest \in Seq(Rests),
         NEW r, r = Trailed(s, rest)
  PROVE  Sends(r, v, h, U) /\ r.lastTx = s.lastTx /\ Len(r.wire) >= Len(s.wire) /\ r.q = s.q
<1> DEFINE t == s.wire
           a == t \o rest
<1>1. s \in SenderType /\ InOrder(s) /\ Fresh(Carried(s), v, h, U) /\ h < s.next /\ Below(Carried(s), s.next)
  BY DEF Sends, Stream
<1>2. t \in Seq(Records \cup Rests) /\ rest \in Seq(Records \cup Rests) /\ Len(rest) \in Nat
      /\ \A i \in 1..Len(rest) : rest[i] \in Rests
  <2>1. t \in Seq(Records \cup Rests)
    BY <1>1, SenderFacts
  <2> HIDE DEF t
  <2>2. QED BY <2>1
<1>3. /\ a \in Seq(Records \cup Rests) /\ Len(a) = Len(t) + Len(rest) /\ Len(t) \in Nat
      /\ \A i \in 1..Len(t) : a[i] = t[i]
      /\ \A i \in 1..(Len(t) + Len(rest)) :
           (i \in 1..Len(t) /\ a[i] = t[i]) \/ (i - Len(t) \in 1..Len(rest) /\ a[i] = rest[i - Len(t)])
  <2> HIDE DEF t
  <2>1. QED BY <1>2, Concat
<1>4. r = [s EXCEPT !.wire = a]
  BY DEF Trailed
<1> HIDE DEF a
<1>5. r \in SenderType /\ r.wire = a /\ r.q = s.q /\ r.kept = s.kept /\ r.next = s.next /\ r.lastTx = s.lastTx
  BY <1>1, <1>3, <1>4 DEF SenderType
<1>6. \A y \in Rests : ~IsRec(y)
  BY ItemKinds
<1>7. \A i \in 1..Len(a) : IsRec(a[i]) => i \in 1..Len(t) /\ a[i] = t[i]
  BY <1>2, <1>3, <1>6
<1>8. \A x : x \in Carried(r) => x \in Carried(s)
  <2>1. \A y : y \in Carried(s) <=>
          \/ \E i \in 1..Len(s.wire) : IsRec(s.wire[i]) /\ y = s.wire[i]
          \/ \E i \in 1..Len(s.q) : y = OnWire(s.q[i])
          \/ s.kept # NoWrite /\ y = s.kept.rec
    BY <1>1, SenderFacts
  <2>2. \A x : x \in Carried(r) <=>
          \/ \E i \in 1..Len(r.wire) : IsRec(r.wire[i]) /\ x = r.wire[i]
          \/ \E i \in 1..Len(r.q) : x = OnWire(r.q[i])
          \/ r.kept # NoWrite /\ x = r.kept.rec
    BY <1>5, SenderFacts
  <2>3. QED BY <1>5, <1>7, <2>1, <2>2
<1>9. InOrder(r)
  BY <1>1, <1>5, <1>7 DEF InOrder
<1>10. Fresh(Carried(r), v, h, U) /\ Below(Carried(r), r.next)
  <2>1. Fresh(Carried(r), v, h, U)
    BY <1>1, <1>8, FreshSubset
  <2>2. QED BY <1>1, <1>5, <1>8, <2>1 DEF Below
<1>11. Len(r.wire) >= Len(s.wire)
  BY <1>2, <1>3, <1>5
<1>12. QED BY <1>1, <1>5, <1>9, <1>10, <1>11 DEF Sends, Stream

\* The loop calls SSL_write_ex again with the same buffer.
Retried(s) == [s EXCEPT !.kept.gone = 0]

LEMMA RetryKeeps ==
  ASSUME NEW v, NEW h, NEW U, NEW s, Sends(s, v, h, U), s.kept # NoWrite, NEW r, r = Retried(s)
  PROVE  Sends(r, v, h, U) /\ r.lastTx = s.lastTx /\ r.wire = s.wire
<1> DEFINE k == [s.kept EXCEPT !.gone = 0]
<1>1. s \in SenderType /\ InOrder(s) /\ Fresh(Carried(s), v, h, U) /\ h < s.next /\ Below(Carried(s), s.next)
  BY DEF Sends, Stream
<1>2. s.kept.rec \in Records /\ s.kept = [rec |-> s.kept.rec, gone |-> s.kept.gone]
  BY <1>1, SenderFacts
<1>3. k \in Repeats /\ k.rec = s.kept.rec
  <2> DEFINE x == s.kept.rec
             y == s.kept.gone
  <2>1. x \in Records /\ s.kept = [rec |-> x, gone |-> y]
    BY <1>2
  <2> HIDE DEF x, y
  <2>2. k = [rec |-> x, gone |-> 0]
    BY <2>1
  <2> HIDE DEF k
  <2>3. k \in [rec : Records, gone : Int] /\ k.rec = x
    BY <2>1, <2>2
  <2>4. QED BY <2>3 DEF Repeats, x
<1>4. r = [s EXCEPT !.kept = k]
  BY DEF Retried
<1> HIDE DEF k
<1>5. r \in SenderType /\ r.kept = k /\ r.q = s.q /\ r.wire = s.wire /\ r.next = s.next /\ r.lastTx = s.lastTx
  BY <1>1, <1>3, <1>4 DEF SenderType
<1>6. \A x : x \in Carried(r) => x \in Carried(s)
  <2>1. \A y : y \in Carried(s) <=>
          \/ \E i \in 1..Len(s.wire) : IsRec(s.wire[i]) /\ y = s.wire[i]
          \/ \E i \in 1..Len(s.q) : y = OnWire(s.q[i])
          \/ s.kept # NoWrite /\ y = s.kept.rec
    BY <1>1, SenderFacts
  <2>2. \A x : x \in Carried(r) <=>
          \/ \E i \in 1..Len(r.wire) : IsRec(r.wire[i]) /\ x = r.wire[i]
          \/ \E i \in 1..Len(r.q) : x = OnWire(r.q[i])
          \/ r.kept # NoWrite /\ x = r.kept.rec
    BY <1>5, SenderFacts
  <2>3. QED BY <1>3, <1>5, <2>1, <2>2
<1>7. InOrder(r)
  BY <1>1, <1>3, <1>5 DEF InOrder
<1>8. Fresh(Carried(r), v, h, U) /\ Below(Carried(r), r.next)
  <2>1. Fresh(Carried(r), v, h, U)
    BY <1>1, <1>6, FreshSubset
  <2>2. QED BY <1>1, <1>5, <1>6, <2>1 DEF Below
<1>9. QED BY <1>1, <1>5, <1>7, <1>8 DEF Sends, Stream

LEMMA FlushKeeps ==
  ASSUME now \in Nat, NEW v, NEW h, NEW U, NEW s, Sends(s, v, h, U), NEW t \in Flushed(s)
  PROVE  /\ Sends(t, v, h, U) /\ (s.q = <<>> => t = s) /\ (s.q # <<>> => Len(t.wire) > 0)
         /\ t.lastTx = now \/ t.lastTx = s.lastTx
         /\ (s.q = <<>> \/ ~OtherBuffer(s)) /\ AllRec(s.wire) => AllRec(t.wire)
<1>1. /\ Len(s.q) \in Nat /\ (s.q # <<>> => Len(s.q) > 0) /\ Len(s.wire) \in Nat
      /\ Batch \in Nat /\ Batch > 0 /\ Socket \in Nat /\ Socket > 0
  <2>1. s \in SenderType
    BY DEF Sends, Stream
  <2>2. s.q \in Seq(Waiting) /\ Len(s.wire) \in Nat
    BY <2>1, SenderFacts
  <2>3. Batch \in Nat /\ Batch > 0 /\ Socket \in Nat /\ Socket > 0
    BY TlsLoopAssumption
  <2>4. Len(s.q) \in Nat /\ (s.q # <<>> => Len(s.q) > 0)
    <3> DEFINE a == s.q
    <3>1. a \in Seq(Waiting)
      BY <2>2
    <3> HIDE DEF a
    <3>2. Len(a) \in Nat /\ (a # <<>> => Len(a) > 0)
      BY <3>1
    <3>3. QED BY <3>2 DEF a
  <2>5. QED BY <2>2, <2>3, <2>4
<1>2. CASE s.q = <<>>
  <2>1. t = s
    BY <1>2 DEF Flushed
  <2>2. QED BY <1>2, <2>1
<1>3. CASE s.q # <<>> /\ ~OtherBuffer(s)
  <2>1. t = WriteBatch(s, Batch)
    BY <1>3 DEF Flushed
  <2>2. Wrote(s, t, v, h, U) /\ Len(t.wire) > 0
    BY <1>1, <1>3, <2>1, WriteKeeps
  <2>3. QED BY <1>3, <2>2 DEF Wrote
<1>4. CASE s.q # <<>> /\ OtherBuffer(s) /\ Len(s.wire) >= Socket
  <2>1. t = Retried(s)
    BY <1>4 DEF Flushed, Retried
  <2>2. s.kept # NoWrite
    <3>1. NoWrite.gone = 0
      BY DEF NoWrite
    <3>2. QED BY <1>4, <3>1 DEF OtherBuffer
  <2>3. Sends(t, v, h, U) /\ t.lastTx = s.lastTx /\ t.wire = s.wire
    BY <2>1, <2>2, RetryKeeps
  <2>4. QED BY <1>1, <1>4, <2>3
<1>5. CASE s.q # <<>> /\ OtherBuffer(s) /\ ~(Len(s.wire) >= Socket)
  <2> DEFINE u == WriteBatch(s, 1)
  <2>1. PICK rest \in Replaced(s) \cup Leftover(s) :
          t = WriteBatch([WriteBatch(s, 1) EXCEPT !.wire = @ \o rest], Batch - 1)
    BY <1>5 DEF Flushed
  <2>2. rest \in Seq(Rests)
    <3>1. [kind |-> "rest wrong"] \in Rests /\ [kind |-> "rest short"] \in Rests
      BY DEF Rests
    <3> DEFINE a == [kind |-> "rest wrong"]
               b == [kind |-> "rest short"]
    <3>2. a \in Rests /\ b \in Rests
      BY <3>1
    <3>3. rest = <<>> \/ rest = <<a>> \/ rest = <<b>>
      BY DEF Replaced, Leftover
    <3>4. \A c \in Rests : <<c>> \in Seq(Rests)
      OBVIOUS
    <3>5. <<>> \in Seq(Rests)
      OBVIOUS
    <3> HIDE DEF a, b
    <3>6. <<a>> \in Seq(Rests) /\ <<b>> \in Seq(Rests)
      BY <3>2, <3>4
    <3>7. QED BY <3>3, <3>5, <3>6
  <2>3. t = WriteBatch(Trailed(u, rest), Batch - 1)
    BY <2>1 DEF Trailed
  <2>4. Wrote(s, u, v, h, U) /\ Len(u.wire) > 0
    <3>1. 1 \in Nat /\ 1 > 0 /\ Len(s.q) > 0
      BY <1>1, <1>5
    <3>2. QED BY <3>1, WriteKeeps
  <2> HIDE DEF u
  <2>5. Sends(u, v, h, U) /\ (u.lastTx = now \/ u.lastTx = s.lastTx)
    BY <2>4 DEF Wrote
  <2> DEFINE x == Trailed(u, rest)
  <2>6. Sends(x, v, h, U) /\ x.lastTx = u.lastTx /\ Len(x.wire) >= Len(u.wire)
    BY <2>2, <2>5, TrailKeeps
  <2> HIDE DEF x
  <2>7. Batch - 1 \in Nat /\ t = WriteBatch(x, Batch - 1)
    BY <1>1, <2>3 DEF x
  <2>8. Wrote(x, t, v, h, U)
    BY <2>6, <2>7, WriteKeeps
  <2>9. /\ Sends(t, v, h, U) /\ Len(t.wire) >= Len(x.wire) /\ Len(x.wire) \in Nat
        /\ t.lastTx = now \/ t.lastTx = x.lastTx
    BY <2>8 DEF Wrote
  <2>10. Len(t.wire) > 0
    <3>1. Len(u.wire) \in Nat /\ Len(t.wire) \in Nat
      <4>1. u \in SenderType /\ t \in SenderType
        BY <2>5, <2>9 DEF Sends, Stream
      <4>2. QED BY <4>1, SenderFacts
    <3>2. QED BY <2>4, <2>6, <2>9, <3>1
  <2>11. QED BY <1>5, <2>5, <2>6, <2>9, <2>10
<1>6. QED BY <1>2, <1>3, <1>4, <1>5

LEMMA TimersKeep ==
  ASSUME now \in Nat, NEW v, NEW h, NEW U, Bounds(v, h, U), NEW e, NEW d, Sends(d.s, v, h, U)
  PROVE  /\ Sends(AfterTimers(e, d), v, h, U)
         /\ AfterTimers(e, d).wire = d.s.wire /\ AfterTimers(e, d).lastTx = d.s.lastTx
         /\ AfterTimers(e, d).q = <<>> => ~(now - d.s.lastTx >= KeepAlive)
<1> DEFINE p == Probe(e, d.s)
           t == SendKeepAlive(e, p)
<1>1. 0 \in Nat /\ "ping" \in Kinds \ {"data"} /\ "keepalive" \in Kinds \ {"data"}
  BY DEF Kinds
<1>2. Sends(p, v, h, U) /\ p.wire = d.s.wire /\ p.lastTx = d.s.lastTx
  <2>1. CASE ProbeDue(e)
    <3>1. p = Enqueue(d.s, "ping", <<0>>)
      BY <2>1 DEF Probe
    <3>2. QED BY <1>1, <3>1, OneKeeps
  <2>2. CASE ~ProbeDue(e)
    <3>1. p = d.s
      BY <2>2 DEF Probe
    <3>2. QED BY <3>1
  <2>3. QED BY <2>1, <2>2
<1> HIDE DEF p
<1>3. Sends(t, v, h, U) /\ t.wire = p.wire /\ t.lastTx = p.lastTx /\ (t.q = <<>> => ~(now - p.lastTx >= KeepAlive))
  <2>1. CASE p.q = <<>> /\ now - p.lastTx >= KeepAlive
    <3>1. t = Enqueue(p, "keepalive", <<0>>)
      BY <2>1 DEF SendKeepAlive
    <3>2. QED BY <1>1, <1>2, <3>1, OneKeeps
  <2>2. CASE ~(p.q = <<>> /\ now - p.lastTx >= KeepAlive)
    <3>1. t = p
      BY <2>2 DEF SendKeepAlive
    <3>2. QED BY <1>2, <2>2, <3>1
  <2>3. QED BY <2>1, <2>2
<1>4. AfterTimers(e, d) = t
  BY DEF AfterTimers, p
<1> HIDE DEF t
<1>5. QED BY <1>2, <1>3, <1>4

------------------------------------------------------------------------------
\* A turn, seen from its own direction and from the peer's

Values(xs) == {xs[i] : i \in 1..Len(xs)}
Rising(xs) == \A i, j \in 1..Len(xs) : i < j => xs[i] < xs[j]

\* The delay limit and a burst of n packets.
LEMMA BurstKeeps ==
  ASSUME now \in Nat, NEW v, NEW h, NEW U, Bounds(v, h, U), NEW s, Sends(s, v, h, U), NEW n \in Nat,
         NEW r, r = Enqueue(Expire(s), "data", [i \in 1..n |-> v + i])
  PROVE  /\ Sends(r, v + n, h, U) /\ r.wire = s.wire /\ r.lastTx = s.lastTx
         /\ Bounds(v + n, h, U)
<1> DEFINE b == [i \in 1..n |-> v + i]
           x == Expire(s)
<1>1. v \in Nat /\ h \in Nat /\ U \subseteq Nat /\ \A u \in U : u <= v
  BY DEF Bounds
<1>2. Sends(x, v, h, U) /\ x.wire = s.wire /\ x.lastTx = s.lastTx
  BY ExpireKeeps
<1>3. b \in Seq(Nat) /\ Len(b) = n /\ \A i \in 1..n : b[i] = v + i
  BY <1>1
<1> HIDE DEF b, x
<1>4. News("data", b, v, v + n)
  <2>1. "data" \in Kinds /\ v + n \in Nat /\ v <= v + n
    BY <1>1 DEF Kinds
  <2>2. \A i \in 1..Len(b) : v < b[i] /\ b[i] <= v + n
    BY <1>1, <1>3
  <2>3. \A i, j \in 1..Len(b) : i < j => b[i] < b[j]
    BY <1>1, <1>3
  <2>4. QED BY <1>3, <2>1, <2>2, <2>3 DEF News
<1>5. Bounds(v + n, h, U)
  <2>1. v + n \in Nat /\ \A u \in U : u <= v + n
    BY <1>1
  <2>2. QED BY <1>1, <2>1 DEF Bounds
<1>6. r = Enqueue(x, "data", b)
  BY DEF x, b
<1>7. Sends(r, v + n, h, U) /\ r.wire = x.wire /\ r.lastTx = x.lastTx
  BY <1>2, <1>4, <1>6, EnqueueKeeps
<1>8. QED BY <1>2, <1>5, <1>7

\* What a stream brings.
LEMMA StreamIncoming ==
  ASSUME NEW v, NEW h, NEW U, Bounds(v, h, U), NEW s, Stream(s, v, h, U)
  PROVE  Incoming(s.wire, Carried(s), v, h, U)
<1>1. s \in SenderType /\ InOrder(s) /\ Fresh(Carried(s), v, h, U)
  BY DEF Stream
<1>2. /\ s.wire \in Seq(Records \cup Rests) /\ Carried(s) \subseteq Records
      /\ \A x : x \in Carried(s) <=>
           \/ \E i \in 1..Len(s.wire) : IsRec(s.wire[i]) /\ x = s.wire[i]
           \/ \E i \in 1..Len(s.q) : x = OnWire(s.q[i])
           \/ s.kept # NoWrite /\ x = s.kept.rec
  BY <1>1, SenderFacts
<1>3. \A i \in 1..Len(s.wire) : IsRec(s.wire[i]) => s.wire[i] \in Carried(s)
  BY <1>2
<1>4. \A i, j \in 1..Len(s.wire) :
        i < j /\ IsRec(s.wire[i]) /\ IsRec(s.wire[j]) => s.wire[i].seq < s.wire[j].seq
  BY <1>1 DEF InOrder
<1>5. QED BY <1>1, <1>2, <1>3, <1>4 DEF Incoming

\* The sender whose first k items have arrived.
Arrived(s, k) == [s EXCEPT !.wire = SubSeq(s.wire, k + 1, Len(s.wire))]

LEMMA ArrivedKeeps ==
  ASSUME NEW v, NEW h, NEW U, Bounds(v, h, U), NEW s, Stream(s, v, h, U), NEW k \in 0..Len(s.wire),
         NEW top \in Nat, NEW out \in Seq(Nat), Heard(top, out, s.wire, k, Carried(s), v, h, U),
         NEW r, r = Arrived(s, k)
  PROVE  /\ Bounds(v, top, U \cup Values(out)) /\ Stream(r, v, top, U \cup Values(out))
         /\ Sends(s, v, h, U) => Sends(r, v, top, U \cup Values(out))
         /\ AllRec(s.wire) => AllRec(r.wire)
         /\ r.lastTx = s.lastTx /\ (r.wire = <<>> <=> k = Len(s.wire))
<1> DEFINE t == s.wire
           a == SubSeq(t, k + 1, Len(t))
           V == U \cup Values(out)
<1>1. s \in SenderType /\ InOrder(s) /\ Fresh(Carried(s), v, h, U)
  BY DEF Stream
<1>2. t \in Seq(Records \cup Rests) /\ Len(t) \in Nat
  BY <1>1, SenderFacts
<1>3. /\ a \in Seq(Records \cup Rests) /\ Len(a) = Len(t) - k /\ Len(t) - k \in Nat /\ k \in Nat
      /\ \A i \in 1..Len(a) : a[i] = t[i + k] /\ i + k \in 1..Len(t)
  <2>1. k \in 0..Len(t)
    OBVIOUS
  <2> HIDE DEF t
  <2>2. QED BY <1>2, <2>1, Suffix
<1>4. r = [s EXCEPT !.wire = a]
  BY DEF Arrived
<1>a. a = <<>> <=> k = Len(t)
  <2> HIDE DEF a, t
  <2>1. QED BY <1>2, <1>3
<1> HIDE DEF a
<1>5. r \in SenderType /\ r.wire = a /\ r.q = s.q /\ r.kept = s.kept /\ r.next = s.next /\ r.lastTx = s.lastTx
  BY <1>1, <1>3, <1>4 DEF SenderType
<1>6. \A y : y \in Carried(s) <=>
        \/ \E i \in 1..Len(t) : IsRec(t[i]) /\ y = t[i]
        \/ \E i \in 1..Len(s.q) : y = OnWire(s.q[i])
        \/ s.kept # NoWrite /\ y = s.kept.rec
  BY <1>1, SenderFacts
<1>7. \A x : x \in Carried(r) <=>
        \/ \E i \in 1..Len(a) : IsRec(a[i]) /\ x = a[i]
        \/ \E i \in 1..Len(s.q) : x = OnWire(s.q[i])
        \/ s.kept # NoWrite /\ x = s.kept.rec
  <2>1. \A x : x \in Carried(r) <=>
          \/ \E i \in 1..Len(r.wire) : IsRec(r.wire[i]) /\ x = r.wire[i]
          \/ \E i \in 1..Len(r.q) : x = OnWire(r.q[i])
          \/ r.kept # NoWrite /\ x = r.kept.rec
    BY <1>5, SenderFacts
  <2>2. QED BY <1>5, <2>1
<1>8. \A i \in 1..Len(s.q) : OnWire(s.q[i]).seq = s.q[i].seq
  BY <1>1, SenderFacts
<1>9. ASSUME NEW x \in Carried(r) PROVE x \in Carried(s) /\ After(t, k, x)
  <2>0. \A j \in 1..k : j \in 1..Len(t)
    BY <1>2, <1>3
  <2>1. CASE \E i \in 1..Len(a) : IsRec(a[i]) /\ x = a[i]
    <3>1. PICK i \in 1..Len(a) : IsRec(a[i]) /\ x = a[i]
      BY <2>1
    <3>2. x = t[i + k] /\ i + k \in 1..Len(t) /\ IsRec(t[i + k]) /\ \A j \in 1..k : j < i + k
      BY <1>3, <3>1
    <3>3. \A j \in 1..k : IsRec(t[j]) => t[j].seq < x.seq
      BY <1>1, <2>0, <3>2 DEF InOrder
    <3>4. QED BY <1>6, <3>2, <3>3 DEF After
  <2>2. CASE \E i \in 1..Len(s.q) : x = OnWire(s.q[i])
    <3>1. PICK i \in 1..Len(s.q) : x = OnWire(s.q[i])
      BY <2>2
    <3>2. x.seq = s.q[i].seq
      BY <1>8, <3>1
    <3>3. \A j \in 1..k : IsRec(t[j]) => t[j].seq < x.seq
      BY <1>1, <2>0, <3>2 DEF InOrder
    <3>4. QED BY <1>6, <3>1, <3>3 DEF After
  <2>3. CASE s.kept # NoWrite /\ x = s.kept.rec
    <3>1. \A j \in 1..k : IsRec(t[j]) => t[j].seq < x.seq
      BY <1>1, <2>0, <2>3 DEF InOrder
    <3>2. QED BY <1>6, <2>3, <3>1 DEF After
  <2>4. QED BY <1>7, <2>1, <2>2, <2>3
<1>10. InOrder(r)
  <2>1. \A i, j \in 1..Len(a) : i < j => i + k < j + k
    BY <1>3
  <2>2. \A i, j \in 1..Len(a) : i < j /\ IsRec(a[i]) /\ IsRec(a[j]) => a[i].seq < a[j].seq
    BY <1>1, <1>3, <2>1 DEF InOrder
  <2>3. \A i \in 1..Len(a), j \in 1..Len(s.q) : IsRec(a[i]) => a[i].seq < s.q[j].seq
    BY <1>1, <1>3 DEF InOrder
  <2>4. s.kept # NoWrite => \A i \in 1..Len(a) : IsRec(a[i]) => a[i].seq < s.kept.rec.seq
    BY <1>1, <1>3 DEF InOrder
  <2>5. QED BY <1>1, <1>5, <2>2, <2>3, <2>4 DEF InOrder
<1>11. Fresh(Carried(r), v, top, V)
  <2>1. ASSUME NEW x \in Carried(r)
        PROVE  top < x.seq /\ (x.kind = "data" => x.val <= v /\ \A u \in V : u < x.val)
    <3>1. x \in Carried(s) /\ After(t, k, x)
      BY <1>9
    <3>2. top < x.seq /\ (x.kind = "data" => \A m \in 1..Len(out) : out[m] < x.val)
      BY <3>1 DEF Heard
    <3>3. x.kind = "data" => x.val <= v /\ \A u \in U : u < x.val
      BY <1>1, <3>1 DEF Fresh
    <3>4. QED BY <3>2, <3>3 DEF Values
  <2>2. \A x, y \in Carried(r) : x.kind = "data" /\ y.kind = "data" /\ x.seq < y.seq => x.val < y.val
    BY <1>1, <1>9 DEF Fresh
  <2> HIDE DEF V
  <2>3. QED BY <2>1, <2>2 DEF Fresh
<1>12. Bounds(v, top, V)
  <2>1. v \in Nat /\ U \subseteq Nat /\ \A u \in U : u <= v
    BY DEF Bounds
  <2>2. \A m \in 1..Len(out) : out[m] \in Nat /\ out[m] <= v
    BY DEF Heard
  <2>3. V \subseteq Nat /\ \A u \in V : u <= v
    BY <2>1, <2>2 DEF Values
  <2>4. QED BY <2>1, <2>3 DEF Bounds
<1>13. Stream(r, v, top, V)
  BY <1>5, <1>10, <1>11 DEF Stream
<1>14. Sends(s, v, h, U) => Sends(r, v, top, V)
  <2> SUFFICES ASSUME Sends(s, v, h, U) PROVE Sends(r, v, top, V)
    OBVIOUS
  <2>1. h < s.next /\ Below(Carried(s), s.next) /\ s.next \in Nat
    <3>1. s.next \in Nat
      BY <1>1, SenderFacts
    <3>2. QED BY <3>1 DEF Sends
  <2>2. top < s.next
    BY <2>1 DEF Heard
  <2>3. Below(Carried(r), s.next)
    BY <1>9, <2>1 DEF Below
  <2>4. QED BY <1>5, <1>13, <2>2, <2>3 DEF Sends
<1>15. AllRec(s.wire) => AllRec(r.wire)
  BY <1>3, <1>5 DEF AllRec
<1>16. r.lastTx = s.lastTx /\ (r.wire = <<>> <=> k = Len(s.wire))
  BY <1>5, <1>a
<1>17. QED BY <1>12, <1>13, <1>14, <1>15, <1>16

\* What is delivered stays in order.
LEMMA DeliveredRising ==
  ASSUME NEW a \in Seq(Nat), NEW b \in Seq(Nat), Rising(a), Rising(b),
         \A i \in 1..Len(b) : \A u \in Values(a) : u < b[i]
  PROVE  Rising(a \o b) /\ a \o b \in Seq(Nat) /\ Values(a \o b) = Values(a) \cup Values(b)
<1> DEFINE c == a \o b
<1>1. /\ c \in Seq(Nat) /\ Len(c) = Len(a) + Len(b) /\ Len(a) \in Nat /\ Len(b) \in Nat
      /\ \A i \in 1..Len(a) : c[i] = a[i]
      /\ \A i \in 1..Len(b) : c[Len(a) + i] = b[i]
      /\ \A i \in 1..(Len(a) + Len(b)) :
           (i \in 1..Len(a) /\ c[i] = a[i]) \/ (i - Len(a) \in 1..Len(b) /\ c[i] = b[i - Len(a)])
  BY Concat
<1> HIDE DEF c
<1>2. Values(c) = Values(a) \cup Values(b)
  <2>1. \A i \in 1..Len(a) : i \in 1..Len(c)
    BY <1>1
  <2>2. \A i \in 1..Len(b) : Len(a) + i \in 1..Len(c)
    BY <1>1
  <2>3. ASSUME NEW u \in Values(c) PROVE u \in Values(a) \cup Values(b)
    <3>1. PICK i \in 1..Len(c) : u = c[i]
      BY DEF Values
    <3>2. QED BY <1>1, <3>1 DEF Values
  <2>4. ASSUME NEW u \in Values(a) PROVE u \in Values(c)
    <3>1. PICK i \in 1..Len(a) : u = a[i]
      BY DEF Values
    <3>2. QED BY <1>1, <2>1, <3>1 DEF Values
  <2>5. ASSUME NEW u \in Values(b) PROVE u \in Values(c)
    <3>1. PICK i \in 1..Len(b) : u = b[i]
      BY DEF Values
    <3>2. Len(a) + i \in 1..Len(c) /\ u = c[Len(a) + i]
      BY <1>1, <2>2, <3>1
    <3>3. QED BY <3>2 DEF Values
  <2>6. QED BY <2>3, <2>4, <2>5
<1>3. Rising(c)
  <2> SUFFICES ASSUME NEW i \in 1..Len(c), NEW j \in 1..Len(c), i < j PROVE c[i] < c[j]
    BY DEF Rising
  <2>1. CASE j \in 1..Len(a) /\ c[j] = a[j]
    <3>1. i \in 1..Len(a)
      BY <1>1, <2>1
    <3>2. QED BY <1>1, <2>1, <3>1 DEF Rising
  <2>2. CASE j - Len(a) \in 1..Len(b) /\ c[j] = b[j - Len(a)]
    <3>1. CASE i \in 1..Len(a) /\ c[i] = a[i]
      BY <2>2, <3>1 DEF Values
    <3>2. CASE i - Len(a) \in 1..Len(b) /\ c[i] = b[i - Len(a)]
      <4>1. i - Len(a) < j - Len(a)
        BY <1>1
      <4>2. QED BY <2>2, <3>2, <4>1 DEF Rising
    <3>3. QED BY <1>1, <3>1, <3>2
  <2>3. QED BY <1>1, <2>1, <2>2
<1>4. QED BY <1>1, <1>2, <1>3 DEF c

------------------------------------------------------------------------------
\* The invariant

\* One direction: sender s, receiver r, v packets taken and out delivered, the
\* sender's loop up or not, a write repeated with another buffer or not.
Way(s, r, v, out, up, t) ==
  /\ r \in ReceiverType /\ out \in Seq(Nat) /\ Rising(out)
  /\ Bounds(v, r.highest, Values(out)) /\ Stream(s, v, r.highest, Values(out))
  /\ up => Sends(s, v, r.highest, Values(out))
  /\ ~t => AllRec(s.wire) /\ ~r.rest

Direction(e) == Way(snd[e], rcv[Peer(e)], taken[e], delivered[Peer(e)], Up(e), torn[e])

Blame(e) == why[e] # "replay" /\ (why[e] = "mismatch" => torn[Peer(e)])

Reasons == {"none", "mismatch", "replay", "closed", "bad write retry", "idle timeout", "failed"}

TlsTypes ==
  /\ now \in Nat /\ turned \subseteq Ends /\ path \in {"good", "stalled"} /\ stalls \in BOOLEAN
  /\ snd \in [Ends -> SenderType] /\ rcv \in [Ends -> ReceiverType]
  /\ taken \in [Ends -> Nat] /\ delivered \in [Ends -> Seq(Nat)]
  /\ torn \in [Ends -> BOOLEAN] /\ why \in [Ends -> Reasons]

StreamInv == TlsTypes /\ \A e \in Ends : Direction(e) /\ Blame(e)

LEMMA PeerFacts ==
  ASSUME NEW e \in Ends
  PROVE  Peer(e) \in Ends /\ Peer(Peer(e)) = e /\ Peer(e) # e /\ \A f \in Ends : f = e \/ f = Peer(e)
BY DEF Ends, Peer

\* A new loop's sender, with what an older one left on the wire.
Left(s) == [FreshSender EXCEPT !.wire = s.wire]

LEMMA LeftKeeps ==
  ASSUME NEW v, NEW h, NEW U, NEW s, Stream(s, v, h, U), NEW r, r = Left(s)
  PROVE  Stream(r, v, h, U) /\ r.wire = s.wire
<1> DEFINE a == s.wire
<1>1. s \in SenderType /\ InOrder(s) /\ Fresh(Carried(s), v, h, U)
  BY DEF Stream
<1>2. a \in Seq(Records \cup Rests)
  BY <1>1, SenderFacts
<1>3. r = [FreshSender EXCEPT !.wire = a]
  BY DEF Left
<1> HIDE DEF a
<1>4. r = [q |-> <<>>, kept |-> NoWrite, wire |-> a, next |-> 1, lastTx |-> 1]
  BY <1>3 DEF FreshSender
<1>5. r.q = <<>> /\ r.kept = NoWrite /\ r.wire = a
  BY <1>4
<1>6. r \in SenderType
  <2>1. NoWrite \in Repeats
    BY DEF Repeats
  <2>2. QED BY <1>2, <1>4, <2>1 DEF SenderType
<1>7. Carried(r) \subseteq Carried(s)
  <2>1. \A y : y \in Carried(s) <=>
          \/ \E i \in 1..Len(s.wire) : IsRec(s.wire[i]) /\ y = s.wire[i]
          \/ \E i \in 1..Len(s.q) : y = OnWire(s.q[i])
          \/ s.kept # NoWrite /\ y = s.kept.rec
    BY <1>1, SenderFacts
  <2>2. \A x : x \in Carried(r) <=>
          \/ \E i \in 1..Len(r.wire) : IsRec(r.wire[i]) /\ x = r.wire[i]
          \/ \E i \in 1..Len(r.q) : x = OnWire(r.q[i])
          \/ r.kept # NoWrite /\ x = r.kept.rec
    BY <1>6, SenderFacts
  <2>3. Len(r.q) = 0
    BY <1>5
  <2>4. \A x \in Carried(r) : \E i \in 1..Len(s.wire) : IsRec(s.wire[i]) /\ x = s.wire[i]
    BY <1>5, <2>2, <2>3 DEF a
  <2>5. QED BY <2>1, <2>4
<1>8. InOrder(r)
  <2>1. Len(r.q) = 0
    BY <1>5
  <2>2. \A i, j \in 1..Len(r.wire) :
          i < j /\ IsRec(r.wire[i]) /\ IsRec(r.wire[j]) => r.wire[i].seq < r.wire[j].seq
    BY <1>1, <1>5 DEF InOrder, a
  <2>3. QED BY <1>5, <2>1, <2>2 DEF InOrder
<1>9. Fresh(Carried(r), v, h, U)
  BY <1>1, <1>7, FreshSubset
<1>10. QED BY <1>5, <1>6, <1>8, <1>9 DEF Stream, a

\* A decoder that has heard nothing expects less.
LEMMA ForgetKeeps ==
  ASSUME NEW v, NEW h, NEW U, Bounds(v, h, U), NEW s
  PROVE  /\ Bounds(v, 0, U) /\ (Stream(s, v, h, U) => Stream(s, v, 0, U))
         /\ (Sends(s, v, h, U) => Sends(s, v, 0, U))
<1>1. h \in Nat
  BY DEF Bounds
<1>2. Stream(s, v, h, U) => Stream(s, v, 0, U)
  <2> SUFFICES ASSUME Stream(s, v, h, U) PROVE Stream(s, v, 0, U)
    OBVIOUS
  <2>1. s \in SenderType /\ Fresh(Carried(s), v, h, U) /\ InOrder(s)
    BY DEF Stream
  <2>2. Carried(s) \subseteq Records
    BY <2>1, SenderFacts
  <2>3. \A x \in Carried(s) : x.seq \in Nat /\ h < x.seq
    BY <2>1, <2>2 DEF Fresh, Records
  <2>4. \A x \in Carried(s) : 0 < x.seq
    BY <1>1, <2>3
  <2>5. Fresh(Carried(s), v, 0, U)
    BY <2>1, <2>4 DEF Fresh
  <2>6. QED BY <2>1, <2>5 DEF Stream
<1>3. Sends(s, v, h, U) => Sends(s, v, 0, U)
  <2> SUFFICES ASSUME Sends(s, v, h, U) PROVE Sends(s, v, 0, U)
    OBVIOUS
  <2>1. Stream(s, v, h, U) /\ h < s.next /\ Below(Carried(s), s.next)
    BY DEF Sends
  <2>2. s.next \in Nat
    BY <2>1, SenderFacts DEF Stream
  <2>3. 0 < s.next
    BY <1>1, <2>1, <2>2
  <2>4. QED BY <1>2, <2>1, <2>3 DEF Sends
<1>4. QED BY <1>2, <1>3 DEF Bounds

\* Reading the first k items of the peer's wire.
Reads(e, n, k, d) ==
  /\ d \in Decoding
  /\ Bounds(taken[e] + n, rcv[Peer(e)].highest, Values(delivered[Peer(e)]))
  /\ Sends(d.s, taken[e] + n, rcv[Peer(e)].highest, Values(delivered[Peer(e)]))
  /\ d.s.wire = snd[e].wire /\ d.s.lastTx = snd[e].lastTx
  /\ d.err # "replay" /\ (d.err = "mismatch" => torn[Peer(e)])
  /\ d.r.lastRx = (IF k = 0 THEN rcv[e].lastRx ELSE now)
  /\ d.err = "none" =>
       Way(Arrived(snd[Peer(e)], k), d.r, taken[Peer(e)], delivered[e] \o d.out,
           Up(Peer(e)), torn[Peer(e)])

LEMMA ReadFacts ==
  ASSUME StreamInv, NEW e \in Ends, Up(e), NEW n \in Nat, NEW k \in 0..Len(snd[Peer(e)].wire),
         NEW d, d = AfterRead(e, n, k)
  PROVE  Reads(e, n, k, d)
<1> DEFINE p == Peer(e)
           h == rcv[p].highest
           U == Values(delivered[p])
           z == snd[p]
           r == rcv[e]
           s == snd[e]
           w == taken[e] + n
           x == Enqueue(Expire(s), "data", [i \in 1..n |-> taken[e] + i])
           v == taken[p]
           V == Values(delivered[e])
<1>1. p \in Ends /\ Peer(p) = e
  BY PeerFacts
<1>2. Way(s, rcv[p], taken[e], delivered[p], Up(e), torn[e])
      /\ Way(z, r, v, delivered[e], Up(p), torn[p]) /\ torn[p] \in BOOLEAN
  BY <1>1 DEF StreamInv, Direction, TlsTypes
<1>3. now \in Nat
  BY DEF StreamInv, TlsTypes
<1>4. Sends(s, taken[e], h, U) /\ Bounds(taken[e], h, U)
  BY <1>2 DEF Way
<1>5. /\ r \in ReceiverType /\ delivered[e] \in Seq(Nat) /\ Rising(delivered[e])
      /\ Bounds(v, r.highest, V) /\ Stream(z, v, r.highest, V)
      /\ Up(p) => Sends(z, v, r.highest, V)
      /\ ~torn[p] => AllRec(z.wire) /\ ~r.rest
  BY <1>2 DEF Way
<1>6. d = ReadAll(x, r, SubSeq(z.wire, 1, k))
  BY DEF AfterRead
<1>7. k \in 0..Len(z.wire)
  OBVIOUS
<1> HIDE DEF p, h, U, z, r, s, v, V
<1>8. Sends(x, w, h, U) /\ x.wire = s.wire /\ x.lastTx = s.lastTx /\ Bounds(w, h, U)
  BY <1>3, <1>4, BurstKeeps
<1> HIDE DEF x, w
<1>9. Incoming(z.wire, Carried(z), v, r.highest, V)
  BY <1>5, StreamIncoming
<1>10. PICK l \in ReceiverType :
         /\ l.highest = r.highest /\ l.rest = r.rest /\ l.lastRx = (IF k = 0 THEN r.lastRx ELSE now)
         /\ Listened(d, k, x, l, z.wire, Carried(z), v, V, w, h, U)
  <2> DEFINE W == z.wire
             S == Carried(z)
             xs == SubSeq(W, 1, k)
             Q(l) == /\ l.highest = r.highest /\ l.rest = r.rest
                     /\ l.lastRx = (IF k = 0 THEN r.lastRx ELSE now)
                     /\ Listened(ReadAll(x, r, xs), k, x, l, W, S, v, V, w, h, U)
  <2>1. r \in ReceiverType /\ k \in 0..Len(W) /\ Incoming(W, S, v, r.highest, V)
        /\ Bounds(w, h, U) /\ Sends(x, w, h, U)
    BY <1>5, <1>7, <1>8, <1>9
  <2>2. d = ReadAll(x, r, xs)
    BY <1>6
  <2> HIDE DEF W, S
  <2>3. \E l \in ReceiverType : Q(l)
    BY <1>3, <2>1, ReadKeeps
  <2> HIDE DEF xs
  <2>4. QED BY <2>2, <2>3 DEF W, S
<1>11. /\ d \in Decoding /\ Own(d.s, x, w, h, U) /\ d.err # "replay" /\ d.r.lastRx = l.lastRx
       /\ d.err = "none" => Heard(d.r.highest, d.out, z.wire, k, Carried(z), v, r.highest, V)
       /\ ~r.rest /\ (\A j \in 1..k : IsRec(z.wire[j])) => d.err = "none" /\ ~d.r.rest
  BY <1>10 DEF Listened
<1>12. Sends(d.s, w, h, U) /\ d.s.wire = s.wire /\ d.s.lastTx = s.lastTx
  BY <1>8, <1>11 DEF Own
<1>13. ~torn[p] => d.err = "none" /\ ~d.r.rest
  <2>1. Len(z.wire) \in Nat
    BY <1>5, SenderFacts DEF Stream
  <2>2. \A j \in 1..k : j \in 1..Len(z.wire)
    BY <1>7, <2>1
  <2>3. QED BY <1>5, <1>11, <2>2 DEF AllRec
<1>14. d.err = "mismatch" => torn[p]
  BY <1>13
<1>15. d.err = "none" => Way(Arrived(z, k), d.r, v, delivered[e] \o d.out, Up(p), torn[p])
  <2> SUFFICES ASSUME d.err = "none"
               PROVE  Way(Arrived(z, k), d.r, v, delivered[e] \o d.out, Up(p), torn[p])
    OBVIOUS
  <2> DEFINE y == Arrived(z, k)
             W == V \cup Values(d.out)
             c == delivered[e] \o d.out
  <2>1. d.r \in ReceiverType /\ d.r.highest \in Nat /\ d.out \in Seq(Nat)
    BY <1>11 DEF Decoding, ReceiverType
  <2>2. Heard(d.r.highest, d.out, z.wire, k, Carried(z), v, r.highest, V)
    BY <1>11
  <2>3. /\ Bounds(v, d.r.highest, W) /\ Stream(y, v, d.r.highest, W)
        /\ Sends(z, v, r.highest, V) => Sends(y, v, d.r.highest, W)
        /\ AllRec(z.wire) => AllRec(y.wire)
    <3> DEFINE top == d.r.highest
               out == d.out
               hr == r.highest
    <3>1. top \in Nat /\ out \in Seq(Nat) /\ Heard(top, out, z.wire, k, Carried(z), v, hr, V)
      BY <2>1, <2>2
    <3>2. Bounds(v, hr, V) /\ Stream(z, v, hr, V) /\ y = Arrived(z, k) /\ W = V \cup Values(out)
      BY <1>5
    <3> HIDE DEF top, out, hr, W, y
    <3>3. /\ Bounds(v, top, V \cup Values(out)) /\ Stream(y, v, top, V \cup Values(out))
          /\ Sends(z, v, hr, V) => Sends(y, v, top, V \cup Values(out))
          /\ AllRec(z.wire) => AllRec(y.wire)
      BY <1>7, <3>1, <3>2, ArrivedKeeps, Zenon
    <3>4. QED BY <3>2, <3>3, Zenon DEF top, hr
  <2>4. Rising(c) /\ c \in Seq(Nat) /\ Values(c) = W
    <3>1. Rising(d.out) /\ \A i \in 1..Len(d.out) : \A u \in Values(delivered[e]) : u < d.out[i]
      BY <2>2 DEF Heard, Rising, V
    <3>2. QED BY <1>5, <2>1, <3>1, DeliveredRising DEF V
  <2> HIDE DEF y, W, c
  <2>5. Way(y, d.r, v, c, Up(p), torn[p])
    BY <1>5, <1>13, <2>1, <2>3, <2>4 DEF Way
  <2>6. QED BY <2>5 DEF y, c
<1>16. d.r.lastRx = (IF k = 0 THEN r.lastRx ELSE now)
  BY <1>10, <1>11
<1>17. QED BY <1>8, <1>11, <1>12, <1>14, <1>15, <1>16 DEF Reads, p, h, U, z, r, s, v, w

\* The loop ends; its state goes, what the socket took stays.
LEMMA ThrowKeeps ==
  ASSUME StreamInv, NEW e \in Ends, NEW reason \in Reasons, reason # "none", reason # "replay",
         reason = "mismatch" => torn[Peer(e)], Throw(e, reason)
  PROVE  StreamInv'
<1> DEFINE p == Peer(e)
           x == Left(snd[e])
<1>1. p \in Ends /\ Peer(p) = e /\ p # e /\ \A f \in Ends : f = e \/ f = p
  BY PeerFacts
<1>2. /\ now \in Nat /\ turned \subseteq Ends /\ path \in {"good", "stalled"} /\ stalls \in BOOLEAN
      /\ snd \in [Ends -> SenderType] /\ rcv \in [Ends -> ReceiverType]
      /\ taken \in [Ends -> Nat] /\ delivered \in [Ends -> Seq(Nat)]
      /\ torn \in [Ends -> BOOLEAN] /\ why \in [Ends -> Reasons]
  BY DEF StreamInv, TlsTypes
<1>3. /\ why' = [why EXCEPT ![e] = reason] /\ snd' = [snd EXCEPT ![e] = x]
      /\ rcv' = [rcv EXCEPT ![e] = FreshReceiver] /\ turned' = turned \ {e}
      /\ now' = now /\ path' = path /\ stalls' = stalls /\ taken' = taken
      /\ delivered' = delivered /\ torn' = torn
  BY DEF Throw, Left
<1>4. /\ Way(snd[e], rcv[p], taken[e], delivered[p], Up(e), torn[e])
      /\ Way(snd[p], rcv[e], taken[p], delivered[e], Up(p), torn[p])
  BY <1>1 DEF StreamInv, Direction
<1>5. Stream(x, taken[e], rcv[p].highest, Values(delivered[p])) /\ x.wire = snd[e].wire /\ x \in SenderType
  <2>1. Stream(snd[e], taken[e], rcv[p].highest, Values(delivered[p]))
    BY <1>4 DEF Way
  <2>2. Stream(x, taken[e], rcv[p].highest, Values(delivered[p])) /\ x.wire = snd[e].wire
    BY <2>1, LeftKeeps
  <2> HIDE DEF x
  <2>3. QED BY <2>2 DEF Stream
<1> HIDE DEF x, p
<1>6. FreshReceiver \in ReceiverType /\ FreshReceiver.highest = 0 /\ ~FreshReceiver.rest
  BY DEF FreshReceiver, ReceiverType
<1>7. /\ snd'[e] = x /\ snd'[p] = snd[p] /\ rcv'[e] = FreshReceiver /\ rcv'[p] = rcv[p]
      /\ why'[e] = reason /\ why'[p] = why[p]
  BY <1>1, <1>2, <1>3
<1>8. TlsTypes'
  BY <1>2, <1>3, <1>5, <1>6 DEF TlsTypes
<1>9. Way(x, rcv[p], taken[e], delivered[p], FALSE, torn[e])
  BY <1>4, <1>5 DEF Way
<1>10. Way(snd[p], FreshReceiver, taken[p], delivered[e], Up(p), torn[p])
  <2>1. Bounds(taken[p], rcv[e].highest, Values(delivered[e]))
    BY <1>4 DEF Way
  <2>2. /\ Bounds(taken[p], 0, Values(delivered[e]))
        /\ Stream(snd[p], taken[p], rcv[e].highest, Values(delivered[e])) =>
             Stream(snd[p], taken[p], 0, Values(delivered[e]))
        /\ Sends(snd[p], taken[p], rcv[e].highest, Values(delivered[e])) =>
             Sends(snd[p], taken[p], 0, Values(delivered[e]))
    BY <2>1, ForgetKeeps
  <2>3. QED BY <1>4, <1>6, <2>2 DEF Way
<1>11. Direction(e)'
  <2>1. Up(e)' = FALSE
    BY <1>7 DEF Up
  <2>2. QED BY <1>3, <1>7, <1>9, <2>1 DEF Direction, p
<1>12. Direction(p)'
  <2>1. Up(p)' = Up(p)
    BY <1>7 DEF Up
  <2>2. Direction(p)' = Way(snd'[p], rcv'[e], taken'[p], delivered'[e], Up(p)', torn'[p])
    BY <1>1 DEF Direction
  <2>3. QED BY <1>3, <1>7, <1>10, <2>1, <2>2
<1>13. Blame(e)' /\ Blame(p)'
  <2>1. Blame(p)
    BY <1>1 DEF StreamInv
  <2>2. Blame(e)'
    BY <1>3, <1>7 DEF Blame
  <2>3. Blame(p)'
    BY <1>3, <1>7, <2>1 DEF Blame
  <2>4. QED BY <2>2, <2>3
<1>14. QED BY <1>1, <1>8, <1>11, <1>12, <1>13 DEF StreamInv

\* What a turn that goes through leaves behind.
LEMMA TurnOutcome ==
  ASSUME StreamInv, NEW e \in Ends, Up(e), NEW n \in Nat, NEW k \in 0..Len(snd[Peer(e)].wire),
         NEW d, d = AfterRead(e, n, k), d.err = "none",
         NEW s, s = AfterTimers(e, d), NEW t \in Flushed(s)
  PROVE  /\ Way(t, rcv[Peer(e)], taken[e] + n, delivered[Peer(e)], TRUE,
                torn[e] \/ (s.q # <<>> /\ OtherBuffer(s)))
         /\ Way(Arrived(snd[Peer(e)], k), d.r, taken[Peer(e)], delivered[e] \o d.out,
                Up(Peer(e)), torn[Peer(e)])
<1> DEFINE p == Peer(e)
           h == rcv[p].highest
           U == Values(delivered[p])
           w == taken[e] + n
           b == torn[e] \/ (s.q # <<>> /\ OtherBuffer(s))
<1>1. p \in Ends /\ Peer(p) = e
  BY PeerFacts
<1>2. now \in Nat
  BY DEF StreamInv, TlsTypes
<1>3. /\ Bounds(w, h, U) /\ Sends(d.s, w, h, U) /\ d.s.wire = snd[e].wire
      /\ Way(Arrived(snd[p], k), d.r, taken[p], delivered[e] \o d.out, Up(p), torn[p])
  <2>1. Reads(e, n, k, d)
    BY ReadFacts
  <2>2. QED BY <2>1 DEF Reads
<1>4. /\ Way(snd[e], rcv[p], taken[e], delivered[p], Up(e), torn[e])
  BY <1>1 DEF StreamInv, Direction
<1> HIDE DEF h, U, w
<1>5. Sends(s, w, h, U) /\ s.wire = snd[e].wire
  BY <1>2, <1>3, TimersKeep
<1>6. Sends(t, w, h, U) /\ ((s.q = <<>> \/ ~OtherBuffer(s)) /\ AllRec(s.wire) => AllRec(t.wire))
  BY <1>2, <1>5, FlushKeeps
<1>7. Way(t, rcv[p], w, delivered[p], TRUE, b)
  <2>1. Stream(t, w, h, U)
    BY <1>6 DEF Sends
  <2>2. ~b => AllRec(t.wire) /\ ~rcv[p].rest
    BY <1>4, <1>5, <1>6 DEF Way
  <2>3. rcv[p] \in ReceiverType /\ delivered[p] \in Seq(Nat) /\ Rising(delivered[p])
    BY <1>4 DEF Way
  <2> HIDE DEF b
  <2>4. QED BY <1>3, <1>6, <2>1, <2>2, <2>3 DEF Way, h, U
<1>8. QED BY <1>3, <1>7 DEF w

\* The assignments of such a turn.
Goes(e, n, k, d, s, t) ==
  /\ snd' = [snd EXCEPT ![e] = t, ![Peer(e)].wire = SubSeq(@, k + 1, Len(@))]
  /\ torn' = [torn EXCEPT ![e] = @ \/ (s.q # <<>> /\ OtherBuffer(s))]
  /\ rcv' = [rcv EXCEPT ![e] = d.r]
  /\ delivered' = [delivered EXCEPT ![e] = @ \o d.out]
  /\ taken' = [taken EXCEPT ![e] = @ + n]
  /\ lastProbe' = IF ProbeDue(e) THEN [lastProbe EXCEPT ![e] = now] ELSE lastProbe
  /\ turned' = IF path = "stalled" \/ k = Len(snd[Peer(e)].wire)
               THEN turned \cup {e} ELSE turned
  /\ why' = IF IdleFor(d.r) THEN [why EXCEPT ![e] = "idle timeout"] ELSE why
  /\ UNCHANGED <<now, path, stalls>>

LEMMA TurnKeeps ==
  ASSUME StreamInv, NEW e \in Ends, Up(e), NEW n \in Nat, NEW k \in 0..Len(snd[Peer(e)].wire),
         NEW d, d = AfterRead(e, n, k), d.err = "none",
         NEW s, s = AfterTimers(e, d), NEW t \in Flushed(s), Goes(e, n, k, d, s, t)
  PROVE  /\ StreamInv' /\ snd'[e] = t /\ snd'[Peer(e)] = Arrived(snd[Peer(e)], k)
         /\ rcv'[e] = d.r /\ rcv'[Peer(e)] = rcv[Peer(e)] /\ why'[Peer(e)] = why[Peer(e)]
<1> DEFINE p == Peer(e)
           w == taken[e] + n
           z == Arrived(snd[p], k)
           b == torn[e] \/ (s.q # <<>> /\ OtherBuffer(s))
           c == delivered[e] \o d.out
<1>1. p \in Ends /\ Peer(p) = e /\ p # e /\ \A f \in Ends : f = e \/ f = p
  BY PeerFacts
<1>2. /\ now \in Nat /\ turned \subseteq Ends /\ path \in {"good", "stalled"} /\ stalls \in BOOLEAN
      /\ snd \in [Ends -> SenderType] /\ rcv \in [Ends -> ReceiverType]
      /\ taken \in [Ends -> Nat] /\ delivered \in [Ends -> Seq(Nat)]
      /\ torn \in [Ends -> BOOLEAN] /\ why \in [Ends -> Reasons]
  BY DEF StreamInv, TlsTypes
<1>3. Way(t, rcv[p], w, delivered[p], TRUE, b) /\ Way(z, d.r, taken[p], c, Up(p), torn[p])
  BY TurnOutcome
<1>8. t \in SenderType /\ z \in SenderType /\ d.r \in ReceiverType /\ c \in Seq(Nat) /\ w \in Nat /\ b \in BOOLEAN
  <2>1. t \in SenderType
    BY <1>3 DEF Way, Stream
  <2>2. z \in SenderType /\ d.r \in ReceiverType /\ c \in Seq(Nat)
    BY <1>3 DEF Way, Stream
  <2>3. w \in Nat
    BY <1>3 DEF Way, Bounds
  <2>4. b \in BOOLEAN
    BY <1>2
  <2>5. QED BY <2>1, <2>2, <2>3, <2>4
<1>9. snd' = [snd EXCEPT ![e] = t, ![p] = z]
  <2> DEFINE g == SubSeq(snd[p].wire, k + 1, Len(snd[p].wire))
  <2>1. z = [snd[p] EXCEPT !.wire = g]
    BY DEF Arrived
  <2>2. snd' = [snd EXCEPT ![e] = t, ![p].wire = g]
    BY Zenon DEF Goes
  <2> HIDE DEF g, z, p
  <2>3. QED BY <1>1, <1>2, <2>1, <2>2
<1>10. /\ torn' = [torn EXCEPT ![e] = b] /\ delivered' = [delivered EXCEPT ![e] = c]
       /\ taken' = [taken EXCEPT ![e] = w] /\ rcv' = [rcv EXCEPT ![e] = d.r]
       /\ why' \in {[why EXCEPT ![e] = "idle timeout"], why} /\ turned' \in {turned \cup {e}, turned}
       /\ now' = now /\ path' = path /\ stalls' = stalls
  <2>1. torn' = [torn EXCEPT ![e] = b]
    BY DEF Goes
  <2>2. delivered' = [delivered EXCEPT ![e] = c] /\ taken' = [taken EXCEPT ![e] = w]
    BY DEF Goes
  <2>3. rcv' = [rcv EXCEPT ![e] = d.r] /\ now' = now /\ path' = path /\ stalls' = stalls
    BY DEF Goes
  <2>4. why' \in {[why EXCEPT ![e] = "idle timeout"], why}
    BY DEF Goes
  <2>5. turned' \in {turned \cup {e}, turned}
    BY DEF Goes
  <2>6. QED BY <2>1, <2>2, <2>3, <2>4, <2>5
<1> HIDE DEF p, b, z, c, w
<1>11. /\ snd'[e] = t /\ snd'[p] = z /\ rcv'[e] = d.r /\ rcv'[p] = rcv[p] /\ torn'[e] = b /\ torn'[p] = torn[p]
       /\ delivered'[e] = c /\ delivered'[p] = delivered[p] /\ taken'[e] = w /\ taken'[p] = taken[p]
       /\ why'[p] = why[p] /\ why'[e] \in {"idle timeout", why[e]}
  <2>1. snd'[e] = t /\ snd'[p] = z
    BY <1>1, <1>2, <1>9
  <2>2. rcv'[e] = d.r /\ rcv'[p] = rcv[p]
    BY <1>1, <1>2, <1>10
  <2>3. torn'[e] = b /\ torn'[p] = torn[p]
    BY <1>1, <1>2, <1>10
  <2>4. delivered'[e] = c /\ delivered'[p] = delivered[p] /\ taken'[e] = w /\ taken'[p] = taken[p]
    BY <1>1, <1>2, <1>10
  <2>5. why'[p] = why[p] /\ why'[e] \in {"idle timeout", why[e]}
    BY <1>1, <1>2, <1>10
  <2>6. QED BY <2>1, <2>2, <2>3, <2>4, <2>5
<1>12. TlsTypes'
  <2>1. snd' \in [Ends -> SenderType]
    BY <1>1, <1>2, <1>8, <1>9
  <2>2. rcv' \in [Ends -> ReceiverType]
    BY <1>2, <1>8, <1>10
  <2>3. torn' \in [Ends -> BOOLEAN]
    BY <1>2, <1>8, <1>10
  <2>4. delivered' \in [Ends -> Seq(Nat)] /\ taken' \in [Ends -> Nat]
    BY <1>2, <1>8, <1>10
  <2>5. why' \in [Ends -> Reasons] /\ turned' \subseteq Ends
    <3>1. why' \in [Ends -> Reasons]
      <4>1. CASE why' = why
        BY <1>2, <4>1
      <4>2. CASE why' = [why EXCEPT ![e] = "idle timeout"]
        <5> DEFINE i == "idle timeout"
        <5>1. i \in Reasons /\ why' = [why EXCEPT ![e] = i]
          BY <4>2 DEF Reasons
        <5> HIDE DEF i
        <5>2. QED BY <1>2, <5>1
      <4>3. QED BY <1>10, <4>1, <4>2
    <3>2. turned' \subseteq Ends
      BY <1>2, <1>10
    <3>3. QED BY <3>1, <3>2
  <2>6. QED BY <1>2, <1>10, <2>1, <2>2, <2>3, <2>4, <2>5 DEF TlsTypes
<1>13. Direction(e)'
  <2>1. Direction(e)' = Way(snd'[e], rcv'[p], taken'[e], delivered'[p], Up(e)', torn'[e])
    BY DEF Direction, p
  <2>2. Way(t, rcv[p], w, delivered[p], Up(e)', b)
    BY <1>3 DEF Way
  <2>3. QED BY <1>11, <2>1, <2>2
<1>14. Direction(p)'
  <2>1. Direction(p)' = Way(snd'[p], rcv'[e], taken'[p], delivered'[e], Up(p)', torn'[p])
    BY <1>1 DEF Direction
  <2>2. Up(p)' = Up(p)
    BY <1>11 DEF Up
  <2>3. QED BY <1>3, <1>11, <2>1, <2>2
<1>15. Blame(e)' /\ Blame(p)'
  <2>1. Blame(p) /\ Blame(e)
    BY <1>1 DEF StreamInv
  <2>2. why[e] = "none"
    BY DEF Up
  <2>3. Blame(e)'
    BY <1>11, <2>2 DEF Blame
  <2>4. Blame(p)'
    BY <1>1, <1>11, <2>1 DEF Blame, b
  <2>5. QED BY <2>3, <2>4
<1>16. QED BY <1>1, <1>11, <1>12, <1>13, <1>14, <1>15 DEF StreamInv, p, z

\* Every turn throws, and not for a replay, or goes through.
LEMMA TurnCases ==
  ASSUME StreamInv, NEW e \in Ends, Turn(e)
  PROVE  /\ Up(e)
         /\ \/ \E reason \in Reasons :
                 /\ reason # "none" /\ reason # "replay" /\ (reason = "mismatch" => torn[Peer(e)])
                 /\ reason # "idle timeout" /\ Throw(e, reason)
            \/ \E n \in Nat, k \in 0..Len(snd[Peer(e)].wire) :
                 /\ path # "good" => k = 0
                 /\ AfterRead(e, n, k).err = "none"
                 /\ ~Closed(e, k)
                 /\ \E t \in Flushed(AfterTimers(e, AfterRead(e, n, k))) :
                      Goes(e, n, k, AfterRead(e, n, k), AfterTimers(e, AfterRead(e, n, k)), t)
<1>1. Up(e)
  BY DEF Turn
<1>2. PICK n \in 0..(IF e \in Senders THEN Batch ELSE 0),
           k \in 0..(IF path = "good" THEN Len(snd[Peer(e)].wire) ELSE 0) :
        /\ taken[e] + n <= MaxPackets
        /\ \E d \in {AfterRead(e, n, k)} :
             IF d.err # "none" THEN Throw(e, d.err)
             ELSE IF Closed(e, k) THEN Throw(e, "closed")
             ELSE \E s \in {AfterTimers(e, d)} :
               \/ s.q # <<>> /\ OtherBuffer(s) /\ Throw(e, "bad write retry")
               \/ \E t \in Flushed(s) : Goes(e, n, k, d, s, t)
  BY Zenon DEF Turn, Goes
<1> DEFINE d == AfterRead(e, n, k)
           s == AfterTimers(e, d)
<1>3. IF d.err # "none" THEN Throw(e, d.err)
      ELSE IF Closed(e, k) THEN Throw(e, "closed")
      ELSE \/ s.q # <<>> /\ OtherBuffer(s) /\ Throw(e, "bad write retry")
           \/ \E t \in Flushed(s) : Goes(e, n, k, d, s, t)
  BY <1>2
<1>4. n \in Nat /\ k \in 0..Len(snd[Peer(e)].wire) /\ (path # "good" => k = 0)
  <2>1. Batch \in Nat
    BY TlsLoopAssumption
  <2>2. Len(snd[Peer(e)].wire) \in Nat
    <3>1. snd[Peer(e)] \in SenderType
      BY PeerFacts DEF StreamInv, TlsTypes
    <3>2. QED BY <3>1, SenderFacts
  <2>3. QED BY <2>1, <2>2
<1>5. d \in Decoding /\ d.err # "replay" /\ (d.err = "mismatch" => torn[Peer(e)])
  <2>1. Reads(e, n, k, d)
    BY <1>1, <1>4, ReadFacts
  <2> HIDE DEF d
  <2>2. QED BY <2>1 DEF Reads
<1>6. d.err \in Reasons /\ d.err # "idle timeout"
  <2>1. d.err \in Errors
    BY <1>5 DEF Decoding
  <2> HIDE DEF d
  <2>2. QED BY <2>1 DEF Errors, Reasons
<1>7. "closed" \in Reasons /\ "bad write retry" \in Reasons
  BY DEF Reasons
<1> HIDE DEF d, s
<1>8. CASE d.err # "none"
  BY <1>1, <1>3, <1>5, <1>6, <1>8
<1>9. CASE d.err = "none" /\ Closed(e, k)
  BY <1>1, <1>3, <1>7, <1>9
<1>10. CASE d.err = "none" /\ ~Closed(e, k) /\ Throw(e, "bad write retry")
  BY <1>1, <1>7, <1>10
<1>11. CASE d.err = "none" /\ ~Closed(e, k) /\ \E t \in Flushed(s) : Goes(e, n, k, d, s, t)
  BY <1>1, <1>4, <1>11 DEF d, s
<1>12. QED BY <1>3, <1>8, <1>9, <1>10, <1>11

LEMMA StreamInit == Init => StreamInv
<1> SUFFICES ASSUME Init PROVE StreamInv
  OBVIOUS
<1> DEFINE S == FreshSender
           R == FreshReceiver
<1>1. S \in SenderType /\ S.q = <<>> /\ S.wire = <<>> /\ S.kept = NoWrite /\ S.next = 1
  <2>1. NoWrite \in Repeats
    BY DEF Repeats
  <2>2. QED BY <2>1 DEF FreshSender, SenderType
<1>2. R \in ReceiverType /\ R.highest = 0 /\ ~R.rest
  BY DEF FreshReceiver, ReceiverType
<1>3. \A e \in Ends : /\ snd[e] = S /\ rcv[e] = R /\ taken[e] = 0 /\ delivered[e] = <<>>
                      /\ torn[e] = FALSE /\ why[e] = "none"
  BY DEF Init
<1> HIDE DEF S, R
<1>4. TlsTypes
  <2>1. /\ snd = [e \in Ends |-> S] /\ rcv = [e \in Ends |-> R] /\ taken = [e \in Ends |-> 0]
        /\ delivered = [e \in Ends |-> <<>>] /\ torn = [e \in Ends |-> FALSE]
        /\ why = [e \in Ends |-> "none"] /\ now = 1 /\ turned = {} /\ path = "good" /\ stalls = FALSE
    BY DEF Init, S, R
  <2>2. "none" \in Reasons /\ <<>> \in Seq(Nat)
    BY DEF Reasons
  <2>3. snd \in [Ends -> SenderType] /\ rcv \in [Ends -> ReceiverType]
    BY <1>1, <1>2, <2>1
  <2>4. taken \in [Ends -> Nat] /\ torn \in [Ends -> BOOLEAN] /\ now \in Nat
    BY <2>1
  <2>5. delivered \in [Ends -> Seq(Nat)]
    BY <2>1, <2>2
  <2>6. why \in [Ends -> Reasons]
    BY <2>1, <2>2
  <2>7. QED BY <2>1, <2>3, <2>4, <2>5, <2>6 DEF TlsTypes
<1>5. Carried(S) = {}
  <2>1. \A x : x \in Carried(S) <=>
          \/ \E i \in 1..Len(S.wire) : IsRec(S.wire[i]) /\ x = S.wire[i]
          \/ \E i \in 1..Len(S.q) : x = OnWire(S.q[i])
          \/ S.kept # NoWrite /\ x = S.kept.rec
    BY <1>1, SenderFacts
  <2>2. Len(S.wire) = 0 /\ Len(S.q) = 0
    BY <1>1
  <2>3. QED BY <1>1, <2>1, <2>2
<1>6. InOrder(S) /\ AllRec(S.wire)
  <2>1. Len(S.wire) = 0 /\ Len(S.q) = 0
    BY <1>1
  <2>2. QED BY <1>1, <2>1 DEF InOrder, AllRec
<1>7. Values(<<>>) = {} /\ Rising(<<>>) /\ <<>> \in Seq(Nat)
  BY DEF Values, Rising
<1>8. Bounds(0, 0, {}) /\ Stream(S, 0, 0, {}) /\ Sends(S, 0, 0, {})
  <2>1. Fresh(Carried(S), 0, 0, {}) /\ Below(Carried(S), S.next) /\ 0 < S.next
    BY <1>1, <1>5 DEF Fresh, Below
  <2>2. QED BY <1>1, <1>6, <2>1 DEF Bounds, Stream, Sends
<1>9. Way(S, R, 0, <<>>, TRUE, FALSE)
  BY <1>2, <1>6, <1>7, <1>8 DEF Way
<1>10. ASSUME NEW e \in Ends PROVE Direction(e) /\ Blame(e)
  <2>1. Peer(e) \in Ends
    BY PeerFacts
  <2>2. Up(e) = TRUE
    BY <1>3 DEF Up
  <2>3. Direction(e)
    BY <1>3, <1>9, <2>1, <2>2 DEF Direction
  <2>4. QED BY <1>3, <2>3 DEF Blame
<1>11. QED BY <1>4, <1>10 DEF StreamInv

\* Steps that leave both streams alone.
LEMMA StreamStays ==
  ASSUME StreamInv, now' \in Nat, turned' \subseteq Ends, path' \in {"good", "stalled"},
         stalls' \in BOOLEAN, UNCHANGED <<snd, rcv, taken, delivered, torn, why>>
  PROVE  StreamInv'
<1>1. TlsTypes'
  BY DEF StreamInv, TlsTypes
<1>2. \A e \in Ends : Direction(e)' = Direction(e) /\ Blame(e)' = Blame(e)
  BY DEF Direction, Blame, Up
<1>3. QED BY <1>1, <1>2 DEF StreamInv

LEMMA StreamStep == StreamInv /\ [Next]_vars => StreamInv'
<1> SUFFICES ASSUME StreamInv, [Next]_vars PROVE StreamInv'
  OBVIOUS
<1>0. now \in Nat /\ turned \subseteq Ends /\ path \in {"good", "stalled"} /\ stalls \in BOOLEAN
  BY DEF StreamInv, TlsTypes
<1>1. CASE Tick
  BY <1>0, <1>1, StreamStays DEF Tick
<1>2. CASE PathStalls
  BY <1>0, <1>2, StreamStays DEF PathStalls
<1>3. CASE PathResumes
  BY <1>0, <1>3, StreamStays DEF PathResumes
<1>4. ASSUME NEW e \in Ends, Turn(e) PROVE StreamInv'
  <2>1. Up(e)
    BY <1>4, TurnCases
  <2>2. CASE \E reason \in Reasons :
               /\ reason # "none" /\ reason # "replay" /\ (reason = "mismatch" => torn[Peer(e)])
               /\ reason # "idle timeout" /\ Throw(e, reason)
    BY <2>2, ThrowKeeps
  <2>3. CASE \E n \in Nat, k \in 0..Len(snd[Peer(e)].wire) :
               /\ path # "good" => k = 0
               /\ AfterRead(e, n, k).err = "none"
               /\ ~Closed(e, k)
               /\ \E t \in Flushed(AfterTimers(e, AfterRead(e, n, k))) :
                    Goes(e, n, k, AfterRead(e, n, k), AfterTimers(e, AfterRead(e, n, k)), t)
    <3>1. PICK n \in Nat, k \in 0..Len(snd[Peer(e)].wire) :
                 /\ AfterRead(e, n, k).err = "none"
                 /\ \E t \in Flushed(AfterTimers(e, AfterRead(e, n, k))) :
                      Goes(e, n, k, AfterRead(e, n, k), AfterTimers(e, AfterRead(e, n, k)), t)
      BY <2>3
    <3> DEFINE d == AfterRead(e, n, k)
               s == AfterTimers(e, d)
    <3>2. PICK t \in Flushed(s) : Goes(e, n, k, d, s, t)
      BY <3>1
    <3>3. d = AfterRead(e, n, k) /\ d.err = "none" /\ s = AfterTimers(e, d)
      BY <3>1
    <3> HIDE DEF d, s
    <3>4. QED BY <2>1, <3>2, <3>3, TurnKeeps
  <2>4. QED BY <1>4, <2>2, <2>3, TurnCases
<1>5. ASSUME NEW e \in Ends, Fail(e) PROVE StreamInv'
  <2>1. "failed" \in Reasons /\ Throw(e, "failed")
    BY <1>5 DEF Reasons, Fail
  <2>2. QED BY <2>1, ThrowKeeps
<1>6. CASE UNCHANGED vars
  BY <1>0, <1>6, StreamStays DEF vars
<1>7. QED BY <1>1, <1>2, <1>3, <1>4, <1>5, <1>6 DEF Next

LEMMA StreamInvariant == Spec => []StreamInv
BY StreamInit, StreamStep, PTL DEF Spec

LEMMA StreamImplies == StreamInv => StreamHonest
<1> SUFFICES ASSUME StreamInv, NEW e \in Ends
             PROVE  /\ why[e] # "replay" /\ (why[e] = "mismatch" => torn[Peer(e)])
                    /\ \A i, j \in 1..Len(delivered[e]) : i < j => delivered[e][i] < delivered[e][j]
                    /\ \A i \in 1..Len(delivered[e]) : delivered[e][i] <= taken[Peer(e)]
  BY DEF StreamHonest
<1>1. Blame(e) /\ Peer(e) \in Ends /\ Peer(Peer(e)) = e
  BY PeerFacts DEF StreamInv
<1>2. Way(snd[Peer(e)], rcv[e], taken[Peer(e)], delivered[e], Up(Peer(e)), torn[Peer(e)])
  <2>1. Direction(Peer(e))
    BY <1>1 DEF StreamInv
  <2>2. QED BY <1>1, <2>1 DEF Direction
<1>3. Rising(delivered[e]) /\ \A u \in Values(delivered[e]) : u <= taken[Peer(e)]
  BY <1>2 DEF Way, Bounds
<1>4. QED BY <1>1, <1>3 DEF Blame, Rising, Values

\* Whatever is dropped, expires or is substituted, and in every order of turns,
\* stalls and failures: the decoder of tunnel_loop never reports a replay, a
\* record is malformed only after a write was repeated with another buffer, and
\* packets leave in order, none twice.
THEOREM TlsStreamHonest == Spec => []StreamHonest
BY StreamInvariant, StreamImplies, PTL

------------------------------------------------------------------------------
\* Silence.  One end writes within KeepAlive ticks of its last write, or
\* something is still on the wire; the other hears of it a tick later.

\* tx: the last write; idle: nothing is on the wire; rx: the last read; whether
\* the writer and the reader have turned in this tick, n.
Timely(tx, idle, rx, wrote, read, n) ==
  /\ tx \in Nat /\ rx \in Nat /\ tx <= n /\ rx <= n
  /\ idle => tx <= rx
  /\ n <= tx + KeepAlive \/ ~idle \/ n <= rx + 1
  /\ wrote => n < tx + KeepAlive \/ ~idle \/ n <= rx
  /\ n <= rx + KeepAlive + 1
  /\ read => n <= rx + KeepAlive

LEMMA TimelyTick ==
  ASSUME NEW tx, NEW idle, NEW rx, NEW n \in Nat, Timely(tx, idle, rx, TRUE, TRUE, n)
  PROVE  Timely(tx, idle, rx, FALSE, FALSE, n + 1)
<1>1. KeepAlive \in Nat
  BY TlsLoopAssumption
<1>2. QED BY <1>1 DEF Timely

\* The writer turns: it leaves something on the wire or has written recently.
LEMMA TimelyWrite ==
  ASSUME NEW n \in Nat, NEW tx, NEW idle, NEW rx, NEW wrote, NEW read,
         Timely(tx, idle, rx, wrote, read, n),
         NEW tx2, tx2 = n \/ tx2 = tx, NEW idle2,
         idle2 => tx2 = tx /\ idle /\ ~(n - tx >= KeepAlive), NEW wrote2
  PROVE  Timely(tx2, idle2, rx, wrote2, read, n)
<1>1. KeepAlive \in Nat /\ KeepAlive > 0
  BY TlsLoopAssumption
<1>2. tx \in Nat /\ rx \in Nat
  BY DEF Timely
<1>3. CASE idle2
  <2>1. tx2 = tx /\ idle /\ n < tx + KeepAlive
    BY <1>1, <1>2, <1>3
  <2>2. QED BY <1>1, <1>2, <1>3, <2>1 DEF Timely
<1>4. CASE ~idle2
  BY <1>2, <1>4 DEF Timely
<1>5. QED BY <1>3, <1>4

Hears(e) ==
  Timely(snd[Peer(e)].lastTx, snd[Peer(e)].wire = <<>>, rcv[e].lastRx, Peer(e) \in turned, e \in turned, now)

AllUp == \A e \in Ends : Up(e)

QuietInv ==
  /\ StreamInv /\ QuietKept /\ (path = "stalled" => stalls)
  /\ ~stalls /\ AllUp => \A e \in Ends : Hears(e)

LEMMA QuietInit == Init => QuietInv
<1> SUFFICES ASSUME Init PROVE QuietInv
  OBVIOUS
<1>1. StreamInv
  BY StreamInit
<1>2. \A e \in Ends : snd[e] = FreshSender /\ rcv[e] = FreshReceiver /\ why[e] = "none"
  BY DEF Init
<1>3. FreshSender.lastTx = 1 /\ FreshReceiver.lastRx = 1
  BY DEF FreshSender, FreshReceiver
<1>4. now = 1 /\ turned = {} /\ path = "good" /\ KeepAlive \in Nat /\ KeepAlive > 0
  BY TlsLoopAssumption DEF Init
<1>5. ASSUME NEW e \in Ends PROVE Hears(e)
  <2>1. Peer(e) \in Ends
    BY PeerFacts
  <2>2. snd[Peer(e)].lastTx = 1 /\ rcv[e].lastRx = 1
    BY <1>2, <1>3, <2>1
  <2>3. QED BY <1>4, <2>2 DEF Hears, Timely
<1>6. QuietKept
  BY <1>2 DEF QuietKept
<1>7. QED BY <1>1, <1>4, <1>5, <1>6 DEF QuietInv

\* A loop that ends for another reason than silence.
LEMMA QuietThrow ==
  ASSUME QuietInv, NEW e \in Ends, NEW reason \in Reasons, reason # "none", reason # "idle timeout",
         Throw(e, reason), StreamInv'
  PROVE  QuietInv'
<1>1. why' = [why EXCEPT ![e] = reason] /\ why \in [Ends -> Reasons] /\ path' = path /\ stalls' = stalls
  BY DEF Throw, QuietInv, StreamInv, TlsTypes
<1>2. why'[e] = reason /\ \A f \in Ends : f # e => why'[f] = why[f]
  BY <1>1
<1>3. ~AllUp'
  BY <1>2 DEF AllUp, Up
<1>4. ASSUME KeepAlive + 1 <= Idle, NEW f \in Ends, why'[f] = "idle timeout" PROVE stalls' \/ ~Up(Peer(f))'
  <2>1. f # e /\ why[f] = "idle timeout" /\ Peer(f) \in Ends
    BY <1>2, <1>4, PeerFacts
  <2>2. stalls \/ ~Up(Peer(f))
    BY <1>4, <2>1 DEF QuietInv, QuietKept
  <2>3. why'[Peer(f)] = reason \/ why'[Peer(f)] = why[Peer(f)]
    BY <1>2, <2>1
  <2>4. QED BY <1>1, <2>2, <2>3 DEF Up
<1>5. QuietKept'
  BY <1>4 DEF QuietKept
<1>6. QED BY <1>1, <1>3, <1>5 DEF QuietInv

LEMMA ArrivedFacts ==
  ASSUME NEW s \in SenderType, NEW k \in 0..Len(s.wire)
  PROVE  /\ Arrived(s, k).lastTx = s.lastTx /\ (Arrived(s, k).wire = <<>> <=> k = Len(s.wire))
         /\ (s.wire = <<>> <=> Len(s.wire) = 0) /\ Len(s.wire) \in Nat /\ k \in Nat /\ k <= Len(s.wire)
<1> DEFINE t == s.wire
           a == SubSeq(t, k + 1, Len(t))
           r == Arrived(s, k)
<1>1. t \in Seq(Records \cup Rests) /\ k \in 0..Len(t)
  BY SenderFacts
<1>2. r = [s EXCEPT !.wire = a]
  BY DEF Arrived
<1> HIDE DEF t, r
<1>3. /\ a \in Seq(Records \cup Rests) /\ Len(a) = Len(t) - k /\ Len(t) - k \in Nat /\ k \in Nat /\ Len(t) \in Nat
  BY <1>1, Suffix
<1> HIDE DEF a
<1>4. a = <<>> <=> k = Len(t)
  BY <1>1, <1>3
<1>5. r.wire = a /\ r.lastTx = s.lastTx
  BY <1>2 DEF SenderType
<1>6. t = <<>> <=> Len(t) = 0
  BY <1>1
<1>7. k <= Len(t)
  BY <1>1, <1>3
<1>8. QED BY <1>3, <1>4, <1>5, <1>6, <1>7 DEF t, r

\* A turn of e that goes through, while nothing has stalled and both are up.
LEMMA QuietGoes ==
  ASSUME QuietInv, NEW e \in Ends, AllUp, ~stalls,
         NEW n \in Nat, NEW k \in 0..Len(snd[Peer(e)].wire),
         NEW d, d = AfterRead(e, n, k), d.err = "none",
         NEW s, s = AfterTimers(e, d), NEW t \in Flushed(s), Goes(e, n, k, d, s, t)
  PROVE  (KeepAlive + 1 <= Idle => ~IdleFor(d.r)) /\ \A f \in Ends : Hears(f)'
<1> DEFINE p == Peer(e)
           z == snd[p]
           w == taken[e] + n
           h == rcv[p].highest
           U == Values(delivered[p])
<1>1. p \in Ends /\ Peer(p) = e /\ p # e /\ \A f \in Ends : f = e \/ f = p
  BY PeerFacts
<1>2. StreamInv /\ Up(e) /\ now \in Nat /\ z \in SenderType /\ snd[e] \in SenderType /\ path = "good"
  <2>1. StreamInv /\ Up(e)
    BY DEF QuietInv, AllUp
  <2>2. now \in Nat /\ snd \in [Ends -> SenderType] /\ path \in {"good", "stalled"}
    BY <2>1 DEF StreamInv, TlsTypes
  <2>3. path # "stalled"
    BY DEF QuietInv
  <2>4. z \in SenderType /\ snd[e] \in SenderType
    BY <1>1, <2>2
  <2>5. QED BY <2>1, <2>2, <2>3, <2>4
<1>3. Timely(z.lastTx, z.wire = <<>>, rcv[e].lastRx, p \in turned, e \in turned, now)
  BY DEF QuietInv, Hears
<1>4. Timely(snd[e].lastTx, snd[e].wire = <<>>, rcv[p].lastRx, e \in turned, p \in turned, now)
  <2>1. Hears(p)
    BY <1>1 DEF QuietInv
  <2>2. QED BY <1>1, <2>1 DEF Hears
<1>5. /\ Bounds(w, h, U) /\ Sends(d.s, w, h, U) /\ d.s.wire = snd[e].wire /\ d.s.lastTx = snd[e].lastTx
      /\ d.r.lastRx = (IF k = 0 THEN rcv[e].lastRx ELSE now)
  <2>1. Reads(e, n, k, d)
    BY <1>2, ReadFacts
  <2>2. QED BY <2>1 DEF Reads
<1>6. /\ snd'[e] = t /\ snd'[p] = Arrived(z, k) /\ rcv'[e] = d.r /\ rcv'[p] = rcv[p]
  BY <1>2, TurnKeeps
<1>7. now' = now /\ turned' = (IF path = "stalled" \/ k = Len(z.wire) THEN turned \cup {e} ELSE turned)
  BY DEF Goes
<1>8. /\ Arrived(z, k).lastTx = z.lastTx /\ (Arrived(z, k).wire = <<>> <=> k = Len(z.wire))
      /\ (z.wire = <<>> <=> Len(z.wire) = 0) /\ Len(z.wire) \in Nat /\ k \in Nat /\ k <= Len(z.wire)
  BY <1>2, ArrivedFacts
<1> HIDE DEF p, z, w, h, U
<1>9. (p \in turned' <=> p \in turned) /\ (e \in turned' => e \in turned \/ k = Len(z.wire))
  BY <1>1, <1>2, <1>7
\* e listens
<1>10. Timely(z.lastTx, k = Len(z.wire), d.r.lastRx, p \in turned, e \in turned', now)
  <2> DEFINE some == Len(z.wire)
             all == (k = some)
             idle == (z.wire = <<>>)
             tx == z.lastTx
             rx == rcv[e].lastRx
             rx2 == d.r.lastRx
             wrote == (p \in turned)
             read == (e \in turned)
             read2 == (e \in turned')
  <2>1. (idle <=> some = 0) /\ some \in Nat /\ k \in Nat /\ k <= some /\ (all <=> k = some)
    BY <1>8
  <2>2. rx2 = (IF k = 0 THEN rx ELSE now) /\ (read2 => read \/ all)
    BY <1>5, <1>9
  <2>3. Timely(tx, idle, rx, wrote, read, now) /\ now \in Nat
    BY <1>2, <1>3
  <2> HIDE DEF some, idle, all, tx, rx, rx2, wrote, read, read2
  <2>4. Timely(tx, all, rx2, wrote, read2, now)
    <3>1. KeepAlive \in Nat /\ KeepAlive > 0
      BY TlsLoopAssumption
    <3>2. tx \in Nat /\ rx \in Nat /\ tx <= now
      BY <2>3 DEF Timely
    <3>3. CASE k = 0
      <4>1. rx2 = rx /\ (all <=> idle)
        BY <2>1, <2>2, <3>3
      <4>2. read2 => now <= rx + KeepAlive
        BY <2>2, <2>3, <3>1, <3>2, <4>1 DEF Timely
      <4>3. QED BY <2>3, <4>1, <4>2 DEF Timely
    <3>4. CASE k # 0
      <4>1. rx2 = now
        BY <2>2, <3>4
      <4>2. QED BY <2>3, <3>1, <3>2, <4>1 DEF Timely
    <3>5. QED BY <3>3, <3>4
  <2>5. QED BY <2>4 DEF all, some, tx, rx2, wrote, read2
<1>11. Hears(e)'
  <2>1. Hears(e)' = Timely(snd'[p].lastTx, snd'[p].wire = <<>>, rcv'[e].lastRx, p \in turned', e \in turned', now')
    BY DEF Hears, p, Timely
  <2>2. /\ snd'[p].lastTx = z.lastTx /\ (snd'[p].wire = <<>>) = (k = Len(z.wire)) /\ rcv'[e].lastRx = d.r.lastRx
        /\ (p \in turned') = (p \in turned) /\ now' = now
    BY <1>6, <1>7, <1>8, <1>9
  <2>3. QED BY <1>10, <2>1, <2>2
<1>12. KeepAlive + 1 <= Idle => ~IdleFor(d.r)
  <2>1. d.r.lastRx \in Nat /\ now <= d.r.lastRx + KeepAlive + 1
    BY <1>10 DEF Timely
  <2>2. KeepAlive \in Nat /\ Idle \in Nat
    BY TlsLoopAssumption
  <2>3. QED BY <1>2, <2>1, <2>2 DEF IdleFor
\* e writes
<1>13. /\ Sends(s, w, h, U) /\ s.wire = snd[e].wire /\ s.lastTx = snd[e].lastTx
       /\ (s.q = <<>> => ~(now - snd[e].lastTx >= KeepAlive))
  <2>1. /\ Sends(s, w, h, U) /\ s.wire = d.s.wire /\ s.lastTx = d.s.lastTx
        /\ (s.q = <<>> => ~(now - d.s.lastTx >= KeepAlive))
    BY <1>2, <1>5, TimersKeep
  <2>2. QED BY <1>5, <2>1
<1>14. /\ (s.q = <<>> => t = s) /\ (s.q # <<>> => Len(t.wire) > 0) /\ (t.lastTx = now \/ t.lastTx = s.lastTx)
  BY <1>2, <1>13, FlushKeeps
<1>15. Timely(t.lastTx, t.wire = <<>>, rcv[p].lastRx, e \in turned', p \in turned, now)
  <2> DEFINE idle == (snd[e].wire = <<>>)
             idle2 == (t.wire = <<>>)
             wrote2 == (e \in turned')
             tx == snd[e].lastTx
             tx2 == t.lastTx
  <2>1. t.wire = <<>> => s.q = <<>> /\ t = s
    <3>1. Len(<<>>) = 0 /\ ~(0 > 0)
      OBVIOUS
    <3>2. QED BY <1>14, <3>1
  <2>2. idle2 => tx2 = tx /\ idle /\ ~(now - tx >= KeepAlive)
    BY <1>13, <2>1
  <2>3. tx2 = now \/ tx2 = tx
    BY <1>13, <1>14
  <2>4. Timely(tx, idle, rcv[p].lastRx, e \in turned, p \in turned, now)
    BY <1>4
  <2> HIDE DEF idle, idle2, wrote2, tx, tx2
  <2>5. Timely(tx2, idle2, rcv[p].lastRx, wrote2, p \in turned, now)
    BY <1>2, <2>2, <2>3, <2>4, TimelyWrite
  <2>6. QED BY <2>5 DEF idle2, wrote2, tx2
<1>16. Hears(p)'
  <2>1. Hears(p)' = Timely(snd'[e].lastTx, snd'[e].wire = <<>>, rcv'[p].lastRx, e \in turned', p \in turned', now')
    BY <1>1 DEF Hears, Timely
  <2>2. (p \in turned') = (p \in turned) /\ now' = now
    BY <1>7, <1>9
  <2>3. QED BY <1>6, <1>15, <2>1, <2>2
<1>17. QED BY <1>1, <1>11, <1>12, <1>16

LEMMA QuietTurn ==
  ASSUME QuietInv, NEW e \in Ends, Up(e), NEW n \in Nat, NEW k \in 0..Len(snd[Peer(e)].wire),
         NEW d, d = AfterRead(e, n, k), d.err = "none",
         NEW s, s = AfterTimers(e, d), NEW t \in Flushed(s), Goes(e, n, k, d, s, t)
  PROVE  QuietInv'
<1> DEFINE p == Peer(e)
<1>1. p \in Ends /\ Peer(p) = e /\ p # e /\ \A f \in Ends : f = e \/ f = p
  BY PeerFacts
<1>2. StreamInv /\ why \in [Ends -> Reasons]
  BY DEF QuietInv, StreamInv, TlsTypes
<1>3. StreamInv' /\ why'[p] = why[p]
  BY <1>2, TurnKeeps
<1>4. /\ path' = path /\ stalls' = stalls
      /\ why' = IF IdleFor(d.r) THEN [why EXCEPT ![e] = "idle timeout"] ELSE why
  BY DEF Goes
<1>5. path' = "stalled" => stalls'
  BY <1>4 DEF QuietInv
<1>6. KeepAlive + 1 <= Idle => (why[p] = "idle timeout" => stalls)
  BY <1>1 DEF QuietInv, QuietKept
<1> HIDE DEF p
<1>7. CASE stalls
  <2>1. QuietKept'
    BY <1>4, <1>7 DEF QuietKept
  <2>2. QED BY <1>3, <1>4, <1>5, <1>7, <2>1 DEF QuietInv
<1>8. CASE ~stalls /\ ~Up(p)
  <2>1. ~Up(p)' /\ ~AllUp'
    BY <1>1, <1>3, <1>8 DEF Up, AllUp
  <2>2. QuietKept'
    BY <1>1, <1>3, <1>6, <1>8, <2>1 DEF QuietKept, p
  <2>3. QED BY <1>3, <1>5, <2>1, <2>2 DEF QuietInv
<1>9. CASE ~stalls /\ Up(p)
  <2>1. AllUp
    BY <1>1, <1>9 DEF AllUp
  <2>2. (KeepAlive + 1 <= Idle => ~IdleFor(d.r)) /\ \A f \in Ends : Hears(f)'
    BY <1>9, <2>1, QuietGoes
  <2>3. KeepAlive + 1 <= Idle => why' = why
    BY <1>4, <2>2
  <2>4. QuietKept'
    BY <1>4, <2>3 DEF QuietInv, QuietKept, Up
  <2>5. QED BY <1>3, <1>5, <2>2, <2>4 DEF QuietInv
<1>10. QED BY <1>7, <1>8, <1>9

LEMMA QuietStep == QuietInv /\ [Next]_vars => QuietInv'
<1> SUFFICES ASSUME QuietInv, [Next]_vars PROVE QuietInv'
  OBVIOUS
<1>0. StreamInv /\ StreamInv'
  BY StreamStep DEF QuietInv
<1>1. CASE Tick
  <2>1. /\ now' = now + 1 /\ turned' = {} /\ \A e \in Ends : Up(e) => e \in turned
        /\ path' = path /\ stalls' = stalls /\ snd' = snd /\ rcv' = rcv /\ why' = why
    BY <1>1 DEF Tick
  <2>2. QuietKept' /\ (path' = "stalled" => stalls') /\ (AllUp' <=> AllUp)
    BY <2>1 DEF QuietInv, QuietKept, Up, AllUp
  <2>3. ASSUME ~stalls, AllUp, NEW e \in Ends PROVE Hears(e)'
    <3>1. e \in turned /\ Peer(e) \in turned
      BY <2>1, <2>3, PeerFacts DEF AllUp
    <3>2. Hears(e) /\ now \in Nat
      BY <1>0, <2>3 DEF QuietInv, StreamInv, TlsTypes
    <3>3. Timely(snd[Peer(e)].lastTx, snd[Peer(e)].wire = <<>>, rcv[e].lastRx, TRUE, TRUE, now)
      BY <3>1, <3>2 DEF Hears
    <3>4. Timely(snd[Peer(e)].lastTx, snd[Peer(e)].wire = <<>>, rcv[e].lastRx, FALSE, FALSE, now + 1)
      BY <3>2, <3>3, TimelyTick
    <3>5. e \notin turned' /\ Peer(e) \notin turned'
      BY <2>1
    <3>6. QED BY <2>1, <3>4, <3>5 DEF Hears, Timely
  <2>4. QED BY <1>0, <2>1, <2>2, <2>3 DEF QuietInv
<1>2. CASE PathStalls
  <2>1. stalls' = TRUE
    BY <1>2 DEF PathStalls
  <2>2. QED BY <1>0, <2>1 DEF QuietInv, QuietKept
<1>3. CASE PathResumes
  <2>1. path' = "good" /\ stalls' = stalls /\ stalls = TRUE
    BY <1>0, <1>3 DEF PathResumes, QuietInv, StreamInv, TlsTypes
  <2>2. QED BY <1>0, <2>1 DEF QuietInv, QuietKept
<1>4. ASSUME NEW e \in Ends, Turn(e) PROVE QuietInv'
  <2>1. Up(e)
    BY <1>0, <1>4, TurnCases
  <2>2. CASE \E reason \in Reasons :
               /\ reason # "none" /\ reason # "replay" /\ (reason = "mismatch" => torn[Peer(e)])
               /\ reason # "idle timeout" /\ Throw(e, reason)
    BY <1>0, <2>2, QuietThrow
  <2>3. CASE \E n \in Nat, k \in 0..Len(snd[Peer(e)].wire) :
               /\ path # "good" => k = 0
               /\ AfterRead(e, n, k).err = "none"
               /\ ~Closed(e, k)
               /\ \E t \in Flushed(AfterTimers(e, AfterRead(e, n, k))) :
                    Goes(e, n, k, AfterRead(e, n, k), AfterTimers(e, AfterRead(e, n, k)), t)
    <3>1. PICK n \in Nat, k \in 0..Len(snd[Peer(e)].wire) :
                 /\ AfterRead(e, n, k).err = "none"
                 /\ \E t \in Flushed(AfterTimers(e, AfterRead(e, n, k))) :
                      Goes(e, n, k, AfterRead(e, n, k), AfterTimers(e, AfterRead(e, n, k)), t)
      BY <2>3
    <3> DEFINE d == AfterRead(e, n, k)
               s == AfterTimers(e, d)
    <3>2. PICK t \in Flushed(s) : Goes(e, n, k, d, s, t)
      BY <3>1
    <3>3. d = AfterRead(e, n, k) /\ d.err = "none" /\ s = AfterTimers(e, d)
      BY <3>1
    <3> HIDE DEF d, s
    <3>4. QED BY <2>1, <3>2, <3>3, QuietTurn
  <2>4. QED BY <1>0, <1>4, <2>2, <2>3, TurnCases
<1>5. ASSUME NEW e \in Ends, Fail(e) PROVE QuietInv'
  <2>1. "failed" \in Reasons /\ Throw(e, "failed")
    BY <1>5 DEF Reasons, Fail
  <2>2. QED BY <1>0, <2>1, QuietThrow
<1>6. CASE UNCHANGED vars
  BY <1>0, <1>6 DEF vars, QuietInv, QuietKept, Up, AllUp, Hears
<1>7. QED BY <1>1, <1>2, <1>3, <1>4, <1>5, <1>6 DEF Next

\* For every keep-alive interval shorter than the idle limit: as long as the path
\* does not stall and both loops are up, neither end of tunnel_loop gives up the
\* session for silence, whatever the probes, the socket and the queue do.
THEOREM TlsQuietKept == Spec => []QuietKept
<1>1. QuietInv => QuietKept
  BY DEF QuietInv
<1>2. QED BY <1>1, QuietInit, QuietStep, PTL DEF Spec
=============================================================================
