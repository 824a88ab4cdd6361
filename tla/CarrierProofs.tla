---------------------------- MODULE CarrierProofs ---------------------------
(***************************************************************************)
(* For every queue limit, delay limit, batch size, also one above          *)
(* batch_packets as adaptive batching gives, and socket size, with         *)
(* and without the flow scheduler and shaping: an honest peer is never     *)
(* taken for a replay, and packets are delivered in order.                 *)
(***************************************************************************)
EXTENDS Carrier, WellFoundedInduction, TLAPS

Kinds == {"data", "ping", "pong", "keepalive"}
Recs == [seq : Nat, kind : Kinds, val : Nat, at : Nat]
Sending ==
  [pend : Seq(Nat), q : Seq(Recs), tx : Seq(Recs), wire : Seq(Seq(Recs)), next : Nat]

\* Record a was sealed before b.
Prec(a, b) == a.seq < b.seq /\ (a.kind = "data" /\ b.kind = "data" => a.val < b.val)
Before(s, t) == \A i \in 1..Len(s), j \in 1..Len(t) : Prec(s[i], t[j])

\* Records in the order of sealing: numbered after h and before n, with packets
\* after the delivered ones d and up to u.
Block(s, h, n, d, u) ==
  /\ \A i, j \in 1..Len(s) : i < j => Prec(s[i], s[j])
  /\ \A i \in 1..Len(s) :
       /\ h < s[i].seq /\ s[i].seq < n
       /\ s[i].kind = "data" => s[i].val <= u /\ \A k \in 1..Len(d) : d[k] < s[i].val

\* One direction, from the record that is decoded next to the one sealed last:
\* the message r being decoded, the messages w on the wire, the message x to be
\* written and the queue q.
Chain(r, w, x, q, n, h, d, u) ==
  /\ Block(r, h, n, d, u) /\ Block(x, h, n, d, u) /\ Block(q, h, n, d, u)
  /\ \A m \in 1..Len(w) : Block(w[m], h, n, d, u)
  /\ Before(r, x) /\ Before(r, q) /\ Before(x, q)
  /\ \A m \in 1..Len(w) : Before(r, w[m]) /\ Before(w[m], x) /\ Before(w[m], q)
  /\ \A m, k \in 1..Len(w) : m < k => Before(w[m], w[k])
  /\ h < n
  /\ \A i, j \in 1..Len(d) : i < j => d[i] < d[j]
  /\ \A i \in 1..Len(d) : d[i] <= u

\* The packets that wait in the flow scheduler: after u, up to the t taken.
Waits(p, u, t) ==
  /\ u <= t
  /\ \A i, j \in 1..Len(p) : i < j => p[i] < p[j]
  /\ \A i \in 1..Len(p) : u < p[i] /\ p[i] <= t

Ordered(r, s, h, d, u, t) ==
  Chain(r, s.wire, s.tx, s.q, s.next, h, d, u) /\ Waits(s.pend, u, t)

\* Sender s, seen with what its peer decodes and has delivered.
Fine(r, s, h, d, t) ==
  /\ s \in Sending /\ \E u \in Nat : Ordered(r, s, h, d, u, t)
  /\ ~scheduled => s.pend = <<>>

Types ==
  /\ scheduled \in BOOLEAN /\ now \in Nat
  /\ snd \in [Ends -> Sending] /\ rx \in [Ends -> Seq(Recs)] /\ highest \in [Ends -> Nat]
  /\ taken \in [Ends -> Nat] /\ delivered \in [Ends -> Seq(Nat)]
  /\ pc \in [Ends -> {"head", "tun", "read", "timers", "down"}]
  /\ DOMAIN why = Ends

Directions ==
  \A e \in Ends : Fine(rx[Peer(e)], snd[e], highest[Peer(e)], delivered[Peer(e)], taken[e])

IInv == Types /\ Directions /\ NoFalseReplay

------------------------------------------------------------------------------
\* Every set of natural numbers has a least element.
LEMMA LeastNat ==
  ASSUME NEW T, T \subseteq Nat, T # {}
  PROVE  \E x \in T : \A y \in T : x <= y
<1> DEFINE R == OpToRel(<, Nat)
<1>1. IsWellFoundedOn(R, Nat)
  BY NatLessThanWellFounded
<1>2. \A x, y \in Nat : <<y, x>> \in R <=> y < x
  BY DEF OpToRel
<1> HIDE DEF R
<1>3. \E x \in T : \A y \in T : ~(<<y, x>> \in R)
  BY <1>1, WFMin
<1>4. PICK x \in T : \A y \in T : ~(<<y, x>> \in R)
  BY <1>3
<1>5. \A y \in T : ~(y < x)
  BY <1>2, <1>4
<1>6. \A y \in T : x <= y
  BY <1>5
<1>7. QED BY <1>6

------------------------------------------------------------------------------
\* Blocks of records

\* t is a piece of s.
Piece(t, s) ==
  t \in Seq(Recs) /\ \E o \in Nat : \A i \in 1..Len(t) : i + o \in 1..Len(s) /\ t[i] = s[i + o]

LEMMA RecTypes ==
  ASSUME NEW s \in Seq(Recs)
  PROVE  \A i \in 1..Len(s) : s[i] \in Recs /\ s[i].seq \in Nat /\ s[i].val \in Nat
<1>1. \A i \in 1..Len(s) : s[i] \in Recs
  OBVIOUS
<1>2. QED BY <1>1 DEF Recs

LEMMA EmptyBlock ==
  /\ \A h, n, d, u : Block(<<>>, h, n, d, u)
  /\ \A s : Before(<<>>, s) /\ Before(s, <<>>)
BY DEF Block, Before

LEMMA PieceBlock ==
  ASSUME NEW s \in Seq(Recs), NEW t, Piece(t, s), NEW h, NEW n, NEW d, NEW u, Block(s, h, n, d, u)
  PROVE  Block(t, h, n, d, u)
<1>1. PICK o \in Nat : \A i \in 1..Len(t) : i + o \in 1..Len(s) /\ t[i] = s[i + o]
  BY DEF Piece
<1>2. Len(t) \in Nat
  BY DEF Piece
<1>3. \A i, j \in 1..Len(t) : i < j => Prec(t[i], t[j])
  <2> SUFFICES ASSUME NEW i \in 1..Len(t), NEW j \in 1..Len(t), i < j PROVE Prec(t[i], t[j])
    OBVIOUS
  <2>1. i + o < j + o
    BY <1>2
  <2>2. Prec(s[i + o], s[j + o])
    BY <1>1, <2>1 DEF Block
  <2>3. QED BY <1>1, <2>2
<1>4. QED BY <1>1, <1>3 DEF Block

LEMMA PieceBefore ==
  ASSUME NEW s, NEW t, Piece(t, s), NEW z
  PROVE  (Before(s, z) => Before(t, z)) /\ (Before(z, s) => Before(z, t))
BY DEF Piece, Before

LEMMA PieceOf ==
  ASSUME NEW s \in Seq(Recs), NEW a \in 1..(Len(s) + 1), NEW b \in 0..Len(s)
  PROVE  Piece(SubSeq(s, a, b), s)
<1> DEFINE t == SubSeq(s, a, b)
<1>1. t \in Seq(Recs) /\ Len(t) \in Nat
  OBVIOUS
<1>2. a - 1 \in Nat /\ Len(s) \in Nat
  OBVIOUS
<1>3. \A i \in 1..Len(t) : i + (a - 1) \in 1..Len(s) /\ t[i] = s[i + (a - 1)]
  OBVIOUS
<1> HIDE DEF t
<1>4. Piece(t, s)
  BY <1>1, <1>2, <1>3 DEF Piece
<1>5. QED BY <1>4 DEF t

LEMMA Cut ==
  ASSUME NEW s \in Seq(Recs), NEW k \in 0..Len(s), NEW h, NEW n, NEW d, NEW u, Block(s, h, n, d, u)
  PROVE  Before(SubSeq(s, 1, k), SubSeq(s, k + 1, Len(s)))
<1> DEFINE a == SubSeq(s, 1, k)
           b == SubSeq(s, k + 1, Len(s))
<1>1. Len(a) = k /\ \A i \in 1..k : a[i] = s[i] /\ i \in 1..Len(s)
  OBVIOUS
<1>2. /\ Len(b) = Len(s) - k /\ Len(s) \in Nat
      /\ \A j \in 1..Len(b) : b[j] = s[j + k] /\ j + k \in 1..Len(s)
  OBVIOUS
<1> HIDE DEF a, b
<1>3. \A i \in 1..k, j \in 1..Len(b) : i < j + k
  BY <1>2
<1>4. Before(a, b)
  BY <1>1, <1>2, <1>3 DEF Before, Block
<1>5. QED BY <1>4 DEF a, b

LEMMA Joined ==
  ASSUME NEW s \in Seq(Recs), NEW t \in Seq(Recs), Before(s, t), NEW h, NEW n, NEW d, NEW u,
         Block(s, h, n, d, u), Block(t, h, n, d, u)
  PROVE  /\ s \o t \in Seq(Recs) /\ Block(s \o t, h, n, d, u)
         /\ \A z : Before(z, s) /\ Before(z, t) => Before(z, s \o t)
<1> DEFINE v == s \o t
<1>1. /\ v \in Seq(Recs) /\ Len(v) = Len(s) + Len(t) /\ Len(s) \in Nat /\ Len(t) \in Nat
      /\ \A i \in 1..Len(v) : IF i <= Len(s) THEN i \in 1..Len(s) /\ v[i] = s[i]
                              ELSE i - Len(s) \in 1..Len(t) /\ v[i] = t[i - Len(s)]
  OBVIOUS
<1> HIDE DEF v
<1>2. \A z : Before(z, s) /\ Before(z, t) => Before(z, v)
  BY <1>1 DEF Before
<1>3. ASSUME NEW i \in 1..Len(v), NEW j \in 1..Len(v), i < j PROVE Prec(v[i], v[j])
  <2>1. CASE j <= Len(s)
    <3>1. i \in 1..Len(s) /\ v[i] = s[i] /\ j \in 1..Len(s) /\ v[j] = s[j]
      BY <1>1, <1>3, <2>1
    <3>2. QED BY <1>3, <3>1 DEF Block
  <2>2. CASE i <= Len(s) /\ ~(j <= Len(s))
    BY <1>1, <2>2 DEF Before
  <2>3. CASE ~(i <= Len(s)) /\ ~(j <= Len(s))
    <3>1. /\ i - Len(s) \in 1..Len(t) /\ v[i] = t[i - Len(s)] /\ j - Len(s) \in 1..Len(t)
          /\ v[j] = t[j - Len(s)] /\ i - Len(s) < j - Len(s)
      BY <1>1, <1>3, <2>3
    <3>2. QED BY <3>1 DEF Block
  <2>4. QED BY <1>1, <1>3, <2>1, <2>2, <2>3
<1>4. Block(v, h, n, d, u)
  BY <1>1, <1>3 DEF Block
<1>5. QED BY <1>1, <1>2, <1>4 DEF v

\* The bounds of a block may grow.
LEMMA WiderBlock ==
  ASSUME NEW s \in Seq(Recs), NEW h, NEW n \in Nat, NEW d, NEW u \in Nat, Block(s, h, n, d, u),
         NEW m \in Nat, n <= m, NEW v \in Nat, u <= v
  PROVE  Block(s, h, m, d, v)
<1>1. \A i \in 1..Len(s) : s[i].seq \in Nat /\ s[i].val \in Nat
  BY RecTypes
<1>2. QED BY <1>1 DEF Block

\* Records numbered from n; packets that come after u and are at most v.
NewRecs(n, kind, vals) ==
  [i \in 1..Len(vals) |-> [seq |-> n + i - 1, kind |-> kind, val |-> vals[i], at |-> now]]
Later(kind, vals, u, v) ==
  kind = "data" => /\ \A i, j \in 1..Len(vals) : i < j => vals[i] < vals[j]
                   /\ \A i \in 1..Len(vals) : u < vals[i] /\ vals[i] <= v

\* The new records are behind everything that was sealed before.
LEMMA NewBlock ==
  ASSUME NEW n \in Nat, NEW h \in Nat, h < n, NEW d \in Seq(Nat), NEW u \in Nat, NEW v \in Nat, u <= v,
         \A k \in 1..Len(d) : d[k] <= u,
         NEW kind \in Kinds, NEW vals \in Seq(Nat), now \in Nat, Later(kind, vals, u, v),
         NEW new, new = NewRecs(n, kind, vals)
  PROVE  /\ new \in Seq(Recs) /\ Len(new) = Len(vals) /\ Block(new, h, n + Len(vals), d, v)
         /\ \A s \in Seq(Recs) : Block(s, h, n, d, u) => Before(s, new)
<1>1. Len(vals) \in Nat /\ \A i \in 1..Len(vals) : vals[i] \in Nat
  OBVIOUS
<1>2. \A i \in 1..Len(vals) : /\ new[i] \in Recs /\ new[i].seq = n + i - 1 /\ new[i].kind = kind
                              /\ new[i].val = vals[i]
  BY <1>1 DEF Recs, NewRecs
<1>3. new \in Seq(Recs) /\ Len(new) = Len(vals)
  BY <1>1, <1>2 DEF NewRecs
<1>4. \A k \in 1..Len(d) : d[k] \in Nat
  OBVIOUS
<1>5. ASSUME NEW i \in 1..Len(new), NEW j \in 1..Len(new), i < j PROVE Prec(new[i], new[j])
  <2>1. new[i].seq < new[j].seq
    BY <1>1, <1>2, <1>3, <1>5
  <2>2. kind = "data" => vals[i] < vals[j]
    BY <1>3, <1>5 DEF Later
  <2>3. QED BY <1>2, <1>3, <2>1, <2>2 DEF Prec
<1>6. \A i \in 1..Len(new) :
        /\ h < new[i].seq /\ new[i].seq < n + Len(vals)
        /\ new[i].kind = "data" => new[i].val <= v /\ \A k \in 1..Len(d) : d[k] < new[i].val
  <2> SUFFICES ASSUME NEW i \in 1..Len(vals)
               PROVE  /\ h < new[i].seq /\ new[i].seq < n + Len(vals)
                      /\ kind = "data" => vals[i] <= v /\ \A k \in 1..Len(d) : d[k] < vals[i]
    BY <1>2, <1>3
  <2>1. h < new[i].seq /\ new[i].seq < n + Len(vals)
    <3>1. new[i].seq = n + i - 1
      BY <1>2
    <3>2. h < n + i - 1 /\ n + i - 1 < n + Len(vals)
      BY <1>1
    <3>3. QED BY <3>1, <3>2
  <2>2. kind = "data" => u < vals[i] /\ vals[i] <= v
    BY DEF Later
  <2>3. QED BY <1>1, <1>4, <2>1, <2>2
<1>7. ASSUME NEW s \in Seq(Recs), Block(s, h, n, d, u), NEW i \in 1..Len(s), NEW j \in 1..Len(new)
      PROVE  Prec(s[i], new[j])
  <2>1. s[i].seq \in Nat /\ s[i].val \in Nat
    BY RecTypes
  <2>2. s[i].seq < n /\ (s[i].kind = "data" => s[i].val <= u)
    BY <1>7 DEF Block
  <2>3. QED BY <1>1, <1>2, <1>3, <2>1, <2>2 DEF Prec, Later
<1>8. QED BY <1>3, <1>5, <1>6, <1>7 DEF Block, Before

------------------------------------------------------------------------------
\* What a sender does keeps the order

\* Records that leave the queue at the front.
LEMMA ChainPiece ==
  ASSUME NEW r, NEW w, NEW x, NEW q \in Seq(Recs), NEW n, NEW h, NEW d, NEW u,
         Chain(r, w, x, q, n, h, d, u), NEW p, Piece(p, q)
  PROVE  Chain(r, w, x, p, n, h, d, u)
<1>1. Block(p, h, n, d, u)
  BY PieceBlock DEF Chain
<1>2. \A z : Before(z, q) => Before(z, p)
  BY PieceBefore
<1>3. QED BY <1>1, <1>2 DEF Chain

\* The socket takes the message.
LEMMA FlushTransportFine ==
  ASSUME NEW r, NEW s \in Sending, NEW h, NEW d, NEW u,
         Chain(r, s.wire, s.tx, s.q, s.next, h, d, u), NEW f, f = FlushTransport(s)
  PROVE  /\ f \in Sending /\ f.pend = s.pend /\ f.q = s.q /\ f.next = s.next
         /\ Chain(r, f.wire, f.tx, f.q, f.next, h, d, u)
<1>1. CASE ~(s.tx # <<>> /\ Len(s.wire) < Socket)
  BY <1>1 DEF FlushTransport
<1>2. CASE s.tx # <<>> /\ Len(s.wire) < Socket
  <2> DEFINE w == s.wire
             v == Append(s.wire, s.tx)
  <2>1. s.wire \in Seq(Seq(Recs)) /\ s.tx \in Seq(Recs)
    BY DEF Sending
  <2>2. /\ v \in Seq(Seq(Recs)) /\ Len(v) = Len(w) + 1 /\ Len(w) \in Nat /\ v[Len(w) + 1] = s.tx
        /\ \A m \in 1..Len(w) : v[m] = w[m]
        /\ \A m \in 1..Len(v) : m \in 1..Len(w) \/ m = Len(w) + 1
    BY <2>1
  <2>3. f = [s EXCEPT !.wire = v, !.tx = <<>>]
    BY <1>2 DEF FlushTransport
  <2> DEFINE none == <<>>
  <2>a. none \in Seq(Recs) /\ f = [s EXCEPT !.wire = v, !.tx = none]
    BY <2>3
  <2> HIDE DEF v, none
  <2>b. /\ f \in Sending /\ f.pend = s.pend /\ f.q = s.q /\ f.next = s.next /\ f.wire = v /\ f.tx = none
    BY <2>2, <2>a DEF Sending
  <2>4. /\ f \in Sending /\ f.pend = s.pend /\ f.q = s.q /\ f.next = s.next /\ f.wire = v /\ f.tx = <<>>
    BY <2>b DEF none
  <2>5. Chain(r, v, <<>>, s.q, s.next, h, d, u)
    <3>1. \A m \in 1..Len(v) : Block(v[m], h, s.next, d, u)
      BY <2>2 DEF Chain
    <3>2. \A m \in 1..Len(v) : Before(r, v[m]) /\ Before(v[m], <<>>) /\ Before(v[m], s.q)
      BY <2>2, EmptyBlock DEF Chain
    <3>3. ASSUME NEW m \in 1..Len(v), NEW k \in 1..Len(v), m < k PROVE Before(v[m], v[k])
      <4>1. m \in 1..Len(w)
        BY <2>2, <3>3
      <4>2. CASE k \in 1..Len(w)
        BY <2>2, <3>3, <4>1, <4>2 DEF Chain
      <4>3. CASE k = Len(w) + 1
        BY <2>2, <4>1, <4>3 DEF Chain
      <4>4. QED BY <2>2, <4>2, <4>3
    <3>4. QED BY <3>1, <3>2, <3>3, EmptyBlock DEF Chain
  <2>6. QED BY <2>4, <2>5
<1>3. QED BY <1>1, <1>2

\* A batch becomes the message to write.
LEMMA FlushCarrierFine ==
  ASSUME NEW r, NEW s \in Sending, NEW h, NEW d, NEW u,
         Chain(r, s.wire, s.tx, s.q, s.next, h, d, u), NEW n \in Nat, NEW g, g = FlushCarrierBy(s, n)
  PROVE  g \in Sending /\ g.pend = s.pend /\ Chain(r, g.wire, g.tx, g.q, g.next, h, d, u)
<1> DEFINE f == FlushTransport(s)
           k == Least(Least(n, BatchBytes), Len(f.q))
           b == [f EXCEPT !.tx = SubSeq(f.q, 1, k), !.q = SubSeq(f.q, k + 1, Len(f.q))]
<1>1. f \in Sending /\ f.pend = s.pend /\ Chain(r, f.wire, f.tx, f.q, f.next, h, d, u)
  BY FlushTransportFine
<1>2. g = IF f.tx # <<>> \/ k = 0 THEN f ELSE FlushTransport(b)
  BY DEF FlushCarrierBy
<1>3. f.q \in Seq(Recs) /\ k \in 0..Len(f.q) /\ Len(f.q) \in Nat
  <2>1. f.q \in Seq(Recs) /\ Len(f.q) \in Nat
    BY <1>1 DEF Sending
  <2> HIDE DEF f
  <2>2. QED BY <2>1, CarrierAssumption DEF Least
<1> HIDE DEF f, k
<1>4. CASE f.tx # <<>> \/ k = 0
  BY <1>1, <1>2, <1>4
<1>5. CASE f.tx = <<>> /\ k # 0
  <2> DEFINE x == SubSeq(f.q, 1, k)
             y == SubSeq(f.q, k + 1, Len(f.q))
  <2>1. x \in Seq(Recs) /\ y \in Seq(Recs)
    BY <1>3
  <2>2. Piece(x, f.q) /\ Piece(y, f.q)
    BY <1>3, PieceOf
  <2>3. Before(x, y)
    BY <1>1, <1>3, Cut DEF Chain
  <2>4. b = [f EXCEPT !.tx = x, !.q = y]
    OBVIOUS
  <2> HIDE DEF x, y, b
  <2>5. b \in Sending /\ b.pend = f.pend /\ b.wire = f.wire /\ b.tx = x /\ b.q = y /\ b.next = f.next
    BY <1>1, <2>1, <2>4 DEF Sending
  <2>6. Block(x, h, f.next, d, u) /\ Block(y, h, f.next, d, u)
    BY <1>1, <1>3, <2>2, PieceBlock DEF Chain
  <2>7. \A z : Before(z, f.q) => Before(z, x) /\ Before(z, y)
    BY <2>2, PieceBefore
  <2>8. Chain(r, f.wire, x, y, f.next, h, d, u)
    BY <1>1, <2>3, <2>6, <2>7 DEF Chain
  <2>9. g = FlushTransport(b) /\ Chain(r, b.wire, b.tx, b.q, b.next, h, d, u)
    BY <1>2, <1>5, <2>5, <2>8
  <2>10. g \in Sending /\ g.pend = b.pend /\ Chain(r, g.wire, g.tx, g.q, g.next, h, d, u)
    BY <2>5, <2>9, FlushTransportFine
  <2>11. QED BY <1>1, <2>5, <2>10
<1>6. QED BY <1>4, <1>5

\* Sealing and queueing, with drops at the front.
LEMMA SealedFine ==
  ASSUME NEW r \in Seq(Recs), NEW s \in Sending, NEW h \in Nat, NEW d \in Seq(Nat), NEW u \in Nat,
         Chain(r, s.wire, s.tx, s.q, s.next, h, d, u),
         NEW kind \in Kinds, NEW vals \in Seq(Nat), now \in Nat, NEW v \in Nat, u <= v,
         Later(kind, vals, u, v), NEW g, g = Sealed(s, kind, vals)
  PROVE  g \in Sending /\ g.pend = s.pend /\ Chain(r, g.wire, g.tx, g.q, g.next, h, d, v)
<1> DEFINE n == s.next
           m == s.next + Len(vals)
           new == NewRecs(s.next, kind, vals)
           all == s.q \o new
           q == Enqueued(s.q, new)
<1>1. /\ s.q \in Seq(Recs) /\ s.tx \in Seq(Recs) /\ s.wire \in Seq(Seq(Recs)) /\ n \in Nat
      /\ h < n /\ \A k \in 1..Len(d) : d[k] <= u
  BY DEF Sending, Chain
<1>2. m \in Nat /\ n <= m /\ Len(vals) \in Nat
  BY <1>1
<1>3. g = [s EXCEPT !.next = m, !.q = q]
  BY DEF Sealed, NewRecs
<1>4. /\ new \in Seq(Recs) /\ Block(new, h, m, d, v)
      /\ \A z \in Seq(Recs) : Block(z, h, n, d, u) => Before(z, new)
  <2>1. new = NewRecs(n, kind, vals) /\ m = n + Len(vals)
    OBVIOUS
  <2> HIDE DEF new, m, n
  <2>2. /\ new \in Seq(Recs) /\ Block(new, h, n + Len(vals), d, v)
        /\ \A z \in Seq(Recs) : Block(z, h, n, d, u) => Before(z, new)
    <3>1. n \in Nat /\ h < n /\ new = NewRecs(n, kind, vals)
      BY <1>1, <2>1
    <3>2. \A k \in 1..Len(d) : d[k] <= u
      BY <1>1
    <3>3. QED BY <3>1, <3>2, NewBlock
  <2>3. QED BY <2>1, <2>2
<1> HIDE DEF new, m, n
<1>5. /\ Block(r, h, m, d, v) /\ Block(s.tx, h, m, d, v) /\ Block(s.q, h, m, d, v)
      /\ \A k \in 1..Len(s.wire) : Block(s.wire[k], h, m, d, v)
  <2>1. \A k \in 1..Len(s.wire) : s.wire[k] \in Seq(Recs) /\ Block(s.wire[k], h, n, d, u)
    BY <1>1 DEF Chain, n
  <2>2. Block(r, h, n, d, u) /\ Block(s.tx, h, n, d, u) /\ Block(s.q, h, n, d, u)
    BY DEF Chain, n
  <2>3. QED BY <1>1, <1>2, <2>1, <2>2, WiderBlock
<1>6. /\ Before(r, new) /\ Before(s.tx, new) /\ Before(s.q, new)
      /\ \A k \in 1..Len(s.wire) : Before(s.wire[k], new)
  BY <1>1, <1>4 DEF Chain, n
<1>7. /\ all \in Seq(Recs) /\ Block(all, h, m, d, v)
      /\ \A z : Before(z, s.q) /\ Before(z, new) => Before(z, all)
  BY <1>1, <1>4, <1>5, <1>6, Joined
<1>8. Piece(q, all)
  <2>1. q = IF Len(all) <= QueueLimit THEN all ELSE SubSeq(all, Len(all) - QueueLimit + 1, Len(all))
    BY DEF Enqueued
  <2> HIDE DEF all, q
  <2>2. Len(all) \in Nat /\ QueueLimit \in Nat \ {0}
    BY <1>7, CarrierAssumption
  <2>3. CASE Len(all) <= QueueLimit
    <3>1. q = all /\ \A i \in 1..Len(all) : i + 0 \in 1..Len(all) /\ all[i] = all[i + 0]
      BY <2>1, <2>3
    <3>2. QED BY <1>7, <3>1 DEF Piece
  <2>4. CASE ~(Len(all) <= QueueLimit)
    <3> DEFINE a == Len(all) - QueueLimit + 1
    <3>1. a \in 1..(Len(all) + 1) /\ Len(all) \in 0..Len(all) /\ q = SubSeq(all, a, Len(all))
      BY <2>1, <2>2, <2>4
    <3> HIDE DEF a
    <3>2. QED BY <1>7, <3>1, PieceOf
  <2>5. QED BY <2>3, <2>4
<1> HIDE DEF all, q
<1>9. q \in Seq(Recs) /\ Block(q, h, m, d, v) /\ \A z : Before(z, all) => Before(z, q)
  BY <1>7, <1>8, PieceBlock, PieceBefore DEF Piece
<1>10. g \in Sending /\ g.pend = s.pend /\ g.wire = s.wire /\ g.tx = s.tx /\ g.q = q /\ g.next = m
  BY <1>2, <1>3, <1>9 DEF Sending
<1>11. h < m /\ \A i \in 1..Len(d) : d[i] <= v
  <2>1. \A i \in 1..Len(d) : d[i] \in Nat
    OBVIOUS
  <2>2. QED BY <1>1, <1>2, <2>1
<1>12. Chain(r, s.wire, s.tx, q, m, h, d, v)
  <2>1. Before(r, q) /\ Before(s.tx, q) /\ \A k \in 1..Len(s.wire) : Before(s.wire[k], q)
    BY <1>6, <1>7, <1>9 DEF Chain
  <2>2. QED BY <1>5, <1>9, <1>11, <2>1 DEF Chain
<1>13. QED BY <1>10, <1>12

------------------------------------------------------------------------------
\* The same for a sender with what waits in the flow scheduler

LEMMA TransportFine ==
  ASSUME NEW r, NEW s, NEW h, NEW d, NEW t, Fine(r, s, h, d, t)
  PROVE  Fine(r, FlushTransport(s), h, d, t)
<1> DEFINE f == FlushTransport(s)
<1>1. s \in Sending /\ (~scheduled => s.pend = <<>>)
  BY DEF Fine
<1>2. PICK u \in Nat : Ordered(r, s, h, d, u, t)
  BY DEF Fine
<1>3. f \in Sending /\ f.pend = s.pend /\ Chain(r, f.wire, f.tx, f.q, f.next, h, d, u)
  <2>1. Chain(r, s.wire, s.tx, s.q, s.next, h, d, u) /\ f = FlushTransport(s)
    BY <1>2 DEF Ordered
  <2>2. s \in Sending
    BY <1>1
  <2> HIDE DEF f
  <2>3. QED BY <2>1, <2>2, FlushTransportFine
<1> HIDE DEF f
<1>4. Ordered(r, f, h, d, u, t)
  BY <1>2, <1>3 DEF Ordered
<1>5. Fine(r, f, h, d, t)
  BY <1>1, <1>3, <1>4 DEF Fine
<1>6. QED BY <1>5 DEF f

LEMMA CarrierFine ==
  ASSUME NEW r, NEW s, NEW h, NEW d, NEW t, Fine(r, s, h, d, t), NEW g \in FlushCarrier(s)
  PROVE  Fine(r, g, h, d, t)
<1>1. s \in Sending /\ (~scheduled => s.pend = <<>>)
  BY DEF Fine
<1>2. PICK u \in Nat : Ordered(r, s, h, d, u, t)
  BY DEF Fine
<1>3. PICK n \in BatchSizes \cup {0} : g = FlushCarrierBy(s, n)
  BY DEF FlushCarrier
<1>4. n \in Nat
  BY CarrierAssumption
<1>5. g \in Sending /\ g.pend = s.pend /\ Chain(r, g.wire, g.tx, g.q, g.next, h, d, u)
  BY <1>1, <1>2, <1>3, <1>4, FlushCarrierFine DEF Ordered
<1>6. Ordered(r, g, h, d, u, t)
  BY <1>2, <1>5 DEF Ordered
<1>7. QED BY <1>1, <1>5, <1>6 DEF Fine

LEMMA ControlFine ==
  ASSUME NEW r \in Seq(Recs), NEW s, NEW h \in Nat, NEW d \in Seq(Nat), NEW t, Fine(r, s, h, d, t), now \in Nat,
         NEW kind \in Kinds \ {"data"}, NEW val \in Nat
  PROVE  Fine(r, EnqueueControl(s, kind, val), h, d, t)
<1> DEFINE g == EnqueueControl(s, kind, val)
           vals == <<val>>
<1>1. s \in Sending /\ (~scheduled => s.pend = <<>>)
  BY DEF Fine
<1>2. PICK u \in Nat : Ordered(r, s, h, d, u, t)
  BY DEF Fine
<1>3. vals \in Seq(Nat) /\ g = Sealed(s, kind, vals) /\ Later(kind, vals, u, u) /\ u <= u /\ kind \in Kinds
  BY DEF EnqueueControl, Later
<1> HIDE DEF g, vals
<1>4. Chain(r, s.wire, s.tx, s.q, s.next, h, d, u)
  BY <1>2 DEF Ordered
<1>5. g \in Sending /\ g.pend = s.pend /\ Chain(r, g.wire, g.tx, g.q, g.next, h, d, u)
  BY <1>1, <1>3, <1>4, SealedFine
<1>6. Ordered(r, g, h, d, u, t)
  BY <1>2, <1>5 DEF Ordered
<1>7. Fine(r, g, h, d, t)
  BY <1>1, <1>5, <1>6 DEF Fine
<1>8. QED BY <1>7 DEF g

\* drain_pending takes from the front of what waits.
LEMMA DrainedType ==
  ASSUME NEW s \in Sending
  PROVE  Drained(s) \in 0..Len(s.pend)
<1> DEFINE total == Len(s.q) + Len(s.pend)
           stop(i) == total >= QueueLimit /\ Len(s.q) + i >= QueueLimit \div 2
           L == Least(Batch, Len(s.pend))
           P(k) == (\A i \in 0..(k - 1) : ~stop(i)) /\ (k = L \/ stop(k))
           T == {k \in 0..L : k = L \/ stop(k)}
<1>1. L \in Nat /\ L <= Len(s.pend) /\ Len(s.pend) \in Nat
  <2>1. Len(s.pend) \in Nat /\ Batch \in Nat
    BY CarrierAssumption DEF Sending
  <2>2. QED BY <2>1 DEF Least
<1>2. Drained(s) = CHOOSE k \in 0..L : P(k)
  BY DEF Drained
<1> HIDE DEF L, stop
<1>3. T \subseteq Nat /\ L \in T
  BY <1>1
<1>4. PICK k \in T : \A y \in T : k <= y
  <2> HIDE DEF T
  <2> QED BY <1>3, LeastNat
<1>5. ASSUME NEW i \in 0..(k - 1) PROVE ~stop(i)
  <2>1. i \in 0..L /\ i < k /\ k \in Nat /\ i \in Nat
    BY <1>1, <1>4
  <2>2. i \notin T
    BY <1>4, <2>1
  <2>3. QED BY <2>1, <2>2
<1>6. k \in 0..L /\ P(k)
  BY <1>4, <1>5
<1> HIDE DEF P
<1>7. Drained(s) \in 0..L
  BY <1>2, <1>6
<1>8. QED BY <1>1, <1>7

\* What is left of the waiting packets when the first k were sealed, and what was.
LEMMA WaitsCut ==
  ASSUME NEW p \in Seq(Nat), NEW u \in Nat, NEW t \in Nat, Waits(p, u, t), NEW k \in 0..Len(p)
  PROVE  /\ SubSeq(p, 1, k) \in Seq(Nat) /\ SubSeq(p, k + 1, Len(p)) \in Seq(Nat)
         /\ \E v \in Nat : /\ u <= v /\ Later("data", SubSeq(p, 1, k), u, v)
                           /\ Waits(SubSeq(p, k + 1, Len(p)), v, t)
<1> DEFINE a == SubSeq(p, 1, k)
           b == SubSeq(p, k + 1, Len(p))
           v == IF k = 0 THEN u ELSE p[k]
<1>1. a \in Seq(Nat) /\ Len(a) = k /\ Len(p) \in Nat /\ \A i \in 1..k : a[i] = p[i] /\ i \in 1..Len(p)
  OBVIOUS
<1>2. /\ b \in Seq(Nat) /\ Len(b) = Len(p) - k
      /\ \A j \in 1..Len(b) : b[j] = p[j + k] /\ j + k \in 1..Len(p)
  OBVIOUS
<1>3. \A i \in 1..Len(p) : p[i] \in Nat
  OBVIOUS
<1>4. v \in Nat /\ u <= v /\ v <= t
  BY <1>1, <1>3 DEF Waits
<1>5. \A i \in 1..k : u < p[i] /\ p[i] <= v
  <2> SUFFICES ASSUME NEW i \in 1..k PROVE u < p[i] /\ p[i] <= v
    OBVIOUS
  <2>1. i \in 1..Len(p) /\ k \in 1..Len(p) /\ k # 0
    BY <1>1
  <2>2. i = k \/ p[i] < p[k]
    BY <2>1 DEF Waits
  <2>3. QED BY <1>3, <2>1, <2>2 DEF Waits
<1>6. \A j \in 1..Len(b) : v < p[j + k]
  <2> SUFFICES ASSUME NEW j \in 1..Len(b) PROVE v < p[j + k]
    OBVIOUS
  <2>1. j + k \in 1..Len(p) /\ k < j + k
    BY <1>2
  <2>2. k = 0 \/ k \in 1..Len(p)
    BY <1>1
  <2>3. QED BY <2>1, <2>2 DEF Waits
<1> HIDE DEF a, b, v
<1>7. Later("data", a, u, v)
  <2>1. \A i, j \in 1..Len(a) : i < j => a[i] < a[j]
    BY <1>1 DEF Waits
  <2>2. QED BY <1>1, <1>5, <2>1 DEF Later
<1>8. Waits(b, v, t)
  <2>1. ASSUME NEW i \in 1..Len(b), NEW j \in 1..Len(b), i < j PROVE b[i] < b[j]
    <3>1. i + k < j + k /\ i + k \in 1..Len(p) /\ j + k \in 1..Len(p)
      BY <1>2, <2>1
    <3>2. QED BY <1>2, <3>1 DEF Waits
  <2>2. \A i \in 1..Len(b) : v < b[i] /\ b[i] <= t
    BY <1>2, <1>6 DEF Waits
  <2>3. QED BY <1>4, <2>1, <2>2 DEF Waits
<1>9. QED BY <1>1, <1>2, <1>4, <1>7, <1>8 DEF a, b

LEMMA DrainFine ==
  ASSUME NEW r \in Seq(Recs), NEW s, NEW h \in Nat, NEW d \in Seq(Nat), NEW t \in Nat,
         Fine(r, s, h, d, t), now \in Nat
  PROVE  Fine(r, DrainPending(s), h, d, t)
<1>1. s \in Sending /\ (~scheduled => s.pend = <<>>)
  BY DEF Fine
<1>2. PICK u \in Nat : Ordered(r, s, h, d, u, t)
  BY DEF Fine
<1> DEFINE k == Drained(s)
           a == SubSeq(s.pend, 1, k)
           b == SubSeq(s.pend, k + 1, Len(s.pend))
           g == Sealed(s, "data", a)
           f == [g EXCEPT !.pend = b]
<1>3. s.pend \in Seq(Nat) /\ k \in 0..Len(s.pend)
  BY <1>1, DrainedType DEF Sending
<1>4. /\ a \in Seq(Nat) /\ b \in Seq(Nat)
      /\ \E v \in Nat : u <= v /\ Later("data", a, u, v) /\ Waits(b, v, t)
  BY <1>2, <1>3, WaitsCut DEF Ordered
<1> HIDE DEF k, a, b
<1>5. PICK v \in Nat : u <= v /\ Later("data", a, u, v) /\ Waits(b, v, t)
  BY <1>4
<1>6. g \in Sending /\ g.pend = s.pend /\ Chain(r, g.wire, g.tx, g.q, g.next, h, d, v)
  <2>1. Chain(r, s.wire, s.tx, s.q, s.next, h, d, u) /\ "data" \in Kinds
    BY <1>2 DEF Ordered, Kinds
  <2>2. QED BY <1>1, <1>4, <1>5, <2>1, SealedFine
<1>7. DrainPending(s) = s \/ (scheduled /\ DrainPending(s) = f)
  BY <1>6 DEF DrainPending, a, b, k
<1> HIDE DEF g
<1>8. /\ f \in Sending /\ f.pend = b /\ f.wire = g.wire /\ f.tx = g.tx /\ f.q = g.q /\ f.next = g.next
  BY <1>4, <1>6 DEF Sending
<1> HIDE DEF f
<1>9. Ordered(r, f, h, d, v, t)
  BY <1>5, <1>6, <1>8 DEF Ordered
<1>10. scheduled => Fine(r, f, h, d, t)
  BY <1>8, <1>9 DEF Fine
<1>11. QED BY <1>7, <1>10

\* Records and packets that waited too long.
LEMMA ExpireFine ==
  ASSUME NEW r, NEW s, NEW h, NEW d, NEW t \in Nat, Fine(r, s, h, d, t),
         NEW late \in 0..Len(s.pend), NEW f,
         f = [s EXCEPT !.q = Expired(@), !.pend = SubSeq(@, late + 1, Len(@))]
  PROVE  Fine(r, f, h, d, t)
<1>1. s \in Sending /\ (~scheduled => s.pend = <<>>)
  BY DEF Fine
<1>2. PICK u \in Nat : Ordered(r, s, h, d, u, t)
  BY DEF Fine
<1>3. s.q \in Seq(Recs) /\ s.pend \in Seq(Nat)
  BY <1>1 DEF Sending
<1> DEFINE q == Expired(s.q)
           b == SubSeq(s.pend, late + 1, Len(s.pend))
<1>4. Piece(q, s.q)
  <2> DEFINE fresh == {i \in 1..Len(s.q) : now - s.q[i].at <= QueueDelay}
  <2>1. q = IF fresh = {} THEN <<>> ELSE SubSeq(s.q, CHOOSE i \in fresh : \A j \in fresh : i <= j, Len(s.q))
    BY DEF Expired
  <2>2. fresh \subseteq 1..Len(s.q) /\ fresh \subseteq Nat /\ Len(s.q) \in Nat
    BY <1>3
  <2> HIDE DEF fresh, q
  <2>3. CASE fresh = {}
    <3>1. q = <<>> /\ <<>> \in Seq(Recs) /\ Len(<<>>) = 0
      BY <2>1, <2>3
    <3>2. QED BY <3>1 DEF Piece
  <2>4. CASE fresh # {}
    <3>1. \E i \in fresh : \A j \in fresh : i <= j
      BY <2>2, <2>4, LeastNat
    <3> DEFINE a == CHOOSE i \in fresh : \A j \in fresh : i <= j
    <3>2. a \in fresh
      BY <3>1
    <3>3. q = SubSeq(s.q, a, Len(s.q))
      BY <2>1, <2>4
    <3> HIDE DEF a
    <3>4. a \in 1..(Len(s.q) + 1) /\ Len(s.q) \in 0..Len(s.q)
      BY <2>2, <3>2
    <3>5. QED BY <1>3, <3>3, <3>4, PieceOf
  <2>5. QED BY <2>3, <2>4
<1>5. f = [s EXCEPT !.q = q, !.pend = b]
  OBVIOUS
<1>6. b \in Seq(Nat) /\ \E v \in Nat : u <= v /\ Waits(b, v, t)
  BY <1>2, <1>3, WaitsCut DEF Ordered
<1>7. ~scheduled => b = <<>>
  <2>1. CASE scheduled
    BY <2>1
  <2>2. CASE s.pend = <<>>
    <3>1. late = 0 /\ Len(s.pend) = 0
      BY <2>2
    <3>2. Len(b) = 0
      BY <1>3, <3>1
    <3>3. QED BY <1>6, <3>2
  <2>3. QED BY <1>1, <2>1, <2>2
<1> HIDE DEF q, b
<1>8. q \in Seq(Recs) /\ Chain(r, s.wire, s.tx, q, s.next, h, d, u)
  BY <1>2, <1>3, <1>4, ChainPiece DEF Ordered, Piece
<1>9. /\ f \in Sending /\ f.pend = b /\ f.wire = s.wire /\ f.tx = s.tx /\ f.q = q /\ f.next = s.next
  BY <1>1, <1>5, <1>6, <1>8 DEF Sending
<1>10. PICK v \in Nat : u <= v /\ Waits(b, v, t)
  BY <1>6
<1>11. Waits(b, u, t)
  <2>1. \A i \in 1..Len(b) : b[i] \in Nat
    BY <1>6
  <2>2. QED BY <1>10, <2>1 DEF Waits
<1>12. Ordered(r, f, h, d, u, t)
  BY <1>8, <1>9, <1>11 DEF Ordered
<1>13. QED BY <1>7, <1>9, <1>12 DEF Fine

\* Packets read from TUN, with and without the flow scheduler.
LEMMA MoreTaken ==
  ASSUME NEW r, NEW s, NEW h, NEW d, NEW t \in Nat, Fine(r, s, h, d, t), NEW m \in Nat, t <= m
  PROVE  Fine(r, s, h, d, m)
<1>1. PICK u \in Nat : Ordered(r, s, h, d, u, t)
  BY DEF Fine
<1>2. s.pend \in Seq(Nat) /\ \A i \in 1..Len(s.pend) : s.pend[i] \in Nat
  BY DEF Fine, Sending
<1>3. Waits(s.pend, u, m)
  BY <1>1, <1>2 DEF Ordered, Waits
<1>4. QED BY <1>1, <1>3 DEF Fine, Ordered

\* n packets read after the first t.
Burst(t, n) == [i \in 1..n |-> t + i]

LEMMA BurstType ==
  ASSUME NEW t \in Nat, NEW n \in Nat
  PROVE  Burst(t, n) \in Seq(Nat) /\ Len(Burst(t, n)) = n /\ \A i \in 1..n : Burst(t, n)[i] = t + i
BY DEF Burst

LEMMA BurstPrefix ==
  ASSUME NEW t \in Nat, NEW n \in Nat, NEW m \in 0..n
  PROVE  /\ SubSeq(Burst(t, n), 1, m) \in Seq(Nat) /\ Len(SubSeq(Burst(t, n), 1, m)) <= n
         /\ \A i \in 1..Len(SubSeq(Burst(t, n), 1, m)) : SubSeq(Burst(t, n), 1, m)[i] = t + i
<1> DEFINE b == Burst(t, n)
<1>1. b \in Seq(Nat) /\ Len(b) = n /\ \A i \in 1..n : b[i] = t + i
  BY BurstType
<1> HIDE DEF b
<1>2. SubSeq(b, 1, m) \in Seq(Nat) /\ Len(SubSeq(b, 1, m)) = m /\ m \in Nat /\ m <= n
  BY <1>1
<1>3. \A i \in 1..m : SubSeq(b, 1, m)[i] = b[i] /\ i \in 1..n
  BY <1>1
<1>4. QED BY <1>1, <1>2, <1>3 DEF b

\* Packets that wait behind others.
LEMMA WaitsMore ==
  ASSUME NEW p \in Seq(Nat), NEW u \in Nat, NEW t \in Nat, Waits(p, u, t), NEW n \in Nat,
         NEW a \in Seq(Nat), Len(a) <= n, \A i \in 1..Len(a) : a[i] = t + i
  PROVE  p \o a \in Seq(Nat) /\ Waits(p \o a, u, t + n)
<1> DEFINE b == p \o a
           N == Len(p)
<1>1. /\ b \in Seq(Nat) /\ Len(b) = N + Len(a) /\ N \in Nat /\ Len(a) \in Nat
      /\ \A i \in 1..Len(b) : IF i <= N THEN i \in 1..N /\ b[i] = p[i]
                              ELSE i - N \in 1..Len(a) /\ b[i] = a[i - N]
  OBVIOUS
<1>2. \A i \in 1..N : p[i] \in Nat
  OBVIOUS
<1> HIDE DEF b
<1>3. /\ u <= t /\ \A i, j \in 1..N : i < j => p[i] < p[j]
      /\ \A i \in 1..N : u < p[i] /\ p[i] <= t
  BY DEF Waits
<1> HIDE DEF N
<1>4. \A i \in 1..Len(b) : ~(i <= N) => b[i] = t + (i - N) /\ i - N \in 1..Len(a)
  BY <1>1
<1>5. \A i \in 1..Len(b) : i <= N => b[i] = p[i] /\ i \in 1..N
  BY <1>1
<1>6. ASSUME NEW i \in 1..Len(b), NEW j \in 1..Len(b), i < j PROVE b[i] < b[j]
  <2>1. CASE j <= N
    <3>1. i <= N
      BY <1>1, <1>6, <2>1
    <3>2. i \in 1..N /\ j \in 1..N /\ b[i] = p[i] /\ b[j] = p[j]
      BY <1>5, <2>1, <3>1
    <3>3. QED BY <1>3, <1>6, <3>2
  <2>2. CASE i <= N /\ ~(j <= N)
    <3>1. b[i] = p[i] /\ p[i] <= t /\ p[i] \in Nat
      BY <1>2, <1>3, <1>5, <2>2 DEF N
    <3>2. b[j] = t + (j - N) /\ j - N \in 1..Len(a)
      BY <1>4, <2>2
    <3>3. QED BY <1>1, <3>1, <3>2
  <2>3. CASE ~(i <= N) /\ ~(j <= N)
    <3>1. b[i] = t + (i - N) /\ b[j] = t + (j - N)
      BY <1>4, <2>3
    <3>2. QED BY <1>1, <1>6, <3>1
  <2>4. QED BY <1>1, <1>6, <2>1, <2>2, <2>3
<1>7. ASSUME NEW i \in 1..Len(b) PROVE u < b[i] /\ b[i] <= t + n
  <2>1. CASE i <= N
    <3>1. b[i] = p[i] /\ u < p[i] /\ p[i] <= t /\ p[i] \in Nat
      BY <1>2, <1>3, <1>5, <2>1 DEF N
    <3>2. QED BY <3>1
  <2>2. CASE ~(i <= N)
    <3>1. b[i] = t + (i - N) /\ i - N \in 1..Len(a)
      BY <1>4, <2>2
    <3>2. QED BY <1>1, <1>3, <3>1
  <2>3. QED BY <2>1, <2>2
<1>8. u <= t + n
  BY <1>3
<1>9. Waits(b, u, t + n)
  BY <1>6, <1>7, <1>8 DEF Waits
<1>10. QED BY <1>1, <1>9 DEF b

\* A burst without the flow scheduler.
LEMMA BurstSealed ==
  ASSUME NEW r \in Seq(Recs), NEW s, NEW h \in Nat, NEW d \in Seq(Nat), NEW t \in Nat,
         Fine(r, s, h, d, t), now \in Nat, NEW n \in Nat, ~scheduled,
         NEW g, g = Sealed(s, "data", Burst(t, n))
  PROVE  Fine(r, g, h, d, t + n)
<1> DEFINE v == t + n
           vals == Burst(t, n)
           k == "data"
<1>1. s \in Sending
  BY DEF Fine
<1>2. s.pend = <<>>
  BY DEF Fine
<1>3. PICK u \in Nat : Ordered(r, s, h, d, u, t)
  BY DEF Fine
<1>4. Chain(r, s.wire, s.tx, s.q, s.next, h, d, u) /\ u <= t
  BY <1>3 DEF Ordered, Waits
<1>5. vals \in Seq(Nat) /\ Len(vals) = n /\ \A i \in 1..n : vals[i] = t + i
  BY BurstType
<1> HIDE DEF vals
<1>6. v \in Nat /\ u <= v /\ Later(k, vals, u, v) /\ k \in Kinds
  BY <1>4, <1>5 DEF Later, Kinds
<1>7. g = Sealed(s, k, vals)
  BY DEF vals
<1> HIDE DEF v, k
<1>8. g \in Sending /\ g.pend = s.pend /\ Chain(r, g.wire, g.tx, g.q, g.next, h, d, v)
  BY <1>1, <1>4, <1>5, <1>6, <1>7, SealedFine
<1>9. Waits(g.pend, v, v)
  BY <1>2, <1>6, <1>8 DEF Waits
<1>10. Ordered(r, g, h, d, v, v)
  BY <1>8, <1>9 DEF Ordered
<1>11. g.pend = <<>>
  BY <1>2, <1>8
<1>12. Fine(r, g, h, d, v)
  BY <1>6, <1>8, <1>10, <1>11 DEF Fine
<1>13. QED BY <1>12 DEF v

\* A burst into the flow scheduler, which takes the first m packets.
LEMMA BurstQueued ==
  ASSUME NEW r, NEW s, NEW h, NEW d, NEW t \in Nat, Fine(r, s, h, d, t), scheduled,
         NEW n \in Nat, NEW m \in 0..n, NEW f, f = [s EXCEPT !.pend = @ \o SubSeq(Burst(t, n), 1, m)]
  PROVE  Fine(r, f, h, d, t + n)
<1> DEFINE a == SubSeq(Burst(t, n), 1, m)
           b == s.pend \o a
<1>1. s \in Sending /\ s.pend \in Seq(Nat)
  BY DEF Fine, Sending
<1>2. PICK u \in Nat : Ordered(r, s, h, d, u, t)
  BY DEF Fine
<1>3. Chain(r, s.wire, s.tx, s.q, s.next, h, d, u) /\ Waits(s.pend, u, t)
  BY <1>2 DEF Ordered
<1>4. a \in Seq(Nat) /\ Len(a) <= n /\ \A i \in 1..Len(a) : a[i] = t + i
  BY BurstPrefix
<1>5. f = [s EXCEPT !.pend = b]
  OBVIOUS
<1> HIDE DEF a
<1>6. b \in Seq(Nat) /\ Waits(b, u, t + n)
  BY <1>1, <1>3, <1>4, WaitsMore
<1> HIDE DEF b
<1>7. /\ f \in Sending /\ f.pend = b /\ f.wire = s.wire /\ f.tx = s.tx /\ f.q = s.q /\ f.next = s.next
  BY <1>1, <1>5, <1>6 DEF Sending
<1>8. Ordered(r, f, h, d, u, t + n)
  BY <1>3, <1>6, <1>7 DEF Ordered
<1>9. QED BY <1>7, <1>8 DEF Fine

------------------------------------------------------------------------------
\* What the receiver does

\* The next message on the wire is decoded.
LEMMA MessageFine ==
  ASSUME NEW s, NEW h, NEW d, NEW t, Fine(<<>>, s, h, d, t), s.wire # <<>>, NEW f,
         f = [s EXCEPT !.wire = Tail(@)]
  PROVE  Head(s.wire) \in Seq(Recs) /\ Fine(Head(s.wire), f, h, d, t)
<1>1. s \in Sending /\ (~scheduled => s.pend = <<>>) /\ s.wire \in Seq(Seq(Recs))
  BY DEF Fine, Sending
<1>2. PICK u \in Nat : Ordered(<<>>, s, h, d, u, t)
  BY DEF Fine
<1> DEFINE w == s.wire
           v == Tail(w)
           r == Head(w)
<1>3. /\ v \in Seq(Seq(Recs)) /\ Len(v) = Len(w) - 1 /\ Len(w) \in Nat /\ 1 \in 1..Len(w)
      /\ r = w[1] /\ r \in Seq(Recs)
      /\ \A m \in 1..Len(v) : v[m] = w[m + 1] /\ m + 1 \in 1..Len(w) /\ 1 < m + 1
  BY <1>1
<1>4. f = [s EXCEPT !.wire = v]
  OBVIOUS
<1> HIDE DEF v, r
<1>5. /\ f \in Sending /\ f.pend = s.pend /\ f.wire = v /\ f.tx = s.tx /\ f.q = s.q /\ f.next = s.next
  BY <1>1, <1>3, <1>4 DEF Sending
<1>6. Chain(<<>>, w, s.tx, s.q, s.next, h, d, u)
  BY <1>2 DEF Ordered
<1>7. Chain(r, v, s.tx, s.q, s.next, h, d, u)
  <2> HIDE DEF w
  <2>1. /\ Block(r, h, s.next, d, u) /\ Before(r, s.tx) /\ Before(r, s.q)
        /\ \A m \in 1..Len(v) : Before(r, v[m]) /\ Block(v[m], h, s.next, d, u)
                                /\ Before(v[m], s.tx) /\ Before(v[m], s.q)
    BY <1>3, <1>6 DEF Chain
  <2>2. ASSUME NEW m \in 1..Len(v), NEW k \in 1..Len(v), m < k PROVE Before(v[m], v[k])
    <3>1. m + 1 \in 1..Len(w) /\ k + 1 \in 1..Len(w) /\ m + 1 < k + 1
      BY <1>3, <2>2
    <3>2. QED BY <1>3, <1>6, <3>1 DEF Chain
  <2>3. QED BY <1>6, <2>1, <2>2 DEF Chain
<1>8. Ordered(r, f, h, d, u, t)
  BY <1>2, <1>5, <1>7 DEF Ordered
<1>9. Fine(r, f, h, d, t)
  BY <1>1, <1>5, <1>8 DEF Fine
<1>10. QED BY <1>3, <1>9 DEF r

\* A block behind a record that is decoded.
LEMMA DecodedBlock ==
  ASSUME NEW s, NEW h, NEW n, NEW d \in Seq(Nat), NEW u, Block(s, h, n, d, u), NEW x \in Recs,
         \A i \in 1..Len(s) : Prec(x, s[i]),
         NEW b, b = IF x.kind = "data" THEN Append(d, x.val) ELSE d
  PROVE  Block(s, x.seq, n, b, u)
<1>1. \A i \in 1..Len(s) : x.seq < s[i].seq /\ (x.kind = "data" /\ s[i].kind = "data" => x.val < s[i].val)
  BY DEF Prec
<1>2. x.val \in Nat
  BY DEF Recs
<1>3. \A k \in 1..Len(b) : (k \in 1..Len(d) /\ b[k] = d[k]) \/ (x.kind = "data" /\ b[k] = x.val)
  <2>1. CASE x.kind = "data"
    <3>1. b = Append(d, x.val)
      BY <2>1
    <3>2. QED BY <1>2, <2>1, <3>1
  <2>2. CASE x.kind # "data"
    BY <2>2
  <2>3. QED BY <2>1, <2>2
<1>4. \A i \in 1..Len(s) : s[i].kind = "data" => s[i].val <= u /\ \A k \in 1..Len(b) : b[k] < s[i].val
  BY <1>1, <1>3 DEF Block
<1>5. QED BY <1>1, <1>4 DEF Block

\* The first record of the message is newer than all before it, and decoding it
\* leaves the others in order behind it.
LEMMA DecodeFine ==
  ASSUME NEW r \in Seq(Recs), r # <<>>, NEW s, NEW h \in Nat, NEW d \in Seq(Nat), NEW t, Fine(r, s, h, d, t),
         NEW b, b = IF Head(r).kind = "data" THEN Append(d, Head(r).val) ELSE d
  PROVE  /\ h < Head(r).seq /\ Head(r) \in Recs /\ Tail(r) \in Seq(Recs) /\ b \in Seq(Nat)
         /\ Fine(Tail(r), s, Head(r).seq, b, t)
<1> DEFINE x == Head(r)
           z == Tail(r)
<1>1. /\ z \in Seq(Recs) /\ 1 \in 1..Len(r) /\ x = r[1] /\ x \in Recs /\ Len(z) = Len(r) - 1 /\ Len(r) \in Nat
      /\ \A i \in 1..Len(z) : z[i] = r[i + 1] /\ i + 1 \in 1..Len(r) /\ 1 < i + 1
  OBVIOUS
<1>2. b = IF x.kind = "data" THEN Append(d, x.val) ELSE d
  OBVIOUS
<1>3. PICK u \in Nat : Ordered(r, s, h, d, u, t)
  BY DEF Fine
<1>4. Chain(r, s.wire, s.tx, s.q, s.next, h, d, u) /\ Waits(s.pend, u, t)
  BY <1>3 DEF Ordered
<1> HIDE DEF x, z
<1>5. /\ x.seq \in Nat /\ x.val \in Nat /\ h < x.seq /\ x.seq < s.next
      /\ x.kind = "data" => x.val <= u /\ \A k \in 1..Len(d) : d[k] < x.val
  BY <1>1, <1>4 DEF Chain, Block, Recs
<1>6. b \in Seq(Nat)
  BY <1>2, <1>5
<1>7. \A i \in 1..Len(b) : b[i] <= u
  <2>1. CASE x.kind = "data"
    BY <1>2, <1>4, <1>5, <2>1 DEF Chain
  <2>2. CASE x.kind # "data"
    BY <1>2, <1>4, <2>2 DEF Chain
  <2>3. QED BY <2>1, <2>2
<1>8. \A i, j \in 1..Len(b) : i < j => b[i] < b[j]
  <2>1. CASE x.kind = "data"
    <3>1. /\ b = Append(d, x.val) /\ Len(b) = Len(d) + 1 /\ Len(d) \in Nat /\ b[Len(d) + 1] = x.val
          /\ \A i \in 1..Len(d) : b[i] = d[i]
      BY <1>2, <1>5, <2>1
    <3>2. ASSUME NEW i \in 1..Len(b), NEW j \in 1..Len(b), i < j PROVE b[i] < b[j]
      <4>1. i \in 1..Len(d) /\ b[i] = d[i]
        BY <3>1, <3>2
      <4>2. CASE j = Len(d) + 1
        BY <1>5, <2>1, <3>1, <4>1, <4>2
      <4>3. CASE j \in 1..Len(d)
        BY <1>4, <3>1, <3>2, <4>1, <4>3 DEF Chain
      <4>4. QED BY <3>1, <4>2, <4>3
    <3>3. QED BY <3>2
  <2>2. CASE x.kind # "data"
    BY <1>2, <1>4, <2>2 DEF Chain
  <2>3. QED BY <2>1, <2>2
<1>9. Piece(z, r)
  BY <1>1 DEF Piece
<1>10. Block(z, h, s.next, d, u) /\ \A y : Before(r, y) => Before(z, y)
  BY <1>4, <1>9, PieceBlock, PieceBefore DEF Chain
<1>11. \A y : Before(r, y) => \A i \in 1..Len(y) : Prec(x, y[i])
  BY <1>1 DEF Before
<1>12. \A i \in 1..Len(z) : Prec(x, z[i])
  BY <1>1, <1>4 DEF Chain, Block
<1>13. Block(z, x.seq, s.next, b, u)
  BY <1>1, <1>2, <1>10, <1>12, DecodedBlock
<1>14. \A y : Before(r, y) /\ Block(y, h, s.next, d, u) => Block(y, x.seq, s.next, b, u)
  BY <1>1, <1>2, <1>11, DecodedBlock
<1>15. Chain(z, s.wire, s.tx, s.q, s.next, x.seq, b, u)
  BY <1>4, <1>5, <1>7, <1>8, <1>10, <1>13, <1>14 DEF Chain
<1>16. Fine(z, s, x.seq, b, t)
  BY <1>4, <1>15 DEF Fine, Ordered
<1>17. QED BY <1>1, <1>5, <1>6, <1>16 DEF x, z

------------------------------------------------------------------------------
\* The steps of the loop

LEMMA PeerFacts ==
  ASSUME NEW e \in Ends
  PROVE  Peer(e) \in Ends /\ Peer(e) # e /\ Peer(Peer(e)) = e /\ \A x \in Ends : x = e \/ x = Peer(e)
BY DEF Ends, Peer

\* The direction from e, and the types of what it depends on.
LEMMA FromEnd ==
  ASSUME IInv, NEW e \in Ends
  PROVE  /\ Fine(rx[Peer(e)], snd[e], highest[Peer(e)], delivered[Peer(e)], taken[e])
         /\ rx[Peer(e)] \in Seq(Recs) /\ highest[Peer(e)] \in Nat /\ delivered[Peer(e)] \in Seq(Nat)
         /\ snd[e] \in Sending /\ taken[e] \in Nat /\ now \in Nat
BY PeerFacts DEF IInv, Types, Directions

\* A step of the sender at e.
LEMMA SenderStep ==
  ASSUME IInv, NEW e \in Ends, NEW s, snd' = [snd EXCEPT ![e] = s], NEW t \in Nat,
         taken' = [taken EXCEPT ![e] = t], UNCHANGED <<scheduled, rx, highest, delivered>>,
         Fine(rx[Peer(e)], s, highest[Peer(e)], delivered[Peer(e)], t)
  PROVE  snd' \in [Ends -> Sending] /\ taken' \in [Ends -> Nat] /\ Directions'
<1>1. s \in Sending
  BY DEF Fine
<1>2. snd \in [Ends -> Sending] /\ taken \in [Ends -> Nat]
  BY DEF IInv, Types
<1>3. snd' \in [Ends -> Sending] /\ taken' \in [Ends -> Nat]
  BY <1>1, <1>2
<1>4. ASSUME NEW x \in Ends
      PROVE  Fine(rx[Peer(x)], snd'[x], highest[Peer(x)], delivered[Peer(x)], taken'[x])
  <2>1. CASE x = e
    <3>1. snd'[e] = s /\ taken'[e] = t
      BY <1>2
    <3>2. QED BY <2>1, <3>1
  <2>2. CASE x # e
    <3>1. snd'[x] = snd[x] /\ taken'[x] = taken[x]
      BY <1>2, <2>2
    <3>2. Fine(rx[Peer(x)], snd[x], highest[Peer(x)], delivered[Peer(x)], taken[x])
      BY FromEnd
    <3>3. QED BY <3>1, <3>2
  <2>3. QED BY <2>1, <2>2
<1>5. Directions'
  BY <1>4 DEF Directions, Fine
<1>6. QED BY <1>3, <1>5

\* The same with as many packets taken as before.
LEMMA QuietStep ==
  ASSUME IInv, NEW e \in Ends, NEW s, snd' = [snd EXCEPT ![e] = s],
         UNCHANGED <<scheduled, rx, highest, delivered, taken>>,
         Fine(rx[Peer(e)], s, highest[Peer(e)], delivered[Peer(e)], taken[e])
  PROVE  snd' \in [Ends -> Sending] /\ taken' \in [Ends -> Nat] /\ Directions'
<1>1. taken[e] \in Nat /\ taken \in [Ends -> Nat]
  BY FromEnd DEF IInv, Types
<1>2. taken' = [taken EXCEPT ![e] = taken[e]]
  BY <1>1
<1>3. QED BY <1>1, <1>2, SenderStep

LEMMA InitIInv == Init => IInv
<1> SUFFICES ASSUME Init PROVE IInv
  OBVIOUS
<1> DEFINE none == <<>>
           s0 == [pend |-> none, q |-> none, tx |-> none, wire |-> none, next |-> 1]
<1>1. /\ none \in Seq(Nat) /\ none \in Seq(Recs) /\ none \in Seq(Seq(Recs)) /\ Len(none) = 0
  OBVIOUS
<1>2. snd = [e \in Ends |-> s0] /\ rx = [e \in Ends |-> none] /\ delivered = [e \in Ends |-> none]
  BY DEF Init
<1> HIDE DEF none
<1>3. s0 \in Sending
  BY <1>1 DEF Sending
<1>4. s0.pend = none /\ s0.q = none /\ s0.tx = none /\ s0.wire = none /\ s0.next = 1
  OBVIOUS
<1> HIDE DEF s0
<1>5. Types
  <2>1. scheduled \in BOOLEAN
    BY CarrierAssumption DEF Init, scheduled
  <2>2. now \in Nat /\ highest \in [Ends -> Nat] /\ taken \in [Ends -> Nat] /\ DOMAIN why = Ends
    BY DEF Init
  <2>3. pc \in [Ends -> {"head", "tun", "read", "timers", "down"}]
    BY DEF Init
  <2>4. snd \in [Ends -> Sending] /\ rx \in [Ends -> Seq(Recs)] /\ delivered \in [Ends -> Seq(Nat)]
    BY <1>1, <1>2, <1>3
  <2>5. QED BY <2>1, <2>2, <2>3, <2>4 DEF Types
<1>6. Block(none, 0, 1, none, 0) /\ Before(none, none)
  BY <1>1 DEF Block, Before
<1>7. Chain(none, none, none, none, 1, 0, none, 0)
  BY <1>1, <1>6 DEF Chain
<1>8. Waits(none, 0, 0)
  BY <1>1 DEF Waits
<1>9. Ordered(none, s0, 0, none, 0, 0)
  BY <1>4, <1>7, <1>8 DEF Ordered
<1>10. none = <<>>
  BY DEF none
<1>11. Fine(none, s0, 0, none, 0)
  BY <1>3, <1>4, <1>9, <1>10 DEF Fine
<1>12. Directions
  <2> SUFFICES ASSUME NEW e \in Ends
               PROVE  Fine(rx[Peer(e)], snd[e], highest[Peer(e)], delivered[Peer(e)], taken[e])
    BY DEF Directions
  <2>1. Peer(e) \in Ends
    BY PeerFacts
  <2>2. /\ rx[Peer(e)] = none /\ snd[e] = s0 /\ delivered[Peer(e)] = none
        /\ highest[Peer(e)] = 0 /\ taken[e] = 0
    BY <1>2, <2>1 DEF Init
  <2>3. QED BY <1>11, <2>2
<1>13. NoFalseReplay
  BY DEF Init, NoFalseReplay
<1>14. QED BY <1>5, <1>12, <1>13 DEF IInv

\* The parts of Types and NoFalseReplay that a step leaves alone.
LEMMA PhaseTypes ==
  ASSUME IInv, NEW e \in Ends, NEW p \in {"head", "tun", "read", "timers", "down"}, Goto(e, p)
  PROVE  pc' \in [Ends -> {"head", "tun", "read", "timers", "down"}]
BY DEF IInv, Types, Goto

LEMMA ThrowStep ==
  ASSUME IInv, NEW e \in Ends, NEW reason, reason # "replay", Throw(e, reason)
  PROVE  IInv'
<1>1. UNCHANGED <<scheduled, now, snd, rx, highest, taken, delivered>> /\ Goto(e, "down")
  BY DEF Throw, scheduled
<1>2. why' = [why EXCEPT ![e] = reason]
  BY DEF Throw
<1>3. pc' \in [Ends -> {"head", "tun", "read", "timers", "down"}]
  BY <1>1, PhaseTypes
<1>4. DOMAIN why' = Ends
  BY <1>2 DEF IInv, Types
<1>5. Types'
  BY <1>1, <1>3, <1>4 DEF IInv, Types
<1>6. Directions'
  BY <1>1 DEF IInv, Directions, Fine
<1>7. NoFalseReplay'
  <2>1. \A x \in Ends : why'[x] = why[x] \/ why'[x] = reason
    BY <1>2 DEF IInv, Types
  <2>2. QED BY <2>1 DEF IInv, NoFalseReplay
<1>8. QED BY <1>5, <1>6, <1>7 DEF IInv

LEMMA HeadStep ==
  ASSUME IInv, NEW e \in Ends, HeadPhase(e)
  PROVE  IInv'
<1> DEFINE r == rx[Peer(e)]
           h == highest[Peer(e)]
           d == delivered[Peer(e)]
           t == taken[e]
<1>1. /\ Fine(r, snd[e], h, d, t) /\ r \in Seq(Recs) /\ h \in Nat /\ d \in Seq(Nat)
      /\ t \in Nat /\ now \in Nat
  BY FromEnd
<1>2. /\ UNCHANGED <<scheduled, now, rx, highest, delivered, taken, why>> /\ Goto(e, "tun")
  BY DEF HeadPhase, scheduled
<1>3. PICK late \in 0..Len(snd[e].pend) :
        Sets(e, FlushCarrier(DrainPending(FlushTransport(
                  [snd[e] EXCEPT !.q = Expired(@), !.pend = SubSeq(@, late + 1, Len(@))]))))
  BY DEF HeadPhase
<1> DEFINE f == [snd[e] EXCEPT !.q = Expired(@), !.pend = SubSeq(@, late + 1, Len(@))]
<1> HIDE DEF r, h, d, t
<1>4. Fine(r, f, h, d, t)
  BY <1>1, ExpireFine
<1>5. PICK g \in FlushCarrier(DrainPending(FlushTransport(f))) : snd' = [snd EXCEPT ![e] = g]
  BY <1>3 DEF Sets
<1> HIDE DEF f
<1>6. Fine(r, FlushTransport(f), h, d, t)
  BY <1>4, TransportFine
<1>7. Fine(r, DrainPending(FlushTransport(f)), h, d, t)
  BY <1>1, <1>6, DrainFine
<1>8. Fine(r, g, h, d, t)
  BY <1>5, <1>7, CarrierFine
<1>9. snd' \in [Ends -> Sending] /\ taken' \in [Ends -> Nat] /\ Directions'
  <2>1. Fine(rx[Peer(e)], g, highest[Peer(e)], delivered[Peer(e)], taken[e])
    BY <1>8 DEF r, h, d, t
  <2>2. QED BY <1>2, <1>5, <2>1, QuietStep
<1>10. pc' \in [Ends -> {"head", "tun", "read", "timers", "down"}]
  BY <1>2, PhaseTypes
<1>11. Types'
  BY <1>2, <1>9, <1>10 DEF IInv, Types
<1>12. QED BY <1>2, <1>9, <1>11 DEF IInv, NoFalseReplay

LEMMA TunStep ==
  ASSUME IInv, NEW e \in Ends, TunPhase(e)
  PROVE  IInv'
<1> DEFINE r == rx[Peer(e)]
           h == highest[Peer(e)]
           d == delivered[Peer(e)]
           t == taken[e]
           s == FlushTransport(snd[e])
           free == IF Len(s.q) + Len(s.pend) < QueueLimit THEN QueueLimit - Len(s.q) - Len(s.pend) ELSE 0
<1>1. /\ Fine(r, snd[e], h, d, t) /\ r \in Seq(Recs) /\ h \in Nat /\ d \in Seq(Nat)
      /\ t \in Nat /\ now \in Nat
  BY FromEnd
<1>2. /\ UNCHANGED <<scheduled, now, rx, highest, delivered, why>> /\ Goto(e, "read")
  BY DEF TunPhase, scheduled
<1>3. PICK n \in 0..(IF e \in Active THEN Least(ReadBudget, setup.packets - taken[e]) ELSE 0) :
        /\ taken' = [taken EXCEPT ![e] = @ + n]
        /\ Sets(e, IF n = 0 THEN {s}
                   ELSE FlushCarrier(IF scheduled
                          THEN DrainPending([s EXCEPT !.pend = @ \o SubSeq(Burst(t, n), 1, Least(n, free))])
                          ELSE Sealed(s, "data", Burst(t, n))))
  BY DEF TunPhase, Burst
<1>4. n \in Nat
  BY <1>3, <1>1
<1>5. taken' = [taken EXCEPT ![e] = t + n]
  BY <1>3
<1>6. Fine(r, s, h, d, t) /\ s \in Sending
  BY <1>1, TransportFine DEF Fine
<1> HIDE DEF r, h, d, t, s
<1>7. Least(n, free) \in 0..n
  <2>1. Len(s.q) \in Nat /\ Len(s.pend) \in Nat /\ QueueLimit \in Nat
    BY <1>6, CarrierAssumption DEF Sending
  <2>2. free \in Nat
    <3> DEFINE a == Len(s.q)
               b == Len(s.pend)
    <3>1. free = IF a + b < QueueLimit THEN QueueLimit - a - b ELSE 0
      OBVIOUS
    <3> HIDE DEF a, b, free
    <3>2. a \in Nat /\ b \in Nat /\ QueueLimit \in Nat
      BY <2>1 DEF a, b
    <3>3. QED BY <3>1, <3>2
  <2> HIDE DEF free
  <2>3. QED BY <1>4, <2>2 DEF Least
<1> HIDE DEF free
<1>8. PICK g \in (IF n = 0 THEN {s}
                  ELSE FlushCarrier(IF scheduled
                         THEN DrainPending([s EXCEPT !.pend = @ \o SubSeq(Burst(t, n), 1, Least(n, free))])
                         ELSE Sealed(s, "data", Burst(t, n)))) : snd' = [snd EXCEPT ![e] = g]
  BY <1>3 DEF Sets
<1> DEFINE m == Least(n, free)
           f == [s EXCEPT !.pend = @ \o SubSeq(Burst(t, n), 1, m)]
           k == Sealed(s, "data", Burst(t, n))
<1>9. t + n \in Nat /\ t <= t + n
  BY <1>1, <1>4
<1>10. Fine(r, g, h, d, t + n)
  <2>1. CASE n = 0
    <3>1. g = s
      BY <1>8, <2>1
    <3>2. QED BY <1>1, <1>6, <1>9, <3>1, MoreTaken
  <2>2. CASE n # 0 /\ scheduled
    <3>1. g \in FlushCarrier(DrainPending(f))
      BY <1>8, <2>2
    <3>2. m \in 0..n
      BY <1>7
    <3> HIDE DEF m
    <3>3. Fine(r, f, h, d, t + n)
      BY <1>1, <1>4, <1>6, <2>2, <3>2, BurstQueued
    <3> HIDE DEF f
    <3>4. Fine(r, DrainPending(f), h, d, t + n)
      BY <1>1, <1>9, <3>3, DrainFine
    <3>5. QED BY <3>1, <3>4, CarrierFine
  <2>3. CASE n # 0 /\ ~scheduled
    <3>1. g \in FlushCarrier(k)
      BY <1>8, <2>3
    <3>2. Fine(r, k, h, d, t + n)
      BY <1>1, <1>4, <1>6, <2>3, BurstSealed
    <3> HIDE DEF k
    <3>3. QED BY <3>1, <3>2, CarrierFine
  <2>4. QED BY <2>1, <2>2, <2>3
<1>11. snd' \in [Ends -> Sending] /\ taken' \in [Ends -> Nat] /\ Directions'
  <2>1. Fine(rx[Peer(e)], g, highest[Peer(e)], delivered[Peer(e)], t + n)
    BY <1>10 DEF r, h, d
  <2>2. QED BY <1>2, <1>5, <1>8, <1>9, <2>1, SenderStep
<1>12. pc' \in [Ends -> {"head", "tun", "read", "timers", "down"}]
  BY <1>2, PhaseTypes
<1>13. Types'
  BY <1>2, <1>11, <1>12 DEF IInv, Types
<1>14. QED BY <1>2, <1>11, <1>13 DEF IInv, NoFalseReplay

LEMMA MessageStep ==
  ASSUME IInv, NEW e \in Ends, ReadMessage(e)
  PROVE  IInv'
<1> DEFINE p == Peer(e)
           s == snd[p]
           f == [s EXCEPT !.wire = Tail(@)]
           m == Head(s.wire)
<1>1. p \in Ends /\ p # e /\ Peer(p) = e /\ \A x \in Ends : x = e \/ x = p
  BY PeerFacts
<1>2. /\ rx[e] = <<>> /\ s.wire # <<>> /\ rx' = [rx EXCEPT ![e] = m]
      /\ UNCHANGED <<scheduled, now, pc, highest, taken, delivered, why>>
  BY DEF ReadMessage, scheduled
<1>3. snd \in [Ends -> Sending] /\ rx \in [Ends -> Seq(Recs)]
  BY DEF IInv, Types
<1>4. snd' = [snd EXCEPT ![p] = f]
  BY <1>1, <1>3 DEF ReadMessage
<1>5. Fine(<<>>, s, highest[e], delivered[e], taken[p])
  BY <1>1, <1>2, FromEnd
<1>6. m \in Seq(Recs) /\ Fine(m, f, highest[e], delivered[e], taken[p])
  <2>1. s.wire # <<>> /\ f = [s EXCEPT !.wire = Tail(@)]
    BY <1>2
  <2> HIDE DEF s, f
  <2>2. QED BY <1>5, <2>1, MessageFine DEF m
<1> HIDE DEF f, m, p
<1>7. f \in Sending
  BY <1>6 DEF Fine
<1>8. snd' \in [Ends -> Sending] /\ rx' \in [Ends -> Seq(Recs)]
  BY <1>1, <1>2, <1>3, <1>4, <1>6, <1>7
<1>9. Types'
  BY <1>2, <1>8 DEF IInv, Types
<1>10. snd'[p] = f /\ snd'[e] = snd[e] /\ rx'[e] = m /\ rx'[p] = rx[p]
  BY <1>1, <1>2, <1>3, <1>4
<1>11. Peer(e) = p
  BY DEF p
<1>12. Fine(rx'[p], snd'[e], highest[p], delivered[p], taken[e])
  BY <1>10, <1>11, FromEnd
<1>13. Fine(rx'[e], snd'[p], highest[e], delivered[e], taken[p])
  BY <1>6, <1>10
<1>14. \A x \in Ends : Fine(rx'[Peer(x)], snd'[x], highest[Peer(x)], delivered[Peer(x)], taken[x])
  BY <1>1, <1>11, <1>12, <1>13
<1>15. Directions'
  BY <1>2, <1>14 DEF Directions, Fine
<1>16. QED BY <1>2, <1>9, <1>15 DEF IInv, NoFalseReplay

\* The record decoded next is never refused, and decoding it keeps both directions.
LEMMA RecordStep ==
  ASSUME IInv, NEW e \in Ends, ReadRecord(e)
  PROVE  IInv'
<1> DEFINE p == Peer(e)
           x == Head(rx[e])
           b == IF x.kind = "data" THEN Append(delivered[e], x.val) ELSE delivered[e]
           r == rx[p]
           h == highest[p]
           d == delivered[p]
           t == taken[e]
<1>1. p \in Ends /\ p # e /\ Peer(p) = e /\ \A y \in Ends : y = e \/ y = p
  BY PeerFacts
<1>2. rx[e] # <<>>
  BY DEF ReadRecord
<1>3. /\ snd \in [Ends -> Sending] /\ rx \in [Ends -> Seq(Recs)] /\ highest \in [Ends -> Nat]
      /\ delivered \in [Ends -> Seq(Nat)] /\ rx[e] \in Seq(Recs) /\ highest[e] \in Nat
      /\ delivered[e] \in Seq(Nat)
  BY DEF IInv, Types
<1>4. Fine(rx[e], snd[p], highest[e], delivered[e], taken[p])
  BY <1>1, FromEnd
<1>5. /\ highest[e] < x.seq /\ x \in Recs /\ Tail(rx[e]) \in Seq(Recs) /\ b \in Seq(Nat)
      /\ Fine(Tail(rx[e]), snd[p], x.seq, b, taken[p])
  <2> DEFINE c == rx[e]
             a == delivered[e]
  <2>1. b = IF Head(c).kind = "data" THEN Append(a, Head(c).val) ELSE a
    OBVIOUS
  <2>2. /\ c \in Seq(Recs) /\ c # <<>> /\ highest[e] \in Nat /\ a \in Seq(Nat)
        /\ Fine(c, snd[p], highest[e], a, taken[p])
    BY <1>2, <1>3, <1>4
  <2> HIDE DEF a, b, c
  <2>3. /\ highest[e] < Head(c).seq /\ Head(c) \in Recs /\ Tail(c) \in Seq(Recs) /\ b \in Seq(Nat)
        /\ Fine(Tail(c), snd[p], Head(c).seq, b, taken[p])
    BY <2>1, <2>2, DecodeFine
  <2>4. QED BY <2>3 DEF c
<1>6. x.seq \in Nat /\ x.val \in Nat
  BY <1>5 DEF Recs
<1>7. ~Replayed(e)
  BY <1>3, <1>5, <1>6 DEF Replayed
<1>8. Accepted(e)
  BY <1>7 DEF ReadRecord
<1>9. /\ highest' = [highest EXCEPT ![e] = x.seq] /\ rx' = [rx EXCEPT ![e] = Tail(rx[e])]
      /\ UNCHANGED <<scheduled, now, pc, taken, why>>
  BY <1>3, <1>8 DEF Accepted, scheduled
<1>10. delivered' = [delivered EXCEPT ![e] = b]
  <2>1. delivered' = IF x.kind = "data" THEN [delivered EXCEPT ![e] = Append(@, x.val)] ELSE delivered
    BY <1>8 DEF Accepted
  <2>2. CASE x.kind = "data"
    BY <1>3, <2>1, <2>2
  <2>3. CASE x.kind # "data"
    BY <1>3, <2>1, <2>3
  <2>4. QED BY <2>2, <2>3
<1> DEFINE s == IF x.kind = "ping" THEN EnqueueControl(snd[e], "pong", x.val) ELSE snd[e]
<1>11. PICK g : (g = s \/ g \in FlushCarrier(s)) /\ snd' = [snd EXCEPT ![e] = g]
  BY <1>8 DEF Accepted, Sets
<1>12. Fine(r, snd[e], h, d, t) /\ r \in Seq(Recs) /\ h \in Nat /\ d \in Seq(Nat) /\ now \in Nat
  BY FromEnd
<1> HIDE DEF b, x, r, h, d, t
<1>13. Fine(r, s, h, d, t)
  <2>1. CASE x.kind = "ping"
    <3> DEFINE k == "pong"
    <3>1. k \in Kinds \ {"data"}
      BY DEF Kinds
    <3> HIDE DEF k
    <3>2. Fine(r, EnqueueControl(snd[e], k, x.val), h, d, t)
      BY <1>6, <1>12, <3>1, ControlFine
    <3>3. QED BY <2>1, <3>2 DEF k
  <2>2. CASE x.kind # "ping"
    BY <1>12, <2>2
  <2>3. QED BY <2>1, <2>2
<1> HIDE DEF s
<1>14. Fine(r, g, h, d, t) /\ g \in Sending
  <2>1. CASE g = s
    BY <1>13, <2>1 DEF Fine
  <2>2. CASE g \in FlushCarrier(s)
    <3>1. Fine(r, g, h, d, t)
      BY <1>13, <2>2, CarrierFine
    <3>2. QED BY <3>1 DEF Fine
  <2>3. QED BY <1>11, <2>1, <2>2
<1>15. snd' \in [Ends -> Sending]
  BY <1>3, <1>11, <1>14
<1>16. rx' \in [Ends -> Seq(Recs)]
  BY <1>3, <1>5, <1>9
<1>17. highest' \in [Ends -> Nat]
  BY <1>3, <1>6, <1>9
<1>18. delivered' \in [Ends -> Seq(Nat)]
  BY <1>3, <1>5, <1>10
<1>19. Types'
  BY <1>9, <1>15, <1>16, <1>17, <1>18 DEF IInv, Types
<1>20. Peer(e) = p
  BY DEF p
<1> HIDE DEF p
<1>21. /\ rx'[e] = Tail(rx[e]) /\ rx'[p] = rx[p] /\ highest'[e] = x.seq /\ highest'[p] = highest[p]
  BY <1>1, <1>3, <1>9
<1>22. delivered'[e] = b /\ delivered'[p] = delivered[p]
  BY <1>1, <1>3, <1>10
<1>23. snd'[e] = g /\ snd'[p] = snd[p]
  BY <1>1, <1>3, <1>11
<1>24. Fine(rx'[p], snd'[e], highest'[p], delivered'[p], taken[e])
  BY <1>14, <1>21, <1>22, <1>23 DEF r, h, d, t
<1>25. Fine(rx'[e], snd'[p], highest'[e], delivered'[e], taken[p])
  BY <1>5, <1>21, <1>22, <1>23
<1>26. \A y \in Ends : Fine(rx'[Peer(y)], snd'[y], highest'[Peer(y)], delivered'[Peer(y)], taken[y])
  BY <1>1, <1>20, <1>24, <1>25
<1>27. Directions'
  BY <1>9, <1>26 DEF Directions, Fine
<1>28. QED BY <1>9, <1>19, <1>27 DEF IInv, NoFalseReplay

LEMMA ReadEndStep ==
  ASSUME IInv, NEW e \in Ends, ReadPhaseEnds(e)
  PROVE  IInv'
<1> DEFINE g == FlushTransport(snd[e])
<1>1. /\ UNCHANGED <<scheduled, now, rx, highest, delivered, taken, why>> /\ Goto(e, "timers")
      /\ snd' = [snd EXCEPT ![e] = g]
  BY DEF ReadPhaseEnds, Sets, scheduled
<1>2. Fine(rx[Peer(e)], g, highest[Peer(e)], delivered[Peer(e)], taken[e])
  BY FromEnd, TransportFine
<1> HIDE DEF g
<1>3. snd' \in [Ends -> Sending] /\ taken' \in [Ends -> Nat] /\ Directions'
  BY <1>1, <1>2, QuietStep
<1>4. pc' \in [Ends -> {"head", "tun", "read", "timers", "down"}]
  BY <1>1, PhaseTypes
<1>5. Types'
  BY <1>1, <1>3, <1>4 DEF IInv, Types
<1>6. QED BY <1>1, <1>3, <1>5 DEF IInv, NoFalseReplay

LEMMA TimersStep ==
  ASSUME IInv, NEW e \in Ends, TimersPhase(e)
  PROVE  IInv'
<1> DEFINE r == rx[Peer(e)]
           h == highest[Peer(e)]
           d == delivered[Peer(e)]
           t == taken[e]
           ping == "ping"
           keepalive == "keepalive"
<1>1. /\ Fine(r, snd[e], h, d, t) /\ r \in Seq(Recs) /\ h \in Nat /\ d \in Seq(Nat)
      /\ t \in Nat /\ now \in Nat
  BY FromEnd
<1>2. /\ UNCHANGED <<scheduled, now, rx, highest, delivered, taken, why>> /\ Goto(e, "head")
  BY DEF TimersPhase, scheduled
<1>3. PICK probed :
        /\ probed = snd[e] \/ probed \in FlushCarrier(EnqueueControl(snd[e], ping, now))
        /\ \E kept \in {probed} \cup (IF MayKeepAlive(probed)
                                      THEN FlushCarrier(EnqueueControl(probed, keepalive, 0)) ELSE {}) :
             Sets(e, IF DrainPending(kept).q # <<>> THEN FlushCarrier(DrainPending(kept))
                     ELSE {DrainPending(kept)})
  BY DEF TimersPhase
<1>4. PICK kept :
        /\ kept = probed \/ kept \in FlushCarrier(EnqueueControl(probed, keepalive, 0))
        /\ Sets(e, IF DrainPending(kept).q # <<>> THEN FlushCarrier(DrainPending(kept))
                   ELSE {DrainPending(kept)})
  BY <1>3
<1>5. PICK g : (g = DrainPending(kept) \/ g \in FlushCarrier(DrainPending(kept)))
               /\ snd' = [snd EXCEPT ![e] = g]
  BY <1>4 DEF Sets
<1>6. ping \in Kinds \ {"data"} /\ keepalive \in Kinds \ {"data"} /\ 0 \in Nat
  BY DEF Kinds
<1> HIDE DEF r, h, d, t, ping, keepalive
<1>7. Fine(r, probed, h, d, t)
  <2>1. Fine(r, EnqueueControl(snd[e], ping, now), h, d, t)
    BY <1>1, <1>6, ControlFine
  <2>2. QED BY <1>1, <1>3, <2>1, CarrierFine
<1>8. Fine(r, kept, h, d, t)
  <2>1. Fine(r, EnqueueControl(probed, keepalive, 0), h, d, t)
    BY <1>1, <1>6, <1>7, ControlFine
  <2>2. QED BY <1>4, <1>7, <2>1, CarrierFine
<1>9. Fine(r, DrainPending(kept), h, d, t)
  BY <1>1, <1>8, DrainFine
<1>10. Fine(r, g, h, d, t)
  BY <1>5, <1>9, CarrierFine
<1>11. snd' \in [Ends -> Sending] /\ taken' \in [Ends -> Nat] /\ Directions'
  <2>1. Fine(rx[Peer(e)], g, highest[Peer(e)], delivered[Peer(e)], taken[e])
    BY <1>10 DEF r, h, d, t
  <2>2. QED BY <1>2, <1>5, <2>1, QuietStep
<1>12. pc' \in [Ends -> {"head", "tun", "read", "timers", "down"}]
  BY <1>2, PhaseTypes
<1>13. Types'
  BY <1>2, <1>11, <1>12 DEF IInv, Types
<1>14. QED BY <1>2, <1>11, <1>13 DEF IInv, NoFalseReplay

LEMMA NextIInv == IInv /\ [Next]_vars => IInv'
<1> SUFFICES ASSUME IInv, [Next]_vars PROVE IInv'
  OBVIOUS
<1>1. CASE Tick
  <2>1. UNCHANGED <<scheduled, pc, snd, rx, highest, taken, delivered, why>> /\ now' \in Nat
    BY <1>1 DEF Tick, IInv, Types, scheduled
  <2>2. Types' /\ NoFalseReplay'
    BY <2>1 DEF IInv, Types, NoFalseReplay
  <2>3. Directions'
    BY <2>1 DEF IInv, Directions, Fine
  <2>4. QED BY <2>2, <2>3 DEF IInv
<1>2. ASSUME NEW e \in Ends, Loop(e) \/ Fail(e) PROVE IInv'
  <2>1. CASE ReplyTimedOut(e)
    BY <2>1, ThrowStep DEF ReplyTimedOut
  <2>2. CASE PeerClosed(e)
    BY <2>2, ThrowStep DEF PeerClosed
  <2>3. CASE Fail(e)
    BY <2>3, ThrowStep DEF Fail
  <2>4. QED
    BY <1>2, <2>1, <2>2, <2>3, HeadStep, TunStep, MessageStep, RecordStep, ReadEndStep, TimersStep
    DEF Loop
<1>3. CASE UNCHANGED vars
  <2>1. UNCHANGED <<scheduled, now, pc, snd, rx, highest, taken, delivered, why>>
    BY <1>3 DEF vars, scheduled
  <2>2. Types' /\ NoFalseReplay'
    BY <2>1 DEF IInv, Types, NoFalseReplay
  <2>3. Directions'
    BY <2>1 DEF IInv, Directions, Fine
  <2>4. QED BY <2>2, <2>3 DEF IInv
<1>4. QED BY <1>1, <1>2, <1>3 DEF Next

------------------------------------------------------------------------------
\* An honest peer is never taken for a replay: the sequence numbers that feed_aead
\* compares arrive strictly increasing, whatever enqueue, the delay limit, the
\* flow scheduler, shaping and batching drop or hold back.
THEOREM HonestPeerAccepted == Spec => []NoFalseReplay
<1>1. IInv => NoFalseReplay
  BY DEF IInv
<1>2. QED BY <1>1, InitIInv, NextIInv, PTL DEF Spec

\* Packets reach the other TUN in the order in which they were read, none twice
\* and none that was not read, although any of them may have been dropped.
THEOREM PacketsInOrder == Spec => []DeliveredInOrder
<1>1. IInv => DeliveredInOrder
  <2> SUFFICES ASSUME IInv, NEW e \in Ends
               PROVE  /\ \A i, j \in 1..Len(delivered[e]) : i < j => delivered[e][i] < delivered[e][j]
                      /\ \A i \in 1..Len(delivered[e]) : delivered[e][i] <= taken[Peer(e)]
    BY DEF DeliveredInOrder
  <2> DEFINE p == Peer(e)
             d == delivered[e]
  <2>1. p \in Ends /\ Peer(p) = e
    BY PeerFacts
  <2>2. Fine(rx[e], snd[p], highest[e], d, taken[p]) /\ d \in Seq(Nat) /\ taken[p] \in Nat
    BY <2>1, FromEnd
  <2> HIDE DEF p, d
  <2>3. PICK u \in Nat : Ordered(rx[e], snd[p], highest[e], d, u, taken[p])
    BY <2>2 DEF Fine
  <2>4. /\ \A i, j \in 1..Len(d) : i < j => d[i] < d[j]
        /\ \A i \in 1..Len(d) : d[i] <= u
    BY <2>3 DEF Ordered, Chain
  <2>5. u <= taken[p] /\ \A i \in 1..Len(d) : d[i] \in Nat
    BY <2>2, <2>3 DEF Ordered, Waits
  <2>6. \A i \in 1..Len(d) : d[i] <= taken[p]
    BY <2>2, <2>4, <2>5
  <2>7. QED BY <2>4, <2>6 DEF p, d
<1>2. QED BY <1>1, InitIInv, NextIInv, PTL DEF Spec

=============================================================================
