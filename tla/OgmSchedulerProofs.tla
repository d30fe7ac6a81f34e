------------------------- MODULE OgmSchedulerProofs -------------------------
(* The send queue and the packets, for any number of interfaces, any        *)
(* configuration of them, any OGMs received and any length of the queue.    *)
EXTENDS OgmScheduler, WalkLemmas, FiniteSetTheorems, TLAPS

-----------------------------------------------------------------------------
(* The first of the walks: what a buffer holds.                             *)
Ogm == [own : BOOLEAN, len : Nat]

(* Bytes() walks a buffer.                                                  *)
LEMMA BytesWalk ==
  ASSUME NEW b \in Seq(Ogm)
  PROVE  \E f \in [0..Len(b) -> Nat] :
           /\ Bytes(b) = f[Len(b)] /\ f[0] = Hdr
           /\ \A k \in 1..Len(b) : f[k] = f[k - 1] + b[k].len
<1> DEFINE n == Len(b)
           Sum(f) == [k \in 0..n |-> IF k = 0 THEN Hdr ELSE f[k - 1] + b[k].len]
           step == [x \in Nat \X (1..n) |-> x[1] + b[x[2]].len]
<1>1. n \in Nat /\ Hdr \in Nat /\ \A k \in 1..n : b[k].len \in Nat
  <2>1. \A k \in 1..n : b[k] \in Ogm
    OBVIOUS
  <2> QED
    BY <2>1, SizeAssumption DEF Ogm
<1>2. step \in [Nat \X (1..n) -> Nat]
  BY <1>1
<1>3. \A x \in Nat, k \in 1..n : step[<<x, k>>] = x + b[k].len
  OBVIOUS
<1>4. PICK f \in [0..n -> Nat] : f[0] = Hdr /\ \A k \in 1..n : f[k] = step[<<f[k - 1], k>>]
  <2> HIDE DEF step, n, Sum
  <2>1. PICK f : Walks(f, Nat, Hdr, n, step)
    BY <1>1, <1>2, WalkExists
  <2> QED
    BY <2>1 DEF Walks
<1>5. \A k \in 1..n : k - 1 \in 0..n /\ f[k - 1] \in Nat
  BY <1>1
<1>6. \A k \in 1..n : f[k] = f[k - 1] + b[k].len
  <2> HIDE DEF step
  <2> QED
    BY <1>3, <1>4, <1>5
<1>7. f = Sum(f)
  BY <1>4, <1>6
<1> DEFINE g == CHOOSE h : h = Sum(h)
<1>8. g = Sum(g)
  BY <1>7
<1>9. Bytes(b) = g[n]
  BY DEF Bytes
<1> HIDE DEF g
<1>10. g[0] = Hdr /\ \A k \in 1..n : g[k] = g[k - 1] + b[k].len
  BY <1>1, <1>8
<1>11. f[n] = g[n]
  <2> HIDE DEF n
  <2>1. \A k \in 1..n : f[k - 1] = g[k - 1] => f[k] = g[k]
    BY <1>6, <1>10
  <2>2. f[0] = g[0]
    BY <1>4, <1>10
  <2> QED
    BY <1>1, <2>1, <2>2, WalkUnique
<1> QED
  BY <1>4, <1>6, <1>9, <1>11

(* An empty buffer.                                                         *)
LEMMA BytesEmpty == Bytes(<<>>) = Hdr
<1>1. <<>> \in Seq(Ogm) /\ Len(<<>>) = 0
  OBVIOUS
<1>2. PICK f \in [0..Len(<<>>) -> Nat] : Bytes(<<>>) = f[Len(<<>>)] /\ f[0] = Hdr
  BY <1>1, BytesWalk
<1> QED
  BY <1>1, <1>2

(* A buffer with one more OGM.                                              *)
LEMMA BytesAppend ==
  ASSUME NEW b \in Seq(Ogm), NEW e \in Ogm
  PROVE  Bytes(Append(b, e)) = Bytes(b) + e.len
<1> DEFINE c == Append(b, e)
           n == Len(b)
<1>1. c \in Seq(Ogm) /\ Len(c) = n + 1 /\ n \in Nat /\ c[n + 1] = e /\ \A k \in 1..n : c[k] = b[k]
  OBVIOUS
<1>2. PICK f \in [0..Len(b) -> Nat] :
           /\ Bytes(b) = f[Len(b)] /\ f[0] = Hdr
           /\ \A k \in 1..Len(b) : f[k] = f[k - 1] + b[k].len
  BY BytesWalk
<1>3. PICK g \in [0..Len(c) -> Nat] :
           /\ Bytes(c) = g[Len(c)] /\ g[0] = Hdr
           /\ \A k \in 1..Len(c) : g[k] = g[k - 1] + c[k].len
  <2> HIDE DEF c
  <2> QED
    BY <1>1, BytesWalk
<1> HIDE DEF c
<1>4. f[n] = g[n]
  <2>1. ASSUME NEW k \in 1..n, f[k - 1] = g[k - 1] PROVE f[k] = g[k]
    <3>1. k \in 1..Len(b) /\ k \in 1..Len(c) /\ c[k] = b[k]
      BY <1>1
    <3>2. f[k] = f[k - 1] + b[k].len /\ g[k] = g[k - 1] + c[k].len
      BY <1>2, <1>3, <3>1
    <3> QED
      BY <2>1, <3>1, <3>2
  <2>2. f[0] = g[0] /\ n \in Nat
    BY <1>1, <1>2, <1>3
  <2> HIDE DEF n
  <2> QED
    BY <2>1, <2>2, WalkUnique
<1>5. n + 1 \in 1..Len(c) /\ (n + 1) - 1 = n
  BY <1>1
<1>6. g[n + 1] = g[n] + e.len
  BY <1>1, <1>3, <1>5
<1> QED
  BY <1>1, <1>2, <1>3, <1>4, <1>6 DEF c

(* remove_outstanding_ogms() walks the queue.                               *)
LEMMA OutstandingWalk ==
  ASSUME NEW q \in Seq(Node), NEW i
  PROVE  /\ Outstanding(q, i) \in [0..Len(q) -> Seq(Node)]
         /\ Outstanding(q, i)[0] = <<>>
         /\ \A k \in 1..Len(q) :
              Outstanding(q, i)[k] = IF q[k].out = i THEN Outstanding(q, i)[k - 1]
                                     ELSE Append(Outstanding(q, i)[k - 1], q[k])
<1> DEFINE n == Len(q)
           After(w, k) == IF q[k].out = i THEN w ELSE Append(w, q[k])
           Val(f, k) == IF k = 0 THEN <<>>
                        ELSE IF q[k].out = i THEN f[k - 1] ELSE Append(f[k - 1], q[k])
           Left(f) == [k \in 0..n |-> Val(f, k)]
           step == [x \in Seq(Node) \X (1..n) |-> After(x[1], x[2])]
<1>1. n \in Nat /\ <<>> \in Seq(Node) /\ \A k \in 1..n : q[k] \in Node
  OBVIOUS
<1>2. \A w \in Seq(Node), k \in 1..n : After(w, k) \in Seq(Node)
  BY <1>1
<1>3. step \in [Seq(Node) \X (1..n) -> Seq(Node)]
  <2> HIDE DEF After, n
  <2> QED
    BY <1>2
<1>4. \A w \in Seq(Node), k \in 1..n : step[<<w, k>>] = After(w, k)
  <2> HIDE DEF After
  <2> QED
    OBVIOUS
<1>5. PICK f : Walks(f, Seq(Node), <<>>, n, step)
  <2> HIDE DEF step, n, Left, After
  <2> QED
    BY <1>1, <1>3, WalkExists
<1>6. f \in [0..n -> Seq(Node)] /\ f[0] = <<>> /\ \A k \in 1..n : f[k] = After(f[k - 1], k)
  <2>1. f \in [0..n -> Seq(Node)] /\ f[0] = <<>> /\ \A k \in 1..n : f[k] = step[<<f[k - 1], k>>]
    BY <1>5 DEF Walks
  <2>2. \A k \in 1..n : f[k - 1] \in Seq(Node)
    BY <1>1, <2>1
  <2> HIDE DEF step, After, n
  <2> QED
    BY <1>4, <2>1, <2>2
<1>7. f = Left(f)
  <2>1. \A k \in 0..n : k # 0 => k \in 1..n
    BY <1>1
  <2>2. \A k \in 0..n : f[k] = Val(f, k)
    BY <1>6, <2>1
  <2> HIDE DEF Val, n
  <2> QED
    BY <1>6, <2>2
<1> DEFINE g == CHOOSE h : h = Left(h)
<1>8. g = Left(g)
  BY <1>7, Zenon
<1>9. Outstanding(q, i) = g
  BY DEF Outstanding
<1> HIDE DEF g
<1>10. DOMAIN g = 0..n /\ g[0] = <<>> /\ \A k \in 1..n : g[k] = After(g[k - 1], k)
  <2>1. DOMAIN g = 0..n /\ \A k \in 0..n : g[k] = Val(g, k)
    <3> HIDE DEF Val, n
    <3> QED
      BY <1>8
  <2>2. 0 \in 0..n /\ \A k \in 1..n : k \in 0..n /\ k # 0
    BY <1>1
  <2>3. Val(g, 0) = <<>> /\ \A k \in 1..n : Val(g, k) = After(g[k - 1], k)
    BY <2>2
  <2> HIDE DEF Val, After, n
  <2> QED
    BY <2>1, <2>2, <2>3
<1>11. \A k \in 0..n : g[k] \in Seq(Node)
  <2> DEFINE S == {k \in 0..n : g[k] \in Seq(Node)}
  <2>1. 0 \in S
    <3>1. 0 \in 0..n
      BY <1>1
    <3> HIDE DEF n
    <3> QED
      BY <1>1, <1>10, <3>1
  <2>2. \A k \in 1..n : k - 1 \in S => k \in S
    <3> HIDE DEF After
    <3> QED
      BY <1>1, <1>2, <1>10
  <2>3. \A k \in 0..n : k \in S
    <3> HIDE DEF S, n
    <3> QED
      BY <1>1, <2>1, <2>2, UpTo
  <2> QED
    BY <2>3
<1>12. g \in [0..n -> Seq(Node)]
  <2>1. g = [k \in 0..n |-> g[k]]
    BY <1>8
  <2> QED
    BY <1>11, <2>1
<1> QED
  BY <1>9, <1>10, <1>12

(* w is what is left of the first k nodes of q, e says where it comes from. *)
LeftOf(w, q, k, i, e) ==
  /\ w \in Seq(Node) /\ e \in [1..Len(w) -> 1..k]
  /\ \A m \in 1..Len(w) : w[m] = q[e[m]] /\ q[e[m]].out # i
  /\ \A m, o \in 1..Len(w) : e[m] = e[o] => m = o
  /\ \A p \in 1..k : q[p].out # i => \E m \in 1..Len(w) : e[m] = p

(* Nodes of other interfaces stay, each once, and no others.                *)
LEMMA OutstandingLeft ==
  ASSUME NEW q \in Seq(Node), NEW i, NEW k \in 0..Len(q)
  PROVE  \E e : LeftOf(Outstanding(q, i)[k], q, k, i, e)
<1> DEFINE f == Outstanding(q, i)
           n == Len(q)
           S == {m \in 0..n : \E e : LeftOf(f[m], q, m, i, e)}
<1>0. n \in Nat /\ \A m \in 1..n : q[m] \in Node
  OBVIOUS
<1>1. /\ f \in [0..n -> Seq(Node)] /\ f[0] = <<>>
      /\ \A m \in 1..n : f[m] = IF q[m].out = i THEN f[m - 1] ELSE Append(f[m - 1], q[m])
  BY OutstandingWalk
<1> HIDE DEF f
<1>2. 0 \in S
  <2>1. LeftOf(<<>>, q, 0, i, [m \in 1..0 |-> 0])
    BY DEF LeftOf
  <2> QED
    BY <1>0, <1>1, <2>1
<1>3. ASSUME NEW m \in 1..n, m - 1 \in S
      PROVE  m \in S
  <2> DEFINE w == f[m - 1]
  <2>1. PICK e : LeftOf(w, q, m - 1, i, e)
    BY <1>3
  <2>2. /\ w \in Seq(Node) /\ e \in [1..Len(w) -> 1..(m - 1)]
        /\ \A a \in 1..Len(w) : w[a] = q[e[a]] /\ q[e[a]].out # i
        /\ \A a, o \in 1..Len(w) : e[a] = e[o] => a = o
        /\ \A p \in 1..(m - 1) : q[p].out # i => \E a \in 1..Len(w) : e[a] = p
    BY <2>1 DEF LeftOf
  <2>3. f[m] = IF q[m].out = i THEN w ELSE Append(w, q[m])
    BY <1>1
  <2> HIDE DEF w
  <2>4. CASE q[m].out = i
    <3>1. e \in [1..Len(w) -> 1..m]
      BY <2>2
    <3>2. \A p \in 1..m : q[p].out # i => p \in 1..(m - 1)
      BY <2>4
    <3>3. LeftOf(w, q, m, i, e)
      BY <2>2, <3>1, <3>2 DEF LeftOf
    <3> QED
      BY <2>3, <2>4, <3>3
  <2>5. CASE q[m].out # i
    <3> DEFINE v == Append(w, q[m])
               l == Len(w)
               d == [a \in 1..(l + 1) |-> IF a = l + 1 THEN m ELSE e[a]]
    <3>1. v \in Seq(Node) /\ Len(v) = l + 1 /\ v[l + 1] = q[m] /\ l \in Nat
          /\ \A a \in 1..l : v[a] = w[a]
      BY <1>0, <2>2
    <3>2. \A a \in 1..l : e[a] \in 1..(m - 1) /\ e[a] # m
      BY <2>2
    <3>3. \A a \in 1..(l + 1) : a # l + 1 => a \in 1..l
      BY <3>1
    <3> HIDE DEF v, l
    <3>4. d \in [1..(l + 1) -> 1..m]
      <4>1. \A a \in 1..l : e[a] \in 1..m
        BY <3>2
      <4> QED
        BY <3>1, <3>3, <4>1
    <3>5. d[l + 1] = m /\ \A a \in 1..l : d[a] = e[a]
      BY <3>1
    <3> HIDE DEF d
    <3>6. \A a \in 1..(l + 1) : v[a] = q[d[a]] /\ q[d[a]].out # i
      BY <2>2, <2>5, <3>1, <3>3, <3>5 DEF l
    <3>7. \A a, o \in 1..(l + 1) : d[a] = d[o] => a = o
      BY <2>2, <3>2, <3>3, <3>5 DEF l
    <3>8. ASSUME NEW p \in 1..m, q[p].out # i
          PROVE  \E a \in 1..(l + 1) : d[a] = p
      <4>1. CASE p = m
        BY <3>1, <3>5, <4>1
      <4>2. CASE p # m
        <5>1. p \in 1..(m - 1)
          BY <4>2
        <5>2. PICK a \in 1..l : e[a] = p
          BY <2>2, <3>8, <5>1 DEF l
        <5>3. a \in 1..(l + 1)
          BY <3>1
        <5> QED
          BY <3>5, <5>2, <5>3
      <4> QED
        BY <4>1, <4>2
    <3>9. LeftOf(v, q, m, i, d)
      BY <3>1, <3>4, <3>6, <3>7, <3>8 DEF LeftOf
    <3>10. f[m] = v
      BY <2>3, <2>5 DEF v
    <3>11. m \in 0..n
      BY <1>0
    <3> QED
      BY <3>9, <3>10, <3>11
  <2> QED
    BY <2>4, <2>5
<1>4. \A m \in 0..n : m \in S
  <2> HIDE DEF S, n
  <2> QED
    BY <1>0, <1>2, <1>3, UpTo
<1> QED
  BY <1>4 DEF f

(* Of more nodes no fewer are left.                                         *)
LEMMA OutstandingGrows ==
  ASSUME NEW q \in Seq(Node), NEW i, NEW k \in 0..Len(q)
  PROVE  Len(Outstanding(q, i)[k]) \in 0..Len(Outstanding(q, i)[Len(q)])
<1> DEFINE f == Outstanding(q, i)
           n == Len(q)
           S == {m \in 0..n : m >= k => Len(f[k]) <= Len(f[m])}
<1>0. n \in Nat /\ \A m \in 1..n : q[m] \in Node
  OBVIOUS
<1>1. /\ f \in [0..n -> Seq(Node)]
      /\ \A m \in 1..n : f[m] = IF q[m].out = i THEN f[m - 1] ELSE Append(f[m - 1], q[m])
  BY OutstandingWalk
<1> HIDE DEF f
<1>2. \A m \in 0..n : f[m] \in Seq(Node) /\ Len(f[m]) \in Nat
  BY <1>1
<1>3. 0 \in S
  BY <1>0, <1>2
<1>4. ASSUME NEW m \in 1..n, m - 1 \in S
      PROVE  m \in S
  <2>1. m - 1 \in 0..n /\ m \in 0..n
    BY <1>0
  <2>2. Len(f[m]) \in {Len(f[m - 1]), Len(f[m - 1]) + 1}
    <3> DEFINE w == f[m - 1]
               x == q[m]
    <3>1. f[m] = w \/ f[m] = Append(w, x)
      BY <1>1
    <3>2. w \in Seq(Node) /\ x \in Node
      BY <1>0, <1>2, <2>1
    <3> HIDE DEF w, x
    <3>3. Len(Append(w, x)) = Len(w) + 1
      BY <3>2
    <3>4. Len(f[m]) \in {Len(w), Len(w) + 1}
      BY <3>1, <3>3
    <3> QED
      BY <3>4 DEF w
  <2>3. CASE m = k
    BY <1>2, <2>1, <2>3
  <2>4. CASE m # k
    BY <1>2, <1>4, <2>1, <2>2, <2>4
  <2> QED
    BY <2>3, <2>4
<1>5. \A m \in 0..n : m \in S
  <2> HIDE DEF S, n
  <2> QED
    BY <1>0, <1>3, <1>4, UpTo
<1>6. n \in S
  BY <1>0, <1>5
<1> QED
  BY <1>0, <1>2, <1>6 DEF f

(* The places M of w hold what the places P of q hold, e tells which where. *)
From(w, M, q, P, e) ==
  /\ M \subseteq DOMAIN w /\ P \subseteq DOMAIN q
  /\ \A m \in M : e[m] \in P /\ w[m] = q[e[m]]
  /\ \A m, o \in M : e[m] = e[o] => m = o
  /\ \A p \in P : \E m \in M : e[m] = p

(* w is q and one node more, n at k.                                        *)
HasInserted(w, q, k, n) ==
  /\ w \in Seq(Node) /\ Len(w) = Len(q) + 1
  /\ k \in DOMAIN w /\ w[k] = n
  /\ \E e : From(w, DOMAIN w \ {k}, q, DOMAIN q, e)

(* schedule_rcvd_ogm() and schedule_own_ogm() add one node.                 *)
LEMMA Inserted ==
  ASSUME NEW q \in Seq(Node), NEW n \in Node, NEW k \in 1..(Len(q) + 1), NEW w,
         w = InsertAt(q, k, n)
  PROVE  HasInserted(w, q, k, n)
<1>1. /\ w \in Seq(Node) /\ Len(w) = Len(q) + 1
      /\ \A i \in 1..(Len(q) + 1) : w[i] = IF i < k THEN q[i] ELSE IF i = k THEN n ELSE q[i - 1]
  <2>1. w \in Seq(Node) /\ IsInserted(w, q, k, n)
    BY InsertAtElements
  <2> QED
    BY <2>1 DEF IsInserted
<1> DEFINE l == Len(q)
           e == [i \in 1..(l + 1) |-> IF i < k THEN i ELSE i - 1]
<1>2. l \in Nat /\ DOMAIN q = 1..l /\ DOMAIN w = 1..(l + 1) /\ k \in 1..(l + 1)
  BY <1>1
<1>3. w[k] = n
  BY <1>1, <1>2
<1>4. ASSUME NEW m \in 1..(l + 1), m # k
      PROVE  e[m] \in 1..l /\ w[m] = q[e[m]]
  BY <1>1, <1>2, <1>4
<1>5. ASSUME NEW m \in (1..(l + 1)) \ {k}, NEW o \in (1..(l + 1)) \ {k}, e[m] = e[o]
      PROVE  m = o
  BY <1>2, <1>5
<1>6. ASSUME NEW p \in 1..l
      PROVE  \E m \in (1..(l + 1)) \ {k} : e[m] = p
  <2>1. CASE p < k
    <3>1. p \in (1..(l + 1)) \ {k} /\ e[p] = p
      BY <1>2, <2>1
    <3> QED
      BY <3>1
  <2>2. CASE ~(p < k)
    <3>1. p + 1 \in (1..(l + 1)) \ {k} /\ e[p + 1] = p
      BY <1>2, <2>2
    <3> QED
      BY <3>1
  <2> QED
    BY <2>1, <2>2
<1> HIDE DEF e
<1>7. From(w, DOMAIN w \ {k}, q, DOMAIN q, e)
  BY <1>2, <1>4, <1>5, <1>6 DEF From
<1> QED
  BY <1>1, <1>2, <1>3, <1>7 DEF HasInserted

(* A node that needs no more copies is removed.                             *)
LEMMA Removed ==
  ASSUME NEW q \in Seq(Node), NEW k \in DOMAIN q, NEW w, w = RemoveAt(q, k)
  PROVE  /\ w \in Seq(Node) /\ Len(w) = Len(q) - 1
         /\ \E e : From(w, DOMAIN w, q, DOMAIN q \ {k}, e)
<1>1. /\ w \in Seq(Node) /\ Len(w) = Len(q) - 1
      /\ \A i \in 1..(Len(q) - 1) : w[i] = IF i < k THEN q[i] ELSE q[i + 1]
  BY RemoveAtElements
<1> DEFINE l == Len(q)
           e == [i \in 1..(l - 1) |-> IF i < k THEN i ELSE i + 1]
<1>2. l \in Nat /\ DOMAIN q = 1..l /\ DOMAIN w = 1..(l - 1) /\ k \in 1..l
  BY <1>1
<1>3. ASSUME NEW m \in 1..(l - 1)
      PROVE  e[m] \in (1..l) \ {k} /\ w[m] = q[e[m]]
  BY <1>1, <1>2
<1>4. ASSUME NEW m \in 1..(l - 1), NEW o \in 1..(l - 1), e[m] = e[o]
      PROVE  m = o
  BY <1>2, <1>4
<1>5. ASSUME NEW p \in (1..l) \ {k}
      PROVE  \E m \in 1..(l - 1) : e[m] = p
  <2>1. CASE p < k
    <3>1. p \in 1..(l - 1) /\ e[p] = p
      BY <1>2, <2>1
    <3> QED
      BY <3>1
  <2>2. CASE ~(p < k)
    <3>1. p - 1 \in 1..(l - 1) /\ e[p - 1] = p
      BY <1>2, <2>2
    <3> QED
      BY <3>1
  <2> QED
    BY <2>1, <2>2
<1> HIDE DEF e
<1>6. From(w, DOMAIN w, q, DOMAIN q \ {k}, e)
  BY <1>2, <1>3, <1>4, <1>5 DEF From
<1> QED
  BY <1>1, <1>6

(* A node that needs more stays where it is, changed.                       *)
LEMMA Replaced ==
  ASSUME NEW q \in Seq(Node), NEW k \in DOMAIN q, NEW n \in Node, NEW w,
         w = [q EXCEPT ![k] = n]
  PROVE  /\ w \in Seq(Node) /\ Len(w) = Len(q) /\ w[k] = n
         /\ \E e : From(w, DOMAIN w \ {k}, q, DOMAIN q \ {k}, e)
<1>1. w \in Seq(Node) /\ Len(w) = Len(q) /\ DOMAIN w = DOMAIN q /\ w[k] = n
  OBVIOUS
<1>2. \A m \in DOMAIN q \ {k} : w[m] = q[m]
  OBVIOUS
<1> DEFINE e == [m \in DOMAIN q |-> m]
<1>3. \A m \in DOMAIN q : e[m] = m
  OBVIOUS
<1> HIDE DEF e
<1>4. From(w, DOMAIN w \ {k}, q, DOMAIN q \ {k}, e)
  BY <1>1, <1>2, <1>3 DEF From
<1> QED
  BY <1>1, <1>4

(* The places of the nodes of other interfaces than i.                      *)
Others(q, i) == {p \in DOMAIN q : q[p].out # i}

(* opt_dev() removes the nodes of an interface.                             *)
LEMMA Cleared ==
  ASSUME NEW q \in Seq(Node), NEW i, NEW w, w = Outstanding(q, i)[Len(q)]
  PROVE  /\ w \in Seq(Node)
         /\ \A m \in DOMAIN w : w[m].out # i
         /\ \E e : From(w, DOMAIN w, q, Others(q, i), e)
<1>1. Len(q) \in 0..Len(q) /\ DOMAIN q = 1..Len(q)
  OBVIOUS
<1>2. PICK e : LeftOf(w, q, Len(q), i, e)
  BY <1>1, OutstandingLeft
<1>3. /\ w \in Seq(Node) /\ e \in [1..Len(w) -> 1..Len(q)]
      /\ \A m \in 1..Len(w) : w[m] = q[e[m]] /\ q[e[m]].out # i
      /\ \A m, o \in 1..Len(w) : e[m] = e[o] => m = o
      /\ \A p \in 1..Len(q) : q[p].out # i => \E m \in 1..Len(w) : e[m] = p
  BY <1>2 DEF LeftOf
<1>4. DOMAIN w = 1..Len(w)
  BY <1>3
<1>5. From(w, DOMAIN w, q, Others(q, i), e)
  BY <1>1, <1>3, <1>4 DEF From, Others
<1> QED
  BY <1>3, <1>4, <1>5

-----------------------------------------------------------------------------
(* The chain of an interface's own OGMs.                                    *)

(* An own OGM of which no copy has gone out.                                *)
FirstOf(n, i) == n.own /\ n.out = i /\ n.iteration = 0

(* The chain is complete: there is at most one such node, and none while    *)
(* the next OGM is still to be scheduled; one or the other from the time    *)
(* the interface was first active.                                          *)
Chain(q, d, i) ==
  /\ \A k, l \in DOMAIN q : FirstOf(q[k], i) /\ FirstOf(q[l], i) => k = l
  /\ \A k \in DOMAIN q : FirstOf(q[k], i) => ~d[i].sendOwn /\ d[i].scheduling
  /\ d[i].sendOwn => d[i].scheduling
  /\ d[i].scheduling /\ ~d[i].sendOwn => \E k \in DOMAIN q : FirstOf(q[k], i)

(* The chains are as they were where only other nodes come and go.          *)
LEMMA ChainKept ==
  ASSUME NEW q, NEW d, NEW i, Chain(q, d, i),
         NEW w, NEW c, NEW M, NEW P, NEW e, From(w, M, q, P, e),
         \A m \in DOMAIN w \ M : ~FirstOf(w[m], i),
         \A p \in DOMAIN q \ P : ~FirstOf(q[p], i),
         c[i].sendOwn <=> d[i].sendOwn, c[i].scheduling <=> d[i].scheduling
  PROVE  Chain(w, c, i)
<1>1. ASSUME NEW m \in DOMAIN w, FirstOf(w[m], i)
      PROVE  m \in M /\ e[m] \in DOMAIN q /\ FirstOf(q[e[m]], i)
  BY <1>1 DEF From
<1>2. \A k, l \in DOMAIN w : FirstOf(w[k], i) /\ FirstOf(w[l], i) => k = l
  <2> SUFFICES ASSUME NEW k \in DOMAIN w, NEW l \in DOMAIN w,
                      FirstOf(w[k], i), FirstOf(w[l], i)
               PROVE  k = l
    OBVIOUS
  <2>1. e[k] = e[l]
    BY <1>1 DEF Chain
  <2> QED
    BY <1>1, <2>1 DEF From
<1>3. ASSUME NEW k \in DOMAIN q, FirstOf(q[k], i)
      PROVE  \E m \in DOMAIN w : FirstOf(w[m], i)
  <2>1. PICK m \in M : e[m] = k
    BY <1>3 DEF From
  <2>2. m \in DOMAIN w /\ w[m] = q[k]
    BY <2>1 DEF From
  <2> QED
    BY <1>3, <2>2
<1> QED
  BY <1>1, <1>2, <1>3 DEF Chain

(* An own OGM is scheduled where none was pending.                          *)
LEMMA ChainStarted ==
  ASSUME NEW q, NEW i, \A k \in DOMAIN q : ~FirstOf(q[k], i),
         NEW w, NEW c, NEW k \in DOMAIN w, NEW e, From(w, DOMAIN w \ {k}, q, DOMAIN q, e),
         FirstOf(w[k], i), c[i].scheduling, ~c[i].sendOwn
  PROVE  Chain(w, c, i)
<1>1. \A m \in DOMAIN w : FirstOf(w[m], i) => m = k
  BY DEF From
<1> QED
  BY <1>1 DEF Chain

(* Its first copy goes out: the next one is to be scheduled.                *)
LEMMA ChainSent ==
  ASSUME NEW q, NEW d, NEW i, Chain(q, d, i), NEW k \in DOMAIN q, FirstOf(q[k], i),
         NEW w, NEW c, NEW M, NEW e, From(w, M, q, DOMAIN q \ {k}, e),
         \A m \in DOMAIN w \ M : ~FirstOf(w[m], i),
         c[i].scheduling, c[i].sendOwn
  PROVE  Chain(w, c, i)
<1>1. \A m \in DOMAIN w : ~FirstOf(w[m], i)
  <2> SUFFICES ASSUME NEW m \in DOMAIN w, FirstOf(w[m], i) PROVE FALSE
    OBVIOUS
  <2>1. m \in M /\ e[m] \in DOMAIN q \ {k} /\ FirstOf(q[e[m]], i)
    BY DEF From
  <2> QED
    BY <2>1 DEF Chain
<1> QED
  BY <1>1 DEF Chain

(* Without nodes and without a chain.                                       *)
LEMMA ChainEnded ==
  ASSUME NEW w, NEW c, NEW i, \A m \in DOMAIN w : ~FirstOf(w[m], i),
         ~c[i].scheduling, ~c[i].sendOwn
  PROVE  Chain(w, c, i)
BY DEF Chain

(* What is known of a node: its interface exists, only the OGMs of          *)
(* neighbours are direct and no loopback has neighbours, own OGMs have the  *)
(* length of their interface, and the copies that were made are counted.    *)
Fine(n, d) ==
  /\ d[n.out].exists /\ n.len > 0
  /\ n.direct => ~n.own /\ n.out \notin Loopback
  /\ n.own => n.len = OwnLen[n.out]
  /\ Hundred * n.iteration <= n.bucket
  /\ \E j \in Ifs : n.iteration > 0 => Hundred * n.iteration < Clones[j]

(* It is known of all of them.                                              *)
AllFine(q, d) == \A k \in DOMAIN q : Fine(q[k], d)

(* Interfaces that are removed exist only as names.                         *)
Existing(d) == \A i \in Ifs : d[i].active \/ d[i].sendOwn => d[i].exists

(* The part of the invariant that asks for nothing.                         *)
OgmInv ==
  /\ TypeOK
  /\ AllFine(queue, dev)
  /\ Existing(dev)
  /\ \A i \in Ifs : Chain(queue, dev, i)
  /\ pass # NULL => pass.size >= Hdr

(* Nodes stay fine where interfaces stay.                                   *)
LEMMA FineKept ==
  ASSUME NEW n \in Node, NEW d, NEW c, Fine(n, d), \A i \in Ifs : d[i].exists => c[i].exists
  PROVE  Fine(n, c)
BY DEF Fine, Node

(* So does the list.                                                        *)
LEMMA AllFineKept ==
  ASSUME NEW q \in Seq(Node), NEW d, NEW c, AllFine(q, d),
         NEW w, NEW M, NEW P, NEW e, From(w, M, q, P, e),
         \A p \in P : d[q[p].out].exists => c[q[p].out].exists,
         \A m \in DOMAIN w \ M : Fine(w[m], c)
  PROVE  AllFine(w, c)
<1> SUFFICES ASSUME NEW m \in M PROVE Fine(w[m], c)
  BY DEF AllFine
<1>1. e[m] \in P /\ e[m] \in DOMAIN q /\ w[m] = q[e[m]]
  BY DEF From
<1>2. Fine(q[e[m]], d)
  BY <1>1 DEF AllFine
<1> QED
  BY <1>1, <1>2 DEF Fine

-----------------------------------------------------------------------------
(* Steps.                                                                   *)

(* A new own OGM is fine, and the first of its chain.                       *)
LEMMA OwnNodeFine ==
  ASSUME TypeOK, NEW i \in Ifs, dev[i].exists
  PROVE  /\ OwnNode(i) \in Node /\ Fine(OwnNode(i), dev)
         /\ \A j : FirstOf(OwnNode(i), j) <=> j = i
<1> DEFINE n == OwnNode(i)
<1>1. dev[i] \in Dev
  BY DEF TypeOK
<1>2. dev[i].seqno \in Sqn /\ OwnLen[i] \in Nat /\ OwnLen[i] > 0
  BY <1>1, SizeAssumption DEF Dev
<1>3. n \in Node
  BY <1>2 DEF OwnNode, Node
<1>4. n.own /\ n.out = i /\ n.iteration = 0 /\ n.bucket = 0 /\ n.len = OwnLen[i] /\ ~n.direct
  BY DEF OwnNode
<1>5. Hundred * 0 = 0
  BY ClonesAssumption
<1> HIDE DEF n
<1>6. Fine(n, dev)
  BY <1>2, <1>4, <1>5, IfsAssumption DEF Fine
<1>7. \A j : FirstOf(n, j) <=> j = i
  BY <1>4 DEF FirstOf
<1> QED
  BY <1>3, <1>6, <1>7 DEF n

(* Where neither the nodes nor their interfaces change.                     *)
LEMMA SameQueue ==
  ASSUME OgmInv, queue' = queue, dev' \in [Ifs -> Dev],
         due' \in 0..Len(queue'), sent' \in [Ifs -> Seq(Sqn)], unsent' \subseteq Ifs,
         pass' = NULL \/ pass' \in [pos : 1..(due' + 1), size : Nat, sent : BOOLEAN],
         pass' # NULL => pass'.size >= Hdr,
         \A i \in Ifs : dev[i].exists => dev'[i].exists,
         \A i \in Ifs : dev'[i].sendOwn <=> dev[i].sendOwn,
         \A i \in Ifs : dev'[i].scheduling <=> dev[i].scheduling,
         \A i \in Ifs : dev'[i].active \/ dev'[i].sendOwn => dev'[i].exists
  PROVE  OgmInv'
<1>1. TypeOK'
  BY DEF OgmInv, TypeOK
<1>2. AllFine(queue', dev')
  <2> SUFFICES ASSUME NEW k \in DOMAIN queue PROVE Fine(queue[k], dev')
    BY DEF AllFine
  <2>1. queue[k] \in Node /\ Fine(queue[k], dev)
    BY DEF OgmInv, TypeOK, AllFine
  <2> QED
    BY <2>1, FineKept
<1>3. Existing(dev')
  BY DEF Existing
<1>4. \A i \in Ifs : Chain(queue', dev', i)
  <2> SUFFICES ASSUME NEW i \in Ifs PROVE Chain(queue, dev', i)
    OBVIOUS
  <2>1. Chain(queue, dev, i)
    BY DEF OgmInv
  <2>2. (dev'[i].sendOwn <=> dev[i].sendOwn) /\ (dev'[i].scheduling <=> dev[i].scheduling)
    OBVIOUS
  <2> QED
    BY <2>1, <2>2 DEF Chain
<1> QED
  BY <1>1, <1>2, <1>3, <1>4 DEF OgmInv

(* The start.                                                               *)
LEMMA InitInv == Init => OgmInv
<1> SUFFICES ASSUME Init PROVE OgmInv
  OBVIOUS
<1>1. /\ queue = <<>> /\ due = 0 /\ pass = NULL /\ unsent = {}
      /\ dev = [i \in Ifs |-> [exists |-> TRUE, active |-> FALSE, scheduling |-> FALSE,
                               sendOwn |-> FALSE, seqno |-> First, buffer |-> <<>>]]
      /\ sent = [i \in Ifs |-> <<>>]
  BY DEF Init
<1>2. queue \in Seq(Node) /\ Len(queue) = 0 /\ DOMAIN queue = {}
  BY <1>1
<1>3. dev \in [Ifs -> Dev]
  BY <1>1, SqnAssumption DEF Dev
<1>4. \A i \in Ifs : dev[i].exists /\ ~dev[i].active /\ ~dev[i].scheduling /\ ~dev[i].sendOwn
  BY <1>1
<1>5. TypeOK
  <2>1. sent \in [Ifs -> Seq(Sqn)]
    <3>1. <<>> \in Seq(Sqn)
      OBVIOUS
    <3> QED
      BY <1>1, <3>1
  <2>2. due \in 0..Len(queue) /\ unsent \subseteq Ifs
    BY <1>1, <1>2
  <2> QED
    BY <1>1, <1>2, <1>3, <2>1, <2>2, Zenon DEF TypeOK
<1>6. \A i \in Ifs : Chain(queue, dev, i)
  BY <1>2, <1>4, ChainEnded
<1> QED
  BY <1>1, <1>2, <1>4, <1>5, <1>6 DEF OgmInv, AllFine, Existing

(* Steps that leave the queue alone.                                        *)
LEMMA BeginInv == OgmInv /\ Begin => OgmInv'
<1> SUFFICES ASSUME OgmInv, Begin PROVE OgmInv'
  OBVIOUS
<1>1. UNCHANGED <<queue, due, dev, sent, unsent>> /\ pass' = [pos |-> 1, size |-> Hdr, sent |-> FALSE]
  BY DEF Begin
<1>2. Hdr \in Nat /\ due \in Nat
  BY SizeAssumption DEF OgmInv, TypeOK
<1>3. pass' \in [pos : 1..(due' + 1), size : Nat, sent : BOOLEAN] /\ pass'.size >= Hdr
  BY <1>1, <1>2
<1> QED
  BY <1>1, <1>3, SameQueue DEF OgmInv, TypeOK, Existing

(* Interfaces that differ in their buffers only.                            *)
Alike(a, b) ==
  /\ a.exists <=> b.exists
  /\ a.active <=> b.active
  /\ a.scheduling <=> b.scheduling
  /\ a.sendOwn <=> b.sendOwn
  /\ a.seqno = b.seqno

(* A buffer is changed.                                                     *)
LEMMA BufferSet ==
  ASSUME NEW b \in Dev, NEW t \in Seq([own : BOOLEAN, len : Nat]), NEW v,
         v = [b EXCEPT !.buffer = t]
  PROVE  v \in Dev /\ Alike(v, b) /\ v.buffer = t
<1>1. DOMAIN b = {"exists", "active", "scheduling", "sendOwn", "seqno", "buffer"}
  BY DEF Dev
<1>2. /\ v.exists = b.exists /\ v.active = b.active /\ v.scheduling = b.scheduling
      /\ v.sendOwn = b.sendOwn /\ v.seqno = b.seqno /\ v.buffer = t
  BY <1>1
<1>3. v \in Dev
  BY DEF Dev
<1> QED
  BY <1>2, <1>3 DEF Alike

(* The buffers are sent.                                                    *)
LEMMA FlushedDev ==
  ASSUME NEW d \in [Ifs -> Dev], NEW i \in Ifs
  PROVE  /\ Flushed(d)[i] \in Dev /\ Alike(Flushed(d)[i], d[i])
         /\ i \in Loopback => Flushed(d)[i].buffer = d[i].buffer
         /\ i \notin Loopback => Flushed(d)[i].buffer = <<>>
<1> DEFINE b == d[i]
           v == [b EXCEPT !.buffer = <<>>]
<1>1. Flushed(d)[i] = IF i \in Loopback THEN b ELSE v
  BY DEF Flushed
<1>2. b \in Dev /\ <<>> \in Seq([own : BOOLEAN, len : Nat])
  OBVIOUS
<1> HIDE DEF b
<1>3. v \in Dev /\ Alike(v, b) /\ v.buffer = <<>>
  BY <1>2, BufferSet
<1>4. Alike(b, b)
  BY DEF Alike
<1> HIDE DEF v
<1>5. CASE i \in Loopback
  BY <1>1, <1>2, <1>4, <1>5 DEF b
<1>6. CASE i \notin Loopback
  BY <1>1, <1>3, <1>6 DEF b
<1> QED
  BY <1>5, <1>6

(* The whole set of interfaces after the buffers are sent.                  *)
LEMMA FlushedDevs ==
  ASSUME NEW d \in [Ifs -> Dev]
  PROVE  Flushed(d) \in [Ifs -> Dev]
<1>1. Flushed(d) = [i \in Ifs |-> Flushed(d)[i]]
  BY DEF Flushed
<1> QED
  BY <1>1, FlushedDev

(* Where only buffers change.                                               *)
LEMMA SameAlike ==
  ASSUME OgmInv, queue' = queue, dev' \in [Ifs -> Dev],
         due' = due, sent' = sent, unsent' = unsent,
         pass' = NULL \/ pass' \in [pos : 1..(due' + 1), size : Nat, sent : BOOLEAN],
         pass' # NULL => pass'.size >= Hdr,
         \A i \in Ifs : Alike(dev'[i], dev[i])
  PROVE  OgmInv'
<1>1. \A i \in Ifs : dev[i].exists => dev'[i].exists
  BY DEF Alike
<1>2. \A i \in Ifs : dev'[i].sendOwn <=> dev[i].sendOwn
  BY DEF Alike
<1>3. \A i \in Ifs : dev'[i].scheduling <=> dev[i].scheduling
  BY DEF Alike
<1>4. \A i \in Ifs : dev'[i].active \/ dev'[i].sendOwn => dev'[i].exists
  BY DEF Alike, OgmInv, Existing
<1>5. /\ due' \in 0..Len(queue') /\ sent' \in [Ifs -> Seq(Sqn)] /\ unsent' \subseteq Ifs
  BY DEF OgmInv, TypeOK
<1> QED
  BY <1>1, <1>2, <1>3, <1>4, <1>5, SameQueue

(* What is left is sent.                                                    *)
LEMMA SendRestInv == OgmInv /\ SendRest => OgmInv'
<1> SUFFICES ASSUME OgmInv, SendRest PROVE OgmInv'
  OBVIOUS
<1>1. /\ queue' = queue /\ due' = due /\ sent' = sent /\ unsent' = unsent /\ pass # NULL
      /\ pass' = [pass EXCEPT !.sent = TRUE]
      /\ dev' = Flushed(dev) \/ dev' = dev
  BY DEF SendRest, Idle
<1>2. pass \in [pos : 1..(due + 1), size : Nat, sent : BOOLEAN] /\ pass.size >= Hdr
      /\ dev \in [Ifs -> Dev]
  BY <1>1 DEF OgmInv, TypeOK
<1>3. pass' \in [pos : 1..(due' + 1), size : Nat, sent : BOOLEAN]
  BY <1>1, <1>2
<1>4. pass'.size = pass.size
  <2>1. DOMAIN pass = {"pos", "size", "sent"}
    BY <1>2
  <2> QED
    BY <1>1, <2>1
<1>5. \A i \in Ifs : Alike(dev'[i], dev[i])
  <2>1. \A i \in Ifs : Alike(dev[i], dev[i])
    BY DEF Alike
  <2>2. \A i \in Ifs : Alike(Flushed(dev)[i], dev[i])
    BY <1>2, FlushedDev
  <2> QED
    BY <1>1, <2>1, <2>2
<1>6. dev' \in [Ifs -> Dev]
  BY <1>1, <1>2, FlushedDevs
<1> QED
  BY <1>1, <1>2, <1>3, <1>4, <1>5, <1>6, SameAlike

(* The function returns.                                                    *)
LEMMA EndInv == OgmInv /\ End => OgmInv'
<1> SUFFICES ASSUME OgmInv, End PROVE OgmInv'
  OBVIOUS
<1>1. UNCHANGED <<queue, due, dev, sent, unsent>> /\ pass' = NULL
  BY DEF End
<1>2. \A i \in Ifs : Alike(dev[i], dev[i])
  BY DEF Alike
<1> QED
  BY <1>1, <1>2, SameAlike DEF OgmInv, TypeOK

(* A send time comes.                                                       *)
LEMMA TickInv == \A i \in Ifs : OgmInv /\ Tick(i) => OgmInv'
<1> SUFFICES ASSUME NEW i \in Ifs, OgmInv, Tick(i) PROVE OgmInv'
  OBVIOUS
<1>1. UNCHANGED <<queue, dev, pass, sent, unsent>> /\ pass = NULL
  BY DEF Tick, Idle
<1>2. due' \in 0..Len(queue)
  BY DEF Tick, OgmInv, TypeOK
<1> QED
  BY <1>1, <1>2, SameQueue DEF OgmInv, TypeOK, Existing

(* A node goes out by some interface.                                       *)
LEMMA NodeOut ==
  ASSUME NEW q \in Seq(Node), NEW p \in DOMAIN q
  PROVE  q[p] \in Node /\ q[p].out \in Ifs
<1>1. q[p] \in Node
  OBVIOUS
<1> QED
  BY <1>1 DEF Node

(* Sequence numbers are numbers.                                            *)
LEMMA SqnNat == Sqn \subseteq Nat
BY SqnAssumption DEF Sqn

(* One element more.                                                        *)
LEMMA AppendIn ==
  ASSUME NEW S, NEW s \in Seq(S), NEW e \in S
  PROVE  Append(s, e) \in Seq(S)
OBVIOUS

(* A number that is counted on is one.                                      *)
LEMMA SqnStep == \A x \in Nat : (x + 1) % SqMod \in Sqn
BY SqnAssumption DEF Sqn

(* Another record of one interface.                                         *)
LEMMA DevSet ==
  ASSUME NEW d \in [Ifs -> Dev], NEW i \in Ifs, NEW v \in Dev, NEW c, c = [d EXCEPT ![i] = v]
  PROVE  c \in [Ifs -> Dev] /\ c[i] = v /\ \A j \in Ifs \ {i} : c[j] = d[j]
OBVIOUS

(* if_deactivate()                                                          *)
LEMMA DeactivateInv == \A i \in Ifs : OgmInv /\ Deactivate(i) => OgmInv'
<1> SUFFICES ASSUME NEW i \in Ifs, OgmInv, Deactivate(i) PROVE OgmInv'
  OBVIOUS
<1> DEFINE b == dev[i]
           v == [b EXCEPT !.active = FALSE]
<1>1. UNCHANGED <<queue, due, pass, sent, unsent>> /\ dev' = [dev EXCEPT ![i] = v]
  BY DEF Deactivate
<1>2. dev \in [Ifs -> Dev] /\ b \in Dev
  BY DEF OgmInv, TypeOK
<1> HIDE DEF b
<1>3. /\ v.exists = b.exists /\ v.scheduling = b.scheduling
      /\ v.sendOwn = b.sendOwn /\ ~v.active
  <2>1. DOMAIN b = {"exists", "active", "scheduling", "sendOwn", "seqno", "buffer"}
    BY <1>2 DEF Dev
  <2> QED
    BY <2>1
<1>4. v \in Dev
  BY <1>2 DEF Dev
<1> HIDE DEF v
<1>5. dev' \in [Ifs -> Dev] /\ dev'[i] = v /\ \A j \in Ifs \ {i} : dev'[j] = dev[j]
  BY <1>1, <1>2, <1>4, DevSet
<1>6. \A j \in Ifs : /\ dev'[j].exists = dev[j].exists /\ dev'[j].scheduling = dev[j].scheduling
                     /\ dev'[j].sendOwn = dev[j].sendOwn /\ (dev'[j].active => dev[j].active)
  BY <1>3, <1>5 DEF b
<1>7. \A j \in Ifs : dev'[j].active \/ dev'[j].sendOwn => dev'[j].exists
  BY <1>6 DEF OgmInv, Existing
<1> QED
  BY <1>1, <1>5, <1>6, <1>7, SameQueue DEF OgmInv, TypeOK

(* opt_dev()                                                                *)
LEMMA AddIfInv == \A i \in Ifs : OgmInv /\ AddIf(i) => OgmInv'
<1> SUFFICES ASSUME NEW i \in Ifs, OgmInv, AddIf(i) PROVE OgmInv'
  OBVIOUS
<1> DEFINE b == dev[i]
           v == [b EXCEPT !.exists = TRUE, !.seqno = dev[PrimaryIf].seqno]
<1>1. UNCHANGED <<queue, due, pass, sent, unsent>> /\ dev' = [dev EXCEPT ![i] = v]
  BY DEF AddIf
<1>2. dev \in [Ifs -> Dev] /\ b \in Dev /\ dev[PrimaryIf].seqno \in Sqn
  BY IfsAssumption DEF OgmInv, TypeOK, Dev
<1> HIDE DEF b
<1>3. /\ v.exists /\ v.scheduling = b.scheduling
      /\ v.sendOwn = b.sendOwn
  <2>1. DOMAIN b = {"exists", "active", "scheduling", "sendOwn", "seqno", "buffer"}
    BY <1>2 DEF Dev
  <2> QED
    BY <2>1
<1>4. v \in Dev
  BY <1>2 DEF Dev
<1> HIDE DEF v
<1>5. dev' \in [Ifs -> Dev] /\ dev'[i] = v /\ \A j \in Ifs \ {i} : dev'[j] = dev[j]
  BY <1>1, <1>2, <1>4, DevSet
<1>6. \A j \in Ifs : /\ dev'[j].scheduling = dev[j].scheduling
                     /\ dev'[j].sendOwn = dev[j].sendOwn
  BY <1>3, <1>5 DEF b
<1>7. \A j \in Ifs : dev[j].exists => dev'[j].exists
  BY <1>3, <1>5
<1>8. \A j \in Ifs : dev'[j].active \/ dev'[j].sendOwn => dev'[j].exists
  BY <1>3, <1>5, <1>6 DEF OgmInv, Existing
<1> QED
  BY <1>1, <1>5, <1>6, <1>7, <1>8, SameQueue DEF OgmInv, TypeOK

(* update_rtq_link()                                                        *)
LEMMA EchoOwnInv == \A i \in Ifs : OgmInv /\ EchoOwn(i) => OgmInv'
<1> SUFFICES ASSUME NEW i \in Ifs, OgmInv, EchoOwn(i) PROVE OgmInv'
  OBVIOUS
<1>1. PICK s \in ToSet(sent[i]) : dev' = [dev EXCEPT ![i].seqno = EchoSeqno(i, s)]
  BY DEF EchoOwn
<1>2. UNCHANGED <<queue, due, pass, sent, unsent>>
  BY DEF EchoOwn
<1>3. s \in Sqn
  <2>1. sent[i] \in Seq(Sqn)
    BY DEF OgmInv, TypeOK
  <2> QED
    BY <2>1 DEF ToSet
<1>4. dev \in [Ifs -> Dev] /\ dev[i] \in Dev
  BY DEF OgmInv, TypeOK
<1>5. EchoSeqno(i, s) \in Sqn
  <2>1. (s + 1) % SqMod \in Sqn
    BY <1>3, SqnStep DEF Sqn
  <2>2. dev[i].seqno \in Sqn
    BY <1>4 DEF Dev
  <2> QED
    BY <2>1, <2>2 DEF EchoSeqno
<1> DEFINE b == dev[i]
           x == EchoSeqno(i, s)
           v == [b EXCEPT !.seqno = x]
<1>6. dev' = [dev EXCEPT ![i] = v]
  BY <1>1
<1> HIDE DEF b, x
<1>7. b \in Dev /\ x \in Sqn
  BY <1>4, <1>5 DEF b, x
<1>8. /\ v.exists = b.exists /\ v.active = b.active /\ v.scheduling = b.scheduling
      /\ v.sendOwn = b.sendOwn
  <2>1. DOMAIN b = {"exists", "active", "scheduling", "sendOwn", "seqno", "buffer"}
    BY <1>7 DEF Dev
  <2> QED
    BY <2>1
<1>9. v \in Dev
  BY <1>7 DEF Dev
<1> HIDE DEF v
<1>10. dev' \in [Ifs -> Dev] /\ dev'[i] = v /\ \A j \in Ifs \ {i} : dev'[j] = dev[j]
  BY <1>4, <1>6, <1>9, DevSet
<1>11. \A j \in Ifs : /\ dev'[j].exists = dev[j].exists /\ dev'[j].scheduling = dev[j].scheduling
                      /\ dev'[j].sendOwn = dev[j].sendOwn /\ dev'[j].active = dev[j].active
  BY <1>8, <1>10 DEF b
<1>12. \A j \in Ifs : dev'[j].active \/ dev'[j].sendOwn => dev'[j].exists
  BY <1>11 DEF OgmInv, Existing
<1> QED
  BY <1>2, <1>10, <1>11, <1>12, SameQueue DEF OgmInv, TypeOK

(* schedule_own_ogm() for an interface without a pending own OGM.           *)
LEMMA OwnScheduled ==
  ASSUME OgmInv, NEW i \in Ifs, dev[i].exists, ScheduleOwn(i),
         \A m \in DOMAIN queue : ~FirstOf(queue[m], i),
         UNCHANGED <<due, pass, sent, unsent>>,
         dev' \in [Ifs -> Dev], \A j \in Ifs \ {i} : dev'[j] = dev[j],
         dev'[i].exists, dev'[i].scheduling, ~dev'[i].sendOwn
  PROVE  OgmInv'
<1> DEFINE n == OwnNode(i)
<1>1. PICK k \in due + 1 .. Len(queue) + 1 : queue' = InsertAt(queue, k, n)
  BY DEF ScheduleOwn
<1>2. dev \in [Ifs -> Dev] /\ queue \in Seq(Node) /\ due \in 0..Len(queue)
  BY DEF OgmInv, TypeOK
<1>3. n \in Node /\ Fine(n, dev) /\ \A j : FirstOf(n, j) <=> j = i
  BY OwnNodeFine DEF OgmInv
<1> HIDE DEF n
<1>4. k \in 1..(Len(queue) + 1)
  BY <1>2
<1>in. HasInserted(queue', queue, k, n)
  BY <1>1, <1>2, <1>3, <1>4, Inserted
<1>5. /\ queue' \in Seq(Node) /\ Len(queue') = Len(queue) + 1
      /\ k \in DOMAIN queue' /\ queue'[k] = n
  BY <1>in DEF HasInserted
<1>6. PICK e : From(queue', DOMAIN queue' \ {k}, queue, DOMAIN queue, e)
  BY <1>in DEF HasInserted
<1>7. \A j \in Ifs : dev[j].exists => dev'[j].exists
  OBVIOUS
<1>8. Existing(dev')
  BY DEF OgmInv, Existing
<1>9. AllFine(queue', dev')
  <2>1. Fine(n, dev')
    BY <1>3, <1>7, FineKept
  <2>2. \A p \in DOMAIN queue : dev[queue[p].out].exists => dev'[queue[p].out].exists
    BY <1>2, <1>7, NodeOut
  <2>3. \A m \in DOMAIN queue' \ (DOMAIN queue' \ {k}) : Fine(queue'[m], dev')
    BY <1>5, <2>1
  <2>4. AllFine(queue, dev)
    BY DEF OgmInv
  <2> QED
    BY <1>2, <1>6, <2>2, <2>3, <2>4, AllFineKept
<1>10. ASSUME NEW j \in Ifs PROVE Chain(queue', dev', j)
  <2>1. CASE j = i
    BY <1>3, <1>5, <1>6, <2>1, ChainStarted
  <2>2. CASE j # i
    <3>1. dev'[j] = dev[j] /\ Chain(queue, dev, j)
      BY <2>2 DEF OgmInv
    <3>2. \A m \in DOMAIN queue' \ (DOMAIN queue' \ {k}) : ~FirstOf(queue'[m], j)
      BY <1>3, <1>5, <2>2
    <3> QED
      BY <1>6, <3>1, <3>2, ChainKept
  <2> QED
    BY <2>1, <2>2
<1>11. TypeOK'
  <2>1. due' \in 0..Len(queue')
    BY <1>2, <1>5
  <2> QED
    BY <1>5, <2>1 DEF OgmInv, TypeOK
<1> QED
  BY <1>8, <1>9, <1>10, <1>11 DEF OgmInv

(* The next own OGM at the end of a pass ...                                *)
LEMMA NextOwnInv == \A i \in Ifs : OgmInv /\ NextOwn(i) => OgmInv'
<1> SUFFICES ASSUME NEW i \in Ifs, OgmInv, NextOwn(i) PROVE OgmInv'
  OBVIOUS
<1> DEFINE b == dev[i]
           v == [b EXCEPT !.sendOwn = FALSE]
<1>1. /\ UNCHANGED <<due, pass, sent, unsent>> /\ dev' = [dev EXCEPT ![i] = v]
      /\ dev[i].sendOwn /\ ScheduleOwn(i)
  BY DEF NextOwn
<1>2. dev \in [Ifs -> Dev] /\ dev[i] \in Dev
  BY DEF OgmInv, TypeOK
<1>3. dev[i].exists
  BY <1>1 DEF OgmInv, Existing
<1>4. dev[i].scheduling /\ \A m \in DOMAIN queue : ~FirstOf(queue[m], i)
  BY <1>1 DEF OgmInv, Chain
<1>5. v.exists = b.exists /\ v.scheduling = b.scheduling /\ ~v.sendOwn
  <2>1. DOMAIN b = {"exists", "active", "scheduling", "sendOwn", "seqno", "buffer"}
    BY <1>2 DEF Dev
  <2> QED
    BY <2>1
<1>6. v \in Dev
  BY <1>2 DEF Dev
<1>7. dev' \in [Ifs -> Dev] /\ dev'[i] = v /\ \A j \in Ifs \ {i} : dev'[j] = dev[j]
  <2> HIDE DEF v
  <2> QED
    BY <1>1, <1>2, <1>6, DevSet
<1>8. dev'[i].exists /\ dev'[i].scheduling /\ ~dev'[i].sendOwn
  <2> HIDE DEF v
  <2> QED
    BY <1>3, <1>4, <1>5, <1>7 DEF b
<1> QED
  BY <1>1, <1>3, <1>4, <1>7, <1>8, OwnScheduled

(* ... and the first one of an interface that was never active.             *)
LEMMA ActivateInv == \A i \in Ifs : OgmInv /\ Activate(i) => OgmInv'
<1> SUFFICES ASSUME NEW i \in Ifs, OgmInv, Activate(i) PROVE OgmInv'
  OBVIOUS
<1> DEFINE b == dev[i]
           v == [b EXCEPT !.active = TRUE, !.scheduling = TRUE]
<1>1. /\ UNCHANGED <<due, pass, sent, unsent>> /\ dev' = [dev EXCEPT ![i] = v]
      /\ dev[i].exists
  BY DEF Activate
<1>2. dev \in [Ifs -> Dev] /\ dev[i] \in Dev
  BY DEF OgmInv, TypeOK
<1>3. v.exists = b.exists /\ v.scheduling /\ v.sendOwn = b.sendOwn
  <2>1. DOMAIN b = {"exists", "active", "scheduling", "sendOwn", "seqno", "buffer"}
    BY <1>2 DEF Dev
  <2> QED
    BY <2>1
<1>4. v \in Dev
  BY <1>2 DEF Dev
<1>5. dev' \in [Ifs -> Dev] /\ dev'[i] = v /\ \A j \in Ifs \ {i} : dev'[j] = dev[j]
  <2> HIDE DEF v
  <2> QED
    BY <1>1, <1>2, <1>4, DevSet
<1>6. dev'[i].exists /\ dev'[i].scheduling /\ (dev'[i].sendOwn <=> dev[i].sendOwn)
  <2> HIDE DEF v
  <2> QED
    BY <1>1, <1>3, <1>5 DEF b
<1>7. Chain(queue, dev, i)
  BY DEF OgmInv
<1>8. CASE NeedsOwn(i)
  <2>1. ~dev[i].scheduling /\ ScheduleOwn(i)
    BY <1>8 DEF NeedsOwn, Activate
  <2>2. ~dev[i].sendOwn /\ \A m \in DOMAIN queue : ~FirstOf(queue[m], i)
    BY <1>7, <2>1 DEF Chain
  <2> QED
    BY <1>1, <1>5, <1>6, <2>1, <2>2, OwnScheduled
<1>9. CASE ~NeedsOwn(i)
  <2>1. dev[i].scheduling /\ queue' = queue
    BY <1>9 DEF NeedsOwn, Activate
  <2>2. \A j \in Ifs : dev[j].exists => dev'[j].exists
    BY <1>5, <1>6
  <2>3. \A j \in Ifs : dev'[j].sendOwn <=> dev[j].sendOwn
    BY <1>5, <1>6
  <2>4. \A j \in Ifs : dev'[j].scheduling <=> dev[j].scheduling
    BY <1>5, <1>6, <2>1
  <2>5. \A j \in Ifs : dev'[j].active \/ dev'[j].sendOwn => dev'[j].exists
    BY <1>5, <1>6 DEF OgmInv, Existing
  <2> QED
    BY <1>1, <1>5, <2>1, <2>2, <2>3, <2>4, <2>5, SameQueue DEF OgmInv, TypeOK
<1> QED
  BY <1>8, <1>9

(* schedule_rcvd_ogm()                                                      *)
LEMMA ScheduleRcvdInv ==
  \A i \in Ifs : \A r \in Rcvd : OgmInv /\ ScheduleRcvd(i, r) => OgmInv'
<1> SUFFICES ASSUME NEW i \in Ifs, NEW r \in Rcvd, OgmInv, ScheduleRcvd(i, r) PROVE OgmInv'
  OBVIOUS
<1> DEFINE n == [own |-> FALSE, out |-> i, iteration |-> 0, bucket |-> 0, len |-> r.len,
                 direct |-> r.direct, unidir |-> Unidirectional(r), cloned |-> r.cloned,
                 lastHop |-> r.ttl = 1, seqno |-> 0]
           k == due + 1
<1>1. /\ UNCHANGED <<dev, pass, sent, unsent>> /\ queue' = InsertAt(queue, k, n)
      /\ due' = due + 1 /\ pass = NULL /\ dev[i].active /\ i \notin Loopback
  BY DEF ScheduleRcvd, Idle
<1>2. dev \in [Ifs -> Dev] /\ queue \in Seq(Node) /\ due \in 0..Len(queue)
  BY DEF OgmInv, TypeOK
<1>3. /\ r.direct \in BOOLEAN /\ r.best \in BOOLEAN /\ r.cloned \in BOOLEAN
      /\ r.asocial \in BOOLEAN /\ r.len \in Nat /\ r.len > 0
  BY RcvdAssumption
<1>4. n \in Node
  <2>1. 0 \in Sqn
    BY SqnAssumption DEF Sqn
  <2>2. Unidirectional(r) \in BOOLEAN
    BY <1>3 DEF Unidirectional
  <2> QED
    BY <1>3, <2>1, <2>2 DEF Node
<1>5. ~n.own /\ n.out = i /\ n.iteration = 0 /\ n.bucket = 0 /\ n.len > 0
  BY <1>3
<1> HIDE DEF n
<1>6. dev[i].exists
  BY <1>1 DEF OgmInv, Existing
<1>7. Fine(n, dev)
  <2>1. Hundred * 0 = 0
    BY ClonesAssumption
  <2> QED
    BY <1>1, <1>5, <1>6, <2>1, IfsAssumption DEF Fine
<1>8. \A j : ~FirstOf(n, j)
  BY <1>5 DEF FirstOf
<1>9. k \in 1..(Len(queue) + 1)
  BY <1>2
<1> HIDE DEF k
<1>in. HasInserted(queue', queue, k, n)
  BY <1>1, <1>2, <1>4, <1>9, Inserted
<1>10. /\ queue' \in Seq(Node) /\ Len(queue') = Len(queue) + 1
       /\ k \in DOMAIN queue' /\ queue'[k] = n
  BY <1>in DEF HasInserted
<1>11. PICK e : From(queue', DOMAIN queue' \ {k}, queue, DOMAIN queue, e)
  BY <1>in DEF HasInserted
<1>12. AllFine(queue', dev)
  <2>1. \A m \in DOMAIN queue' \ (DOMAIN queue' \ {k}) : Fine(queue'[m], dev)
    BY <1>7, <1>10
  <2>2. AllFine(queue, dev)
    BY DEF OgmInv
  <2> QED
    BY <1>2, <1>11, <2>1, <2>2, AllFineKept
<1>13. ASSUME NEW j \in Ifs PROVE Chain(queue', dev, j)
  <2>1. Chain(queue, dev, j)
    BY DEF OgmInv
  <2>2. \A m \in DOMAIN queue' \ (DOMAIN queue' \ {k}) : ~FirstOf(queue'[m], j)
    BY <1>8, <1>10
  <2> QED
    BY <1>11, <2>1, <2>2, ChainKept
<1>14. TypeOK'
  <2>1. due' \in 0..Len(queue')
    BY <1>1, <1>2, <1>10
  <2> QED
    BY <1>1, <1>10, <2>1 DEF OgmInv, TypeOK
<1> QED
  BY <1>1, <1>12, <1>13, <1>14 DEF OgmInv, Existing

(* opt_dev() frees an interface.                                            *)
LEMMA RemoveIfInv == \A i \in Ifs : OgmInv /\ RemoveIf(i) => OgmInv'
<1> SUFFICES ASSUME NEW i \in Ifs, OgmInv, RemoveIf(i) PROVE OgmInv'
  OBVIOUS
<1> DEFINE v == [exists |-> FALSE, active |-> FALSE, scheduling |-> FALSE,
                 sendOwn |-> FALSE, seqno |-> 0, buffer |-> <<>>]
           w == Outstanding(queue, i)[Len(queue)]
<1>1. /\ queue' = w /\ due' = Len(Outstanding(queue, i)[due]) /\ pass' = pass /\ pass = NULL
      /\ dev' = [dev EXCEPT ![i] = v] /\ sent' = [sent EXCEPT ![i] = <<>>]
      /\ unsent' = unsent \ {i}
  BY DEF RemoveIf, Idle
<1>2. dev \in [Ifs -> Dev] /\ queue \in Seq(Node) /\ due \in 0..Len(queue)
      /\ sent \in [Ifs -> Seq(Sqn)] /\ unsent \subseteq Ifs
  BY DEF OgmInv, TypeOK
<1>3. w \in Seq(Node) /\ \A m \in DOMAIN w : w[m].out # i
  BY <1>2, Cleared
<1>4. PICK e : From(w, DOMAIN w, queue, Others(queue, i), e)
  BY <1>2, Cleared
<1>5. due' \in 0..Len(w)
  BY <1>1, <1>2, OutstandingGrows
<1> HIDE DEF w
<1>6. v \in Dev
  <2>1. 0 \in Sqn /\ <<>> \in Seq([own : BOOLEAN, len : Nat])
    BY SqnAssumption DEF Sqn
  <2> QED
    BY <2>1 DEF Dev
<1>7. ~v.active /\ ~v.scheduling /\ ~v.sendOwn
  OBVIOUS
<1> HIDE DEF v
<1>8. dev' \in [Ifs -> Dev] /\ dev'[i] = v /\ \A j \in Ifs \ {i} : dev'[j] = dev[j]
  BY <1>1, <1>2, <1>6, DevSet
<1>9. Existing(dev')
  BY <1>7, <1>8 DEF OgmInv, Existing
<1>10. AllFine(queue', dev')
  <2>1. \A p \in Others(queue, i) :
          dev[queue[p].out].exists => dev'[queue[p].out].exists
    BY <1>2, <1>8, NodeOut DEF Others
  <2>2. AllFine(queue, dev)
    BY DEF OgmInv
  <2>3. AllFine(w, dev')
    BY <1>2, <1>4, <2>1, <2>2, AllFineKept
  <2> QED
    BY <1>1, <2>3
<1>11. ASSUME NEW j \in Ifs PROVE Chain(w, dev', j)
  <2>1. CASE j = i
    <3>1. \A m \in DOMAIN w : ~FirstOf(w[m], i)
      BY <1>3 DEF FirstOf
    <3> QED
      BY <1>7, <1>8, <2>1, <3>1, ChainEnded
  <2>2. CASE j # i
    <3>1. dev'[j] = dev[j] /\ Chain(queue, dev, j)
      BY <1>8, <2>2 DEF OgmInv
    <3>2. \A p \in DOMAIN queue \ Others(queue, i) : ~FirstOf(queue[p], j)
      BY <2>2 DEF Others, FirstOf
    <3> QED
      BY <1>4, <3>1, <3>2, ChainKept
  <2> QED
    BY <2>1, <2>2
<1>12. TypeOK'
  <2>1. sent' \in [Ifs -> Seq(Sqn)]
    <3>1. <<>> \in Seq(Sqn)
      OBVIOUS
    <3> QED
      BY <1>1, <1>2, <3>1
  <2>2. pass' = NULL /\ unsent' \subseteq Ifs /\ queue' \in Seq(Node) /\ due' \in 0..Len(queue')
    BY <1>1, <1>2, <1>3, <1>5
  <2> QED
    BY <1>8, <2>1, <2>2 DEF TypeOK
<1> QED
  BY <1>1, <1>9, <1>10, <1>11, <1>12 DEF OgmInv

-----------------------------------------------------------------------------
(* One node of the list is sent.                                            *)

(* What it does to an interface i: n is the node, the buffers of "flush"    *)
(* are sent first, and the OGM is added to those of "to".                   *)
SentTo(b, c, i, n, flush, to) ==
  /\ c \in Dev
  /\ c.exists <=> b.exists
  /\ c.active <=> b.active
  /\ c.scheduling <=> b.scheduling
  /\ c.sendOwn <=> b.sendOwn \/ FirstOf(n, i)
  /\ FirstOf(n, i) => c.seqno = (b.seqno + 1) % SqMod
  /\ ~FirstOf(n, i) => c.seqno = b.seqno
  /\ LET t == IF i \in flush THEN <<>> ELSE b.buffer
     IN  c.buffer = IF i \in to THEN Append(t, [own |-> n.own, len |-> n.len]) ELSE t

(* The interfaces with the OGM in the buffers of "to".                      *)
WithOgm(before, n, to) ==
  [i \in Ifs |-> IF i \in to
                 THEN [before[i] EXCEPT !.buffer = Append(@, [own |-> n.own, len |-> n.len])]
                 ELSE before[i]]

(* And with the next number, if this was the first copy of an own OGM.      *)
WithNumber(after, n) ==
  IF ~FirstCopy(n) THEN after
  ELSE [after EXCEPT ![n.out].seqno = (@ + 1) % SqMod, ![n.out].sendOwn = TRUE]

(* The interfaces after a node was sent.                                    *)
LEMMA SendNodeDev ==
  ASSUME NEW d \in [Ifs -> Dev], NEW n \in Node, NEW to \in SUBSET Ifs,
         NEW before, NEW flush,
         \/ before = Flushed(d) /\ flush = Ifs \ Loopback
         \/ before = d /\ flush = {},
         NEW after, after = WithOgm(before, n, to),
         NEW c, c = WithNumber(after, n)
  PROVE  c \in [Ifs -> Dev] /\ \A i \in Ifs : SentTo(d[i], c[i], i, n, flush, to)
<1> DEFINE ogm == [own |-> n.own, len |-> n.len]
<1>0. n.out \in Ifs /\ ogm \in [own : BOOLEAN, len : Nat]
  BY DEF Node
<1>1. after = [i \in Ifs |-> after[i]]
  BY DEF WithOgm
<1> SUFFICES ASSUME NEW i \in Ifs PROVE SentTo(d[i], c[i], i, n, flush, to)
  <2>1. c = [i \in Ifs |-> c[i]]
    BY <1>1, Zenon DEF WithNumber
  <2>2. ASSUME \A i \in Ifs : SentTo(d[i], c[i], i, n, flush, to)
        PROVE  c \in [Ifs -> Dev]
    <3>1. \A i \in Ifs : c[i] \in Dev
      BY <2>2, Zenon DEF SentTo
    <3> QED
      BY <2>1, <3>1, Zenon
  <2> QED
    BY <2>2, Zenon
<1> DEFINE t == IF i \in flush THEN <<>> ELSE d[i].buffer
           b == before[i]
           a == after[i]
<1>2. b \in Dev /\ Alike(b, d[i]) /\ b.buffer = t
  <2>1. CASE before = Flushed(d) /\ flush = Ifs \ Loopback
    BY <2>1, FlushedDev
  <2>2. CASE before = d /\ flush = {}
    BY <2>2 DEF Alike
  <2> QED
    BY <2>1, <2>2
<1>3. b.buffer \in Seq([own : BOOLEAN, len : Nat])
  BY <1>2 DEF Dev
<1>4. a \in Dev /\ Alike(a, b) /\ a.buffer = IF i \in to THEN Append(t, ogm) ELSE t
  <2>1. CASE i \in to
    <3> DEFINE u == Append(b.buffer, ogm)
    <3>1. a = [b EXCEPT !.buffer = u]
      BY <2>1 DEF WithOgm
    <3>2. u \in Seq([own : BOOLEAN, len : Nat])
      <4> HIDE DEF b, ogm
      <4> QED
        BY <1>0, <1>3, AppendIn
    <3> HIDE DEF a, b, u
    <3>3. a \in Dev /\ Alike(a, b) /\ a.buffer = u
      BY <1>2, <3>1, <3>2, BufferSet
    <3> QED
      BY <1>2, <2>1, <3>3 DEF u
  <2>2. CASE i \notin to
    <3>1. a = b
      BY <2>2 DEF WithOgm
    <3> QED
      BY <1>2, <2>2, <3>1 DEF Alike
  <2> QED
    BY <2>1, <2>2
<1>5. CASE ~FirstOf(n, i)
  <2>1. c[i] = a
    <3>1. CASE ~FirstCopy(n)
      BY <3>1 DEF WithNumber
    <3>2. CASE FirstCopy(n)
      <4>1. n.out # i
        BY <1>5, <3>2 DEF FirstOf, FirstCopy
      <4>2. c = [after EXCEPT ![n.out].seqno = (@ + 1) % SqMod, ![n.out].sendOwn = TRUE]
        BY <3>2, Zenon DEF WithNumber
      <4> HIDE DEF b, t, ogm
      <4> QED
        BY <1>0, <1>1, <4>1, <4>2
    <3> QED
      BY <3>1, <3>2
  <2> HIDE DEF a, b, t, ogm
  <2>2. Alike(a, d[i])
    BY <1>2, <1>4 DEF Alike
  <2> QED
    BY <1>4, <1>5, <2>1, <2>2, Zenon DEF SentTo, Alike, t, ogm
<1>6. CASE FirstOf(n, i)
  <2>1. n.out = i /\ FirstCopy(n)
    BY <1>6 DEF FirstOf, FirstCopy
  <2> DEFINE v == [a EXCEPT !.seqno = (@ + 1) % SqMod, !.sendOwn = TRUE]
  <2>2. c[i] = v
    BY <2>1 DEF WithNumber, WithOgm
  <2> HIDE DEF a, b, t, ogm
  <2>3. a.seqno \in Nat /\ (a.seqno + 1) % SqMod \in Sqn
    <3>1. a.seqno \in Sqn
      BY <1>4 DEF Dev
    <3>2. a.seqno \in Nat
      BY <3>1, SqnNat
    <3> QED
      BY <3>2, SqnStep
  <2>4. /\ v.exists = a.exists /\ v.active = a.active /\ v.scheduling = a.scheduling
        /\ v.sendOwn /\ v.seqno = (a.seqno + 1) % SqMod /\ v.buffer = a.buffer
    <3>1. DOMAIN a = {"exists", "active", "scheduling", "sendOwn", "seqno", "buffer"}
      BY <1>4 DEF Dev
    <3> QED
      BY <3>1
  <2>5. v \in Dev
    BY <1>4, <2>3 DEF Dev
  <2> HIDE DEF v
  <2> QED
    BY <1>2, <1>4, <1>6, <2>2, <2>4, <2>5, Zenon DEF SentTo, Alike, t, ogm
<1> QED
  BY <1>5, <1>6, Zenon

(* What SendNode does when the copies go to the interfaces "to" and the     *)
(* OGM's place among them is "bucket".                                      *)
Size(n) == IF Full(pass.size, n) THEN Hdr ELSE pass.size
Emptied(n) == IF Full(pass.size, n) THEN Ifs \ Loopback ELSE {}
Dropped(n) == TooLarge(Size(n), n)
Finished(to, bucket) == \A i \in to : ~Wants(i, bucket + Hundred)
Recorded(n) ==
  [sent EXCEPT ![n.out] =
     SubSeq(<<n.seqno>> \o @, 1, IF Len(@) < EchoLag THEN Len(@) + 1 ELSE EchoLag + 1)]

SendsQueue(n, to, bucket) ==
  IF Finished(to, bucket)
  THEN queue' = RemoveAt(queue, pass.pos) /\ due' = due - 1
  ELSE /\ queue' = [queue EXCEPT ![pass.pos] =
                     [n EXCEPT !.iteration = @ + 1, !.bucket = bucket + Hundred]]
       /\ due' = due

SendsRest(n, to, bucket) ==
  /\ pass' = [pass EXCEPT !.pos = IF Finished(to, bucket) THEN @ ELSE @ + 1,
                          !.size = IF Dropped(n) THEN Size(n) ELSE Size(n) + n.len]
  /\ sent' = IF ~FirstCopy(n) \/ Dropped(n) THEN sent ELSE Recorded(n)
  /\ unsent' = IF n.own /\ Dropped(n) THEN unsent \cup {n.out} ELSE unsent

Sends(n, to, bucket) ==
  /\ n.bucket <= bucket
  /\ Dropped(n) => to = {}
  /\ ~Dropped(n) => \E silent : to = Targets(n, bucket, silent)
  /\ dev' \in [Ifs -> Dev]
  /\ \A i \in Ifs : SentTo(dev[i], dev'[i], i, n, Emptied(n), to)
  /\ SendsQueue(n, to, bucket)
  /\ SendsRest(n, to, bucket)

(* The node that is looked at.                                              *)
Current == queue[pass.pos]

(* A pass is at a node that is due.                                         *)
LEMMA CurrentNode ==
  ASSUME OgmInv, SendNode
  PROVE  /\ pass # NULL /\ pass \in [pos : 1..(due + 1), size : Nat, sent : BOOLEAN]
         /\ pass.pos \in 1..due /\ pass.pos \in DOMAIN queue /\ pass.size \in Nat
         /\ pass.size >= Hdr
         /\ Current \in Node /\ Fine(Current, dev)
         /\ queue \in Seq(Node) /\ due \in 0..Len(queue) /\ dev \in [Ifs -> Dev]
<1>1. pass # NULL /\ pass.pos <= due
  BY Zenon DEF SendNode, Idle
<1>2. /\ queue \in Seq(Node) /\ due \in 0..Len(queue) /\ dev \in [Ifs -> Dev]
      /\ pass \in [pos : 1..(due + 1), size : Nat, sent : BOOLEAN]
      /\ pass.size >= Hdr
  BY <1>1 DEF OgmInv, TypeOK
<1>3. pass.pos \in 1..due /\ pass.pos \in DOMAIN queue /\ pass.size \in Nat
  BY <1>1, <1>2
<1>4. Current \in Node
  BY <1>2, <1>3, NodeOut DEF Current
<1>5. Fine(Current, dev)
  BY <1>3 DEF OgmInv, AllFine, Current
<1> QED
  BY <1>1, <1>2, <1>3, <1>4, <1>5

(* Everything SendNode does.                                                *)
LEMMA SendNodeIs ==
  ASSUME OgmInv, SendNode
  PROVE  \E to \in SUBSET Ifs, bucket \in Nat : Sends(Current, to, bucket)
<1> DEFINE n == queue[pass.pos]
           before == IF Full(pass.size, n) THEN Flushed(dev) ELSE dev
           size == IF Full(pass.size, n) THEN Hdr ELSE pass.size
           drop == TooLarge(size, n)
           Bucket(random) == IF n.bucket = 0 THEN random ELSE n.bucket
           To(random, silent) == IF drop THEN {} ELSE Targets(n, Bucket(random), silent)
           Done(random, silent) == \A i \in To(random, silent) : ~Wants(i, Bucket(random) + Hundred)
           first == FirstCopy(n)
           After(random, silent) ==
             [i \in Ifs |->
                IF i \in To(random, silent)
                THEN [before[i] EXCEPT !.buffer = Append(@, [own |-> n.own, len |-> n.len])]
                ELSE before[i]]
<1>1. PICK random \in 0 .. Hundred - 1, silent \in SUBSET PowerSave :
        /\ dev' = IF ~first THEN After(random, silent)
                  ELSE [After(random, silent) EXCEPT ![n.out].seqno = (@ + 1) % SqMod,
                                                     ![n.out].sendOwn = TRUE]
        /\ IF Done(random, silent)
           THEN queue' = RemoveAt(queue, pass.pos) /\ due' = due - 1
           ELSE /\ queue' = [queue EXCEPT ![pass.pos] =
                     [n EXCEPT !.iteration = @ + 1, !.bucket = Bucket(random) + Hundred]]
                /\ due' = due
        /\ pass' = [pass EXCEPT !.pos = IF Done(random, silent) THEN @ ELSE @ + 1,
                                !.size = IF drop THEN size ELSE size + n.len]
        /\ sent' = IF ~first \/ drop THEN sent
                   ELSE [sent EXCEPT ![n.out] =
                           SubSeq(<<n.seqno>> \o @, 1, IF Len(@) < EchoLag THEN Len(@) + 1
                                                       ELSE EchoLag + 1)]
        /\ unsent' = IF n.own /\ drop THEN unsent \cup {n.out} ELSE unsent
  BY ZenonT(60) DEF SendNode
<1> DEFINE bucket == Bucket(random)
           to == To(random, silent)
           after == After(random, silent)
<1>2. n = Current /\ size = Size(n) /\ (drop <=> Dropped(n))
  BY DEF Current, Size, Dropped
<1>3. n \in Node /\ n.bucket \in Nat /\ dev \in [Ifs -> Dev]
  BY CurrentNode DEF Current, Node
<1>4. bucket \in Nat /\ n.bucket <= bucket
  BY <1>3, ClonesAssumption
<1>5. to \in SUBSET Ifs
  BY <1>3 DEF Targets, Node
<1>6. SendsQueue(n, to, bucket)
  BY <1>1, Zenon DEF SendsQueue, Finished
<1>7. SendsRest(n, to, bucket)
  BY <1>1, Zenon DEF SendsRest, Finished, Dropped, Size, Recorded
<1>8. /\ dev' = WithNumber(after, n) /\ after = WithOgm(before, n, to)
      /\ before = IF Full(pass.size, n) THEN Flushed(dev) ELSE dev
  BY <1>1, Zenon DEF WithNumber, WithOgm
<1>9. (drop => to = {}) /\ (~drop => to = Targets(n, bucket, silent))
  BY Zenon
<1>10. \/ before = Flushed(dev) /\ Emptied(n) = Ifs \ Loopback
       \/ before = dev /\ Emptied(n) = {}
  BY <1>8 DEF Emptied
<1> HIDE DEF n, to, bucket, before, after, size, drop
<1>11. dev' \in [Ifs -> Dev] /\ \A i \in Ifs : SentTo(dev[i], dev'[i], i, n, Emptied(n), to)
  BY <1>3, <1>5, <1>8, <1>10, SendNodeDev
<1>12. Sends(n, to, bucket)
  BY <1>2, <1>4, <1>6, <1>7, <1>9, <1>11 DEF Sends
<1> QED
  BY <1>2, <1>4, <1>5, <1>12

(* A node that is kept has one copy more, and somebody wants another.       *)
Kept(n, bucket) == [n EXCEPT !.iteration = @ + 1, !.bucket = bucket + Hundred]

(* It is fine again.                                                        *)
LEMMA KeptFine ==
  ASSUME NEW n \in Node, NEW d, NEW c, Fine(n, d), NEW bucket \in Nat, n.bucket <= bucket,
         \A i \in Ifs : d[i].exists => c[i].exists,
         NEW j \in Ifs, Wants(j, bucket + Hundred)
  PROVE  /\ Kept(n, bucket) \in Node /\ Fine(Kept(n, bucket), c)
         /\ \A i : ~FirstOf(Kept(n, bucket), i)
<1> DEFINE m == Kept(n, bucket)
           iter == n.iteration
<1>1. /\ iter \in Nat /\ n.out \in Ifs /\ Hundred \in Nat /\ Clones[j] \in Nat
  BY ClonesAssumption DEF Node
<1>2. /\ m.own = n.own /\ m.out = n.out /\ m.len = n.len /\ m.direct = n.direct
      /\ m.iteration = iter + 1 /\ m.bucket = bucket + Hundred
  <2>1. DOMAIN n = {"own", "out", "iteration", "bucket", "len", "direct", "unidir", "cloned",
                    "lastHop", "seqno"}
    BY DEF Node
  <2> QED
    BY <2>1 DEF Kept
<1>3. m \in Node
  <2>1. bucket + Hundred \in Nat /\ iter + 1 \in Nat
    BY <1>1
  <2> QED
    BY <2>1 DEF Kept, Node
<1>4. Hundred * iter <= bucket
  <2> DEFINE x == Hundred * iter
  <2>1. x <= n.bucket
    BY DEF Fine
  <2>2. x \in Nat /\ n.bucket \in Nat
    BY <1>1 DEF Node
  <2> HIDE DEF x
  <2>3. x <= bucket
    BY <2>1, <2>2
  <2> QED
    BY <2>3 DEF x
<1>5. Hundred * (iter + 1) = Hundred * iter + Hundred
  <2> HIDE DEF iter
  <2> QED
    BY <1>1
<1>6. Hundred * (iter + 1) <= bucket + Hundred /\ bucket + Hundred < Clones[j]
  <2> DEFINE x == Hundred * iter
  <2>1. x \in Nat
    BY <1>1
  <2>2. bucket + Hundred < Clones[j]
    BY DEF Wants
  <2> HIDE DEF x, iter
  <2> QED
    BY <1>1, <1>4, <1>5, <2>1, <2>2 DEF x
<1>7. Hundred * (iter + 1) < Clones[j]
  <2> DEFINE x == Hundred * (iter + 1)
  <2>1. x \in Nat
    BY <1>1
  <2> HIDE DEF x, iter
  <2> QED
    BY <1>1, <1>6, <2>1 DEF x
<1> HIDE DEF m, iter
<1>8. Fine(m, c)
  <2>1. m.own => m.len = OwnLen[m.out]
    BY <1>2 DEF Fine
  <2>2. m.direct => ~m.own /\ m.out \notin Loopback
    BY <1>2 DEF Fine
  <2>3. c[m.out].exists /\ m.len > 0
    BY <1>1, <1>2 DEF Fine
  <2>4. Hundred * m.iteration <= m.bucket /\ Hundred * m.iteration < Clones[j]
    BY <1>2, <1>6, <1>7
  <2> QED
    BY <2>1, <2>2, <2>3, <2>4 DEF Fine
<1>9. \A i : ~FirstOf(m, i)
  BY <1>1, <1>2 DEF FirstOf
<1> QED
  BY <1>3, <1>8, <1>9 DEF m

(* Sent interfaces exist as they did.                                       *)
LEMMA SentExisting ==
  ASSUME OgmInv, SendNode, NEW to, NEW bucket, Sends(Current, to, bucket)
  PROVE  /\ dev' \in [Ifs -> Dev] /\ Existing(dev')
         /\ \A i \in Ifs : dev[i].exists => dev'[i].exists
<1>1. dev' \in [Ifs -> Dev]
  BY DEF Sends
<1>2. ASSUME NEW i \in Ifs
      PROVE  SentTo(dev[i], dev'[i], i, Current, Emptied(Current), to)
  BY DEF Sends
<1>3. \A i \in Ifs : dev[i].exists => dev'[i].exists
  BY <1>2 DEF SentTo
<1>4. ASSUME NEW i \in Ifs, dev'[i].active \/ dev'[i].sendOwn
      PROVE  dev'[i].exists
  <2>1. CASE dev[i].active \/ dev[i].sendOwn
    BY <1>3, <2>1 DEF OgmInv, Existing
  <2>2. CASE FirstOf(Current, i)
    <3>1. dev[i].exists
      BY <2>2, CurrentNode DEF FirstOf, Fine
    <3> QED
      BY <1>3, <3>1
  <2> QED
    BY <1>2, <1>4, <2>1, <2>2 DEF SentTo
<1> QED
  BY <1>1, <1>3, <1>4 DEF Existing

(* The queue after a node was sent.                                         *)
LEMMA SentQueue ==
  ASSUME OgmInv, SendNode, NEW to \in SUBSET Ifs, NEW bucket \in Nat, Sends(Current, to, bucket)
  PROVE  /\ queue' \in Seq(Node) /\ due' \in 0..Len(queue')
         /\ due' = IF Finished(to, bucket) THEN due - 1 ELSE due
         /\ \E M, e : /\ From(queue', M, queue, DOMAIN queue \ {pass.pos}, e)
                      /\ \A m \in DOMAIN queue' \ M : /\ Fine(queue'[m], dev')
                                                       /\ \A i : ~FirstOf(queue'[m], i)
<1> DEFINE n == Current
           k == pass.pos
<1>1. /\ queue \in Seq(Node) /\ due \in 0..Len(queue) /\ k \in 1..due /\ k \in DOMAIN queue
      /\ n \in Node /\ Fine(n, dev)
  BY CurrentNode
<1>2. SendsQueue(n, to, bucket) /\ n.bucket <= bucket
  BY DEF Sends
<1>3. \A i \in Ifs : dev[i].exists => dev'[i].exists
  BY SentExisting
<1> HIDE DEF n, k
<1>4. CASE Finished(to, bucket)
  <2>1. queue' = RemoveAt(queue, k) /\ due' = due - 1
    BY <1>2, <1>4 DEF SendsQueue, k
  <2>2. queue' \in Seq(Node) /\ Len(queue') = Len(queue) - 1
    BY <1>1, <2>1, Removed
  <2>3. PICK e : From(queue', DOMAIN queue', queue, DOMAIN queue \ {k}, e)
    BY <1>1, <2>1, Removed
  <2>4. due' \in 0..Len(queue')
    BY <1>1, <2>1, <2>2
  <2>5. \A m \in DOMAIN queue' \ DOMAIN queue' : Fine(queue'[m], dev') /\ \A i : ~FirstOf(queue'[m], i)
    OBVIOUS
  <2> QED
    BY <1>4, <2>1, <2>2, <2>3, <2>4, <2>5 DEF k
<1>5. CASE ~Finished(to, bucket)
  <2> DEFINE m == Kept(n, bucket)
  <2>1. queue' = [queue EXCEPT ![k] = m] /\ due' = due
    BY <1>2, <1>5 DEF SendsQueue, Kept, k
  <2>2. PICK j \in Ifs : Wants(j, bucket + Hundred)
    BY <1>5 DEF Finished
  <2>3. m \in Node /\ Fine(m, dev') /\ \A i : ~FirstOf(m, i)
    BY <1>1, <1>2, <1>3, <2>2, KeptFine
  <2> HIDE DEF m
  <2>4. queue' \in Seq(Node) /\ Len(queue') = Len(queue) /\ queue'[k] = m
    BY <1>1, <2>1, <2>3, Replaced
  <2>5. PICK e : From(queue', DOMAIN queue' \ {k}, queue, DOMAIN queue \ {k}, e)
    BY <1>1, <2>1, <2>3, Replaced
  <2>6. due' \in 0..Len(queue')
    BY <1>1, <2>1, <2>4
  <2>7. \A o \in DOMAIN queue' \ (DOMAIN queue' \ {k}) :
          Fine(queue'[o], dev') /\ \A i : ~FirstOf(queue'[o], i)
    BY <2>3, <2>4
  <2> QED
    BY <1>5, <2>1, <2>4, <2>5, <2>6, <2>7 DEF k
<1> QED
  BY <1>4, <1>5

(* What the pass keeps.                                                     *)
LEMMA SentPass ==
  ASSUME OgmInv, SendNode, NEW to \in SUBSET Ifs, NEW bucket \in Nat, Sends(Current, to, bucket)
  PROVE  /\ pass' \in [pos : 1..(due' + 1), size : Nat, sent : BOOLEAN]
         /\ pass'.size = IF Dropped(Current) THEN Size(Current) ELSE Size(Current) + Current.len
         /\ pass'.sent <=> pass.sent
         /\ pass'.size >= Hdr
<1> DEFINE n == Current
           p == pass
           pos == IF Finished(to, bucket) THEN p.pos ELSE p.pos + 1
           size == IF Dropped(n) THEN Size(n) ELSE Size(n) + n.len
<1>1. /\ p \in [pos : 1..(due + 1), size : Nat, sent : BOOLEAN] /\ p.pos \in 1..due
      /\ due \in Nat /\ p.size >= Hdr
      /\ n.len \in Nat /\ Hdr \in Nat
  BY CurrentNode, SizeAssumption DEF Node
<1>2. pass' = [p EXCEPT !.pos = pos, !.size = size]
  BY DEF Sends, SendsRest
<1>3. due' = IF Finished(to, bucket) THEN due - 1 ELSE due
  BY SentQueue
<1>4. pos \in 1..(due' + 1)
  BY <1>1, <1>3
<1>5. size \in Nat /\ size >= Hdr
  BY <1>1 DEF Size
<1> HIDE DEF n, p, pos, size
<1>6. pass' \in [pos : 1..(due' + 1), size : Nat, sent : BOOLEAN]
  BY <1>1, <1>2, <1>4, <1>5
<1>7. DOMAIN p = {"pos", "size", "sent"}
  BY <1>1
<1>8. pass'.size = size /\ pass'.sent = p.sent
  BY <1>2, <1>7
<1> QED
  BY <1>5, <1>6, <1>8 DEF n, p, size

(* The histories after it.                                                  *)
LEMMA SentHistory ==
  ASSUME OgmInv, SendNode, NEW to \in SUBSET Ifs, NEW bucket \in Nat, Sends(Current, to, bucket)
  PROVE  sent' \in [Ifs -> Seq(Sqn)] /\ unsent' \subseteq Ifs
<1> DEFINE n == Current
           s == sent[n.out]
           t == <<n.seqno>> \o s
           last == IF Len(s) < EchoLag THEN Len(s) + 1 ELSE EchoLag + 1
<1>1. n.out \in Ifs /\ n.seqno \in Sqn /\ sent \in [Ifs -> Seq(Sqn)] /\ unsent \subseteq Ifs
  BY CurrentNode DEF Node, OgmInv, TypeOK
<1>2. /\ sent' = IF ~FirstCopy(n) \/ Dropped(n) THEN sent ELSE Recorded(n)
      /\ unsent' = IF n.own /\ Dropped(n) THEN unsent \cup {n.out} ELSE unsent
  BY DEF Sends, SendsRest
<1>3. Recorded(n) = [sent EXCEPT ![n.out] = SubSeq(t, 1, last)]
  BY DEF Recorded
<1> HIDE DEF n
<1>4. s \in Seq(Sqn) /\ Len(s) \in Nat /\ EchoLag \in Nat
  BY <1>1, SqnAssumption
<1> HIDE DEF s
<1>5. t \in Seq(Sqn) /\ Len(t) = Len(s) + 1
  BY <1>1, <1>4
<1> HIDE DEF t
<1>6. last \in 1..Len(t)
  BY <1>4, <1>5
<1> HIDE DEF last
<1>7. SubSeq(t, 1, last) \in Seq(Sqn)
  BY <1>5, <1>6, SubSeqProperties
<1> QED
  BY <1>1, <1>2, <1>3, <1>7

(* SendNode.                                                                *)
LEMMA SendNodeInv == OgmInv /\ SendNode => OgmInv'
<1> SUFFICES ASSUME OgmInv, SendNode PROVE OgmInv'
  OBVIOUS
<1> DEFINE n == Current
           k == pass.pos
<1>1. PICK to \in SUBSET Ifs, bucket \in Nat : Sends(Current, to, bucket)
  BY SendNodeIs
<1>2. /\ queue \in Seq(Node) /\ due \in 0..Len(queue) /\ k \in 1..due /\ k \in DOMAIN queue
      /\ n \in Node /\ Fine(n, dev) /\ n = queue[k]
      /\ pass \in [pos : 1..(due + 1), size : Nat, sent : BOOLEAN]
      /\ pass.size \in Nat /\ pass.size >= Hdr
  BY CurrentNode DEF Current
<1>3. dev' \in [Ifs -> Dev] /\ Existing(dev') /\ \A i \in Ifs : dev[i].exists => dev'[i].exists
  BY <1>1, SentExisting
<1>4. queue' \in Seq(Node) /\ due' \in 0..Len(queue')
      /\ due' = IF Finished(to, bucket) THEN due - 1 ELSE due
  BY <1>1, SentQueue
<1>5. PICK M, e : /\ From(queue', M, queue, DOMAIN queue \ {k}, e)
                  /\ \A m \in DOMAIN queue' \ M : /\ Fine(queue'[m], dev')
                                                   /\ \A i : ~FirstOf(queue'[m], i)
  BY <1>1, SentQueue
<1>6. \A i \in Ifs : SentTo(dev[i], dev'[i], i, n, Emptied(n), to)
  BY <1>1 DEF Sends
<1>7. SendsRest(n, to, bucket)
  BY <1>1 DEF Sends
<1> HIDE DEF n, k
<1>8. AllFine(queue', dev')
  <2>1. AllFine(queue, dev)
    BY DEF OgmInv
  <2>2. \A p \in DOMAIN queue \ {k} : dev[queue[p].out].exists => dev'[queue[p].out].exists
    BY <1>2, <1>3, NodeOut
  <2> QED
    BY <1>2, <1>5, <2>1, <2>2, AllFineKept
<1>9. ASSUME NEW i \in Ifs PROVE Chain(queue', dev', i)
  <2>0. Chain(queue, dev, i)
    BY DEF OgmInv
  <2>1. CASE FirstOf(n, i)
    <3>1. dev'[i].sendOwn /\ dev'[i].scheduling
      BY <1>2, <1>6, <2>0, <2>1 DEF SentTo, Chain
    <3> QED
      BY <1>2, <1>5, <2>0, <2>1, <3>1, ChainSent
  <2>2. CASE ~FirstOf(n, i)
    <3>1. (dev'[i].sendOwn <=> dev[i].sendOwn) /\ (dev'[i].scheduling <=> dev[i].scheduling)
      BY <1>6, <2>2 DEF SentTo
    <3>2. \A p \in DOMAIN queue \ (DOMAIN queue \ {k}) : ~FirstOf(queue[p], i)
      BY <1>2, <2>2
    <3> QED
      BY <1>5, <2>0, <3>1, <3>2, ChainKept
  <2> QED
    BY <2>1, <2>2
<1>10. pass' \in [pos : 1..(due' + 1), size : Nat, sent : BOOLEAN] /\ pass'.size >= Hdr
  BY <1>1, SentPass
<1>11. sent' \in [Ifs -> Seq(Sqn)] /\ unsent' \subseteq Ifs
  BY <1>1, SentHistory
<1>12. TypeOK'
  BY <1>3, <1>4, <1>10, <1>11 DEF TypeOK
<1> QED
  BY <1>3, <1>8, <1>9, <1>10, <1>12 DEF OgmInv

-----------------------------------------------------------------------------
(* What needs no assumption on the configuration.                           *)

(* OgmInv is inductive.                                                     *)
LEMMA OgmStep == OgmInv /\ [Next]_vars => OgmInv'
<1> SUFFICES ASSUME OgmInv, [Next]_vars PROVE OgmInv'
  OBVIOUS
<1>1. CASE Aggregate
  BY <1>1, BeginInv, SendNodeInv, SendRestInv, EndInv, NextOwnInv DEF Aggregate
<1>2. ASSUME NEW i \in Ifs,
             \/ Tick(i) \/ \E r \in Rcvd : ScheduleRcvd(i, r)
             \/ Activate(i) \/ Deactivate(i) \/ RemoveIf(i) \/ AddIf(i) \/ EchoOwn(i)
      PROVE  OgmInv'
  BY <1>2, TickInv, ScheduleRcvdInv, ActivateInv, DeactivateInv, RemoveIfInv, AddIfInv, EchoOwnInv
<1>3. CASE UNCHANGED vars
  BY <1>3 DEF vars, OgmInv, TypeOK, Existing
<1> QED
  BY <1>1, <1>2, <1>3 DEF Next

(* schedule.c keeps its queue well formed: the type invariant, what is      *)
(* known of each node and the chain of each interface hold always.          *)
THEOREM OgmAlways == Spec => []OgmInv
<1>1. Init => OgmInv
  BY InitInv
<1>2. OgmInv /\ [Next]_vars => OgmInv'
  BY OgmStep
<1> QED
  BY <1>1, <1>2, PTL DEF Spec

(* schedule_own_ogm() and aggregate_outstanding_ogms(): an interface that   *)
(* was ever active has one own OGM pending, or the next one is about to be  *)
(* scheduled, never both and never two, whatever happens to interfaces.     *)
THEOREM OneChainEach == Spec => []OneOwnPending
<1>1. ASSUME OgmInv PROVE OneOwnPending
  <2> SUFFICES ASSUME NEW i \in Ifs
               PROVE  Pending(i) + (IF dev[i].sendOwn THEN 1 ELSE 0)
                        = (IF dev[i].scheduling THEN 1 ELSE 0)
    BY DEF OneOwnPending
  <2> DEFINE K == {k \in DOMAIN queue : queue[k].own /\ queue[k].out = i /\ queue[k].iteration = 0}
  <2>1. Pending(i) = Cardinality(K)
    BY DEF Pending
  <2>2. \A k : k \in K <=> k \in DOMAIN queue /\ FirstOf(queue[k], i)
    BY DEF FirstOf
  <2> HIDE DEF K
  <2>3. Chain(queue, dev, i)
    BY <1>1 DEF OgmInv
  <2>4. CASE K = {}
    <3>1. Cardinality(K) = 0
      BY <2>4, FS_EmptySet
    <3>2. dev[i].scheduling <=> dev[i].sendOwn
      BY <2>2, <2>3, <2>4 DEF Chain
    <3> QED
      BY <2>1, <3>1, <3>2
  <2>5. ASSUME NEW k \in K
        PROVE  Pending(i) + (IF dev[i].sendOwn THEN 1 ELSE 0)
                        = (IF dev[i].scheduling THEN 1 ELSE 0)
    <3>1. K = {k}
      BY <2>2, <2>3 DEF Chain
    <3>2. Cardinality(K) = 1
      BY <3>1, FS_Singleton
    <3>3. dev[i].scheduling /\ ~dev[i].sendOwn
      BY <2>2, <2>3 DEF Chain
    <3> QED
      BY <2>1, <3>2, <3>3
  <2> QED
    BY <2>4, <2>5
<1> QED
  BY <1>1, OgmAlways, PTL

-----------------------------------------------------------------------------
(* What needs own OGMs that fit: schedule_own_ogm() does not count the      *)
(* bat_header.                                                              *)
OwnPacketFits == \A i \in Ifs : Hdr + OwnLen[i] <= Pref

(* Then none is dropped.                                                    *)
LEMMA OwnNotDropped ==
  ASSUME OgmInv, SendNode, OwnPacketFits, Current.own
  PROVE  ~Dropped(Current)
<1> DEFINE n == Current
           size == pass.size
           len == n.len
<1>1. n.len = OwnLen[n.out] /\ n.out \in Ifs
  BY CurrentNode DEF Fine, Node
<1>2. /\ Hdr \in Nat /\ Pref \in Nat /\ MaxUdpd \in Nat /\ Pref <= MaxUdpd
      /\ OwnLen[n.out] \in Nat
  BY <1>1, SizeAssumption
<1>3. len \in Nat /\ Hdr + len <= Pref
  BY <1>1, <1>2 DEF OwnPacketFits
<1>4. size \in Nat /\ size >= Hdr
  BY CurrentNode
<1>5. (size > Hdr /\ size + len > Pref <=> Full(size, n)) /\ (n.own)
  BY DEF Full
<1> HIDE DEF n, size, len
<1>6. Size(n) \in Nat /\ Size(n) + len <= Pref
  <2>1. CASE Full(size, n)
    <3>1. Size(n) = Hdr
      BY <2>1 DEF Size, size
    <3> QED
      BY <1>2, <1>3, <3>1
  <2>2. CASE ~Full(size, n)
    <3>1. Size(n) = size
      BY <2>2 DEF Size, size
    <3>2. ~(size > Hdr /\ size + len > Pref)
      BY <1>5, <2>2
    <3> QED
      BY <1>2, <1>3, <1>4, <3>1, <3>2
  <2> QED
    BY <2>1, <2>2
<1>7. ~(Size(n) + len > MaxUdpd) /\ ~(Size(n) + len > Pref)
  BY <1>2, <1>3, <1>6
<1> QED
  BY <1>7 DEF Dropped, TooLarge, n, len

(* The list with what needs them.                                           *)
ListInv == OgmInv /\ unsent = {}

(* It is inductive.                                                         *)
LEMMA ListStep == OwnPacketFits /\ ListInv /\ [Next]_vars => ListInv'
<1> SUFFICES ASSUME OwnPacketFits, ListInv, [Next]_vars PROVE ListInv'
  OBVIOUS
<1>1. OgmInv /\ OgmInv'
  BY OgmStep DEF ListInv
<1>2. unsent' = {}
  <2>1. CASE SendNode
    <3>1. PICK to \in SUBSET Ifs, bucket \in Nat : Sends(Current, to, bucket)
      BY <1>1, <2>1, SendNodeIs
    <3>2. ~(Current.own /\ Dropped(Current))
      BY <1>1, <2>1, OwnNotDropped
    <3>3. unsent' = unsent
      BY <3>1, <3>2 DEF Sends, SendsRest
    <3> QED
      BY <3>3 DEF ListInv
  <2>2. ASSUME NEW i \in Ifs, RemoveIf(i)
        PROVE  unsent' = {}
    BY <2>2 DEF RemoveIf, ListInv
  <2>3. CASE ~SendNode /\ \A i \in Ifs : ~RemoveIf(i)
    BY <2>3 DEF ListInv, Next, Aggregate, Begin, SendRest, NextOwn, End, Tick, ScheduleRcvd,
                Activate, Deactivate, AddIf, EchoOwn, vars
  <2> QED
    BY <2>1, <2>2, <2>3
<1> QED
  BY <1>1, <1>2 DEF ListInv

(* schedule.c and opt_dev(): a node goes out by an interface that is there, *)
(* leaves when nobody wants another copy, and own OGMs are never dropped,   *)
(* provided each of them fits into a packet with the bat_header.            *)
THEOREM ListKept == OwnPacketFits => (Spec => []ListSound)
<1> SUFFICES ASSUME OwnPacketFits PROVE Spec => []ListSound
  OBVIOUS
<1>1. Init => ListInv
  BY InitInv DEF ListInv, Init
<1>2. ListInv /\ [Next]_vars => ListInv'
  BY ListStep
<1>3. ListInv => ListSound
  <2> SUFFICES ASSUME ListInv PROVE ListSound
    OBVIOUS
  <2>1. OutgoingExists
    BY DEF ListInv, OgmInv, AllFine, Fine, OutgoingExists
  <2>2. CopiesBounded
    BY DEF ListInv, OgmInv, AllFine, Fine, CopiesBounded
  <2> QED
    BY <2>1, <2>2 DEF ListSound, OwnNeverDropped, ListInv
<1> QED
  BY <1>1, <1>2, <1>3, PTL DEF Spec

-----------------------------------------------------------------------------
(* The numbers of own OGMs, when each comes back before the next is sent.   *)

(* Of interface i with record b, whose last own OGM sent is in t: its       *)
(* if_seqno is the next number, and that of the OGM that is pending.        *)
Numbered(q, b, t, i) ==
  /\ t # <<>> => b.exists /\ \E x \in Sqn : t = <<x>> /\ b.seqno = (x + 1) % SqMod
  /\ \A k \in DOMAIN q : FirstOf(q[k], i) => q[k].seqno = b.seqno

(* So is each interface.                                                    *)
NumInv == \A i \in Ifs : Numbered(queue, dev[i], sent[i], i)

(* Where other nodes come and go.                                           *)
LEMMA NumberedKept ==
  ASSUME NEW q, NEW b, NEW t, NEW i, Numbered(q, b, t, i),
         NEW w, NEW c, NEW M, NEW P, NEW e, From(w, M, q, P, e),
         \A m \in DOMAIN w \ M : FirstOf(w[m], i) => w[m].seqno = b.seqno,
         b.exists => c.exists, c.seqno = b.seqno
  PROVE  Numbered(w, c, t, i)
<1>1. ASSUME NEW m \in DOMAIN w, FirstOf(w[m], i)
      PROVE  w[m].seqno = b.seqno
  <2>1. CASE m \in M
    <3>1. e[m] \in DOMAIN q /\ w[m] = q[e[m]]
      BY <2>1 DEF From
    <3> QED
      BY <1>1, <3>1 DEF Numbered
  <2> QED
    BY <1>1, <2>1
<1> QED
  BY <1>1 DEF Numbered

(* Where the list stays.                                                    *)
LEMMA NumberedSame ==
  ASSUME NEW q, NEW b, NEW t, NEW i, Numbered(q, b, t, i), NEW c,
         b.exists => c.exists, c.seqno = b.seqno
  PROVE  Numbered(q, c, t, i)
BY DEF Numbered

(* Most of what happens to an interface leaves number and buffer alone.     *)
LEMMA FlagsOnly ==
  ASSUME OgmInv, NEW i \in Ifs, Deactivate(i) \/ Activate(i) \/ NextOwn(i), NEW j \in Ifs
  PROVE  /\ dev'[j].seqno = dev[j].seqno /\ dev'[j].buffer = dev[j].buffer
         /\ dev[j].exists => dev'[j].exists
<1> DEFINE b == dev[i]
<1>1. dev \in [Ifs -> Dev] /\ b \in Dev
  BY DEF OgmInv, TypeOK
<1>2. DOMAIN b = {"exists", "active", "scheduling", "sendOwn", "seqno", "buffer"}
  BY <1>1 DEF Dev
<1>3. PICK v : dev' = [dev EXCEPT ![i] = v] /\ v.seqno = b.seqno /\ v.buffer = b.buffer
               /\ v.exists = b.exists
  <2> DEFINE v1 == [b EXCEPT !.active = FALSE]
             v2 == [b EXCEPT !.active = TRUE, !.scheduling = TRUE]
             v3 == [b EXCEPT !.sendOwn = FALSE]
  <2>1. \/ dev' = [dev EXCEPT ![i] = v1] \/ dev' = [dev EXCEPT ![i] = v2]
        \/ dev' = [dev EXCEPT ![i] = v3]
    BY DEF Deactivate, Activate, NextOwn
  <2> HIDE DEF b
  <2>2. v1.seqno = b.seqno /\ v1.buffer = b.buffer /\ v1.exists = b.exists
    BY <1>2
  <2>3. v2.seqno = b.seqno /\ v2.buffer = b.buffer /\ v2.exists = b.exists
    BY <1>2
  <2>4. v3.seqno = b.seqno /\ v3.buffer = b.buffer /\ v3.exists = b.exists
    BY <1>2
  <2> HIDE DEF v1, v2, v3
  <2> QED
    BY <2>1, <2>2, <2>3, <2>4
<1>4. CASE j = i
  BY <1>1, <1>3, <1>4
<1>5. CASE j # i
  BY <1>1, <1>3, <1>5
<1> QED
  BY <1>4, <1>5

(* The list in these steps: an own OGM is added with the number of its      *)
(* interface, or nothing.                                                   *)
LEMMA FlagsNumbers ==
  ASSUME OgmInv, NumInv, NEW i \in Ifs, Deactivate(i) \/ Activate(i) \/ NextOwn(i)
  PROVE  NumInv'
<1>1. sent' = sent
  BY DEF Deactivate, Activate, NextOwn
<1> SUFFICES ASSUME NEW j \in Ifs PROVE Numbered(queue', dev'[j], sent[j], j)
  BY <1>1 DEF NumInv
<1>2. Numbered(queue, dev[j], sent[j], j)
  BY DEF NumInv
<1>3. dev'[j].seqno = dev[j].seqno /\ (dev[j].exists => dev'[j].exists)
  BY FlagsOnly
<1>4. CASE queue' = queue
  BY <1>2, <1>3, <1>4, NumberedSame
<1>5. CASE ScheduleOwn(i) /\ dev[i].exists
  <2> DEFINE n == OwnNode(i)
  <2>1. PICK k \in due + 1 .. Len(queue) + 1 : queue' = InsertAt(queue, k, n)
    BY <1>5 DEF ScheduleOwn
  <2>2. n \in Node /\ \A l : FirstOf(n, l) <=> l = i
    BY <1>5, OwnNodeFine DEF OgmInv
  <2>3. n.seqno = dev[i].seqno
    BY DEF OwnNode
  <2> HIDE DEF n
  <2>4. queue \in Seq(Node) /\ k \in 1..(Len(queue) + 1)
    BY DEF OgmInv, TypeOK
  <2>5. HasInserted(queue', queue, k, n)
    BY <2>1, <2>2, <2>4, Inserted
  <2>6. PICK e : From(queue', DOMAIN queue' \ {k}, queue, DOMAIN queue, e)
    BY <2>5 DEF HasInserted
  <2>7. \A m \in DOMAIN queue' \ (DOMAIN queue' \ {k}) :
          FirstOf(queue'[m], j) => queue'[m].seqno = dev[j].seqno
    BY <2>2, <2>3, <2>5 DEF HasInserted
  <2> QED
    BY <1>2, <1>3, <2>6, <2>7, NumberedKept
<1>6. CASE NextOwn(i)
  <2>1. ScheduleOwn(i) /\ dev[i].sendOwn
    BY <1>6 DEF NextOwn
  <2> QED
    BY <1>5, <2>1 DEF OgmInv, Existing
<1> QED
  BY <1>4, <1>5, <1>6 DEF Deactivate, Activate

(* An OGM of a neighbour is no own one.                                     *)
LEMMA RcvdNumbers ==
  ASSUME OgmInv, NumInv, NEW i \in Ifs, NEW r \in Rcvd, ScheduleRcvd(i, r)
  PROVE  NumInv'
<1> DEFINE n == [own |-> FALSE, out |-> i, iteration |-> 0, bucket |-> 0, len |-> r.len,
                 direct |-> r.direct, unidir |-> Unidirectional(r), cloned |-> r.cloned,
                 lastHop |-> r.ttl = 1, seqno |-> 0]
           k == due + 1
<1>1. UNCHANGED <<dev, sent>> /\ queue' = InsertAt(queue, k, n)
  BY DEF ScheduleRcvd
<1>2. queue \in Seq(Node) /\ k \in 1..(Len(queue) + 1)
  BY DEF OgmInv, TypeOK
<1>3. /\ r.direct \in BOOLEAN /\ r.best \in BOOLEAN /\ r.cloned \in BOOLEAN
      /\ r.asocial \in BOOLEAN /\ r.len \in Nat
  BY RcvdAssumption
<1>4. n \in Node
  <2>1. 0 \in Sqn
    BY SqnAssumption DEF Sqn
  <2>2. Unidirectional(r) \in BOOLEAN
    BY <1>3 DEF Unidirectional
  <2> QED
    BY <1>3, <2>1, <2>2 DEF Node
<1>5. \A j : ~FirstOf(n, j)
  BY DEF FirstOf
<1> HIDE DEF n, k
<1>6. HasInserted(queue', queue, k, n)
  BY <1>1, <1>2, <1>4, Inserted
<1>7. PICK e : From(queue', DOMAIN queue' \ {k}, queue, DOMAIN queue, e)
  BY <1>6 DEF HasInserted
<1>8. ASSUME NEW j \in Ifs PROVE Numbered(queue', dev[j], sent[j], j)
  <2>1. \A m \in DOMAIN queue' \ (DOMAIN queue' \ {k}) :
          FirstOf(queue'[m], j) => queue'[m].seqno = dev[j].seqno
    BY <1>5, <1>6 DEF HasInserted
  <2>2. Numbered(queue, dev[j], sent[j], j)
    BY DEF NumInv
  <2> QED
    BY <1>7, <2>1, <2>2, NumberedKept
<1> QED
  BY <1>1, <1>8 DEF NumInv

(* A removed interface has no number and no OGM.                            *)
LEMMA RemoveNumbers ==
  ASSUME OgmInv, NumInv, NEW i \in Ifs, RemoveIf(i)
  PROVE  NumInv'
<1> DEFINE w == Outstanding(queue, i)[Len(queue)]
<1>1. queue' = w /\ sent' = [sent EXCEPT ![i] = <<>>]
  BY DEF RemoveIf
<1>2. \A j \in Ifs \ {i} : dev'[j] = dev[j]
  BY DEF RemoveIf, OgmInv, TypeOK
<1>3. queue \in Seq(Node) /\ sent \in [Ifs -> Seq(Sqn)]
  BY DEF OgmInv, TypeOK
<1>4. \A m \in DOMAIN w : w[m].out # i
  BY <1>3, Cleared
<1>5. PICK e : From(w, DOMAIN w, queue, Others(queue, i), e)
  BY <1>3, Cleared
<1> HIDE DEF w
<1>6. ASSUME NEW j \in Ifs PROVE Numbered(w, dev'[j], sent'[j], j)
  <2>1. CASE j = i
    <3>1. sent'[j] = <<>>
      BY <1>1, <1>3, <2>1
    <3>2. \A m \in DOMAIN w : ~FirstOf(w[m], j)
      BY <1>4, <2>1 DEF FirstOf
    <3> QED
      BY <3>1, <3>2 DEF Numbered
  <2>2. CASE j # i
    <3>1. sent'[j] = sent[j] /\ dev'[j] = dev[j]
      BY <1>1, <1>2, <1>3, <2>2
    <3>2. Numbered(queue, dev[j], sent[j], j)
      BY DEF NumInv
    <3> QED
      BY <1>5, <3>1, <3>2, NumberedKept
  <2> QED
    BY <2>1, <2>2
<1> QED
  BY <1>1, <1>6 DEF NumInv

(* A new one takes its number from the primary interface.                   *)
LEMMA AddNumbers ==
  ASSUME OgmInv, NumInv, NEW i \in Ifs, AddIf(i)
  PROVE  NumInv'
<1>1. UNCHANGED <<queue, sent>> /\ ~dev[i].exists /\ \A j \in Ifs \ {i} : dev'[j] = dev[j]
  BY DEF AddIf, OgmInv, TypeOK
<1>2. ASSUME NEW j \in Ifs PROVE Numbered(queue, dev'[j], sent[j], j)
  <2>1. Numbered(queue, dev[j], sent[j], j)
    BY DEF NumInv
  <2>2. CASE j = i
    <3>1. sent[j] = <<>>
      BY <1>1, <2>1, <2>2 DEF Numbered
    <3>2. \A m \in DOMAIN queue : ~FirstOf(queue[m], j)
      BY <1>1, <2>2 DEF OgmInv, AllFine, Fine, FirstOf
    <3> QED
      BY <3>1, <3>2 DEF Numbered
  <2>3. CASE j # i
    BY <1>1, <2>1, <2>3
  <2> QED
    BY <2>2, <2>3
<1> QED
  BY <1>1, <1>2 DEF NumInv

(* The last own OGM comes back: the number is right already.                *)
LEMMA EchoNumbers ==
  ASSUME OgmInv, NumInv, NEW i \in Ifs, EchoOwn(i)
  PROVE  NumInv'
<1>1. PICK s \in ToSet(sent[i]) : dev' = [dev EXCEPT ![i].seqno = EchoSeqno(i, s)]
  BY DEF EchoOwn
<1>2. UNCHANGED <<queue, sent>>
  BY DEF EchoOwn
<1>3. dev \in [Ifs -> Dev] /\ dev[i] \in Dev
  BY DEF OgmInv, TypeOK
<1>4. Numbered(queue, dev[i], sent[i], i)
  BY DEF NumInv
<1>5. sent[i] # <<>>
  <2>1. ToSet(<<>>) = {}
    BY DEF ToSet
  <2> QED
    BY <1>1, <2>1
<1>6. PICK x \in Sqn : sent[i] = <<x>> /\ dev[i].seqno = (x + 1) % SqMod
  BY <1>4, <1>5 DEF Numbered
<1>7. s = x
  <2>1. ToSet(<<x>>) = {x}
    BY DEF ToSet
  <2> QED
    BY <1>1, <1>6, <2>1
<1>8. EchoSeqno(i, s) = dev[i].seqno
  BY <1>6, <1>7 DEF EchoSeqno
<1> DEFINE b == dev[i]
           v == [b EXCEPT !.seqno = b.seqno]
<1>9. dev' = [dev EXCEPT ![i] = v]
  BY <1>1, <1>8
<1>10. v.seqno = b.seqno /\ v.exists = b.exists
  <2> HIDE DEF b
  <2>1. DOMAIN b = {"exists", "active", "scheduling", "sendOwn", "seqno", "buffer"}
    BY <1>3 DEF Dev, b
  <2> QED
    BY <2>1
<1> HIDE DEF v
<1>11. ASSUME NEW j \in Ifs PROVE Numbered(queue, dev'[j], sent[j], j)
  <2>1. Numbered(queue, dev[j], sent[j], j)
    BY DEF NumInv
  <2>2. dev'[j].seqno = dev[j].seqno /\ (dev[j].exists => dev'[j].exists)
    BY <1>3, <1>9, <1>10 DEF b
  <2> QED
    BY <2>1, <2>2, NumberedSame
<1> QED
  BY <1>2, <1>11 DEF NumInv

(* What is recorded of an own OGM: its number only.                         *)
LEMMA LastSent ==
  ASSUME EchoLag = 0, NEW t \in Seq(Sqn), NEW x \in Sqn
  PROVE  SubSeq(<<x>> \o t, 1, IF Len(t) < EchoLag THEN Len(t) + 1 ELSE EchoLag + 1) = <<x>>
<1> DEFINE s == <<x>> \o t
<1>1. s \in Seq(Sqn) /\ Len(s) = 1 + Len(t) /\ Len(t) \in Nat /\ s[1] = x
  OBVIOUS
<1>2. (IF Len(t) < EchoLag THEN Len(t) + 1 ELSE EchoLag + 1) = 1
  BY <1>1
<1> HIDE DEF s
<1>3. SubSeq(s, 1, 1) = <<x>>
  <2>1. Len(SubSeq(s, 1, 1)) = 1 /\ SubSeq(s, 1, 1) \in Seq(Sqn)
    BY <1>1
  <2>2. SubSeq(s, 1, 1)[1] = x
    BY <1>1
  <2> DEFINE u == SubSeq(s, 1, 1)
  <2>3. Len(u) = 1 /\ u \in Seq(Sqn) /\ u[1] = x
    BY <2>1, <2>2
  <2> HIDE DEF u
  <2>4. u = <<x>>
    BY <2>3
  <2> QED
    BY <2>4 DEF u
<1> QED
  BY <1>2, <1>3 DEF s

(* The first copy of an own OGM goes out: the next has the next number.     *)
LEMMA SendNumbers ==
  ASSUME OgmInv, NumInv, SendNode, OwnPacketFits, EchoLag = 0
  PROVE  NumInv'
<1> DEFINE n == Current
           k == pass.pos
<1>1. PICK to \in SUBSET Ifs, bucket \in Nat : Sends(n, to, bucket)
  BY SendNodeIs
<1>2. PICK M, e : /\ From(queue', M, queue, DOMAIN queue \ {k}, e)
                  /\ \A m \in DOMAIN queue' \ M : \A i : ~FirstOf(queue'[m], i)
  BY <1>1, SentQueue
<1>3. n \in Node /\ Fine(n, dev) /\ k \in DOMAIN queue /\ n = queue[k]
  BY CurrentNode DEF Current
<1>4. sent \in [Ifs -> Seq(Sqn)] /\ n.out \in Ifs /\ n.seqno \in Sqn
  BY <1>3 DEF OgmInv, TypeOK, Node
<1>5. sent' = IF ~FirstCopy(n) \/ Dropped(n) THEN sent ELSE Recorded(n)
  BY <1>1 DEF Sends, SendsRest
<1>6. n.own => ~Dropped(n)
  BY OwnNotDropped
<1>7. ASSUME NEW j \in Ifs PROVE SentTo(dev[j], dev'[j], j, n, Emptied(n), to)
  BY <1>1 DEF Sends
<1> HIDE DEF n, k
<1>8. ASSUME NEW j \in Ifs, FirstOf(n, j)
      PROVE  Numbered(queue', dev'[j], sent'[j], j)
  <2>1. n.out = j /\ FirstCopy(n) /\ n.own
    BY <1>8 DEF FirstOf, FirstCopy
  <2>2. sent' = Recorded(n)
    BY <1>5, <1>6, <2>1
  <2>3. sent'[j] = <<n.seqno>>
    <3> DEFINE t == sent[j]
               x == n.seqno
    <3>1. t \in Seq(Sqn) /\ x \in Sqn
      BY <1>4
    <3>2. sent'[j] = SubSeq(<<x>> \o t, 1, IF Len(t) < EchoLag THEN Len(t) + 1 ELSE EchoLag + 1)
      BY <1>4, <2>1, <2>2 DEF Recorded
    <3> HIDE DEF t, x
    <3>3. sent'[j] = <<x>>
      BY <3>1, <3>2, LastSent
    <3> QED
      BY <3>3 DEF x
  <2>4. n.seqno = dev[j].seqno
    BY <1>3, <1>8 DEF NumInv, Numbered
  <2>5. dev'[j].seqno = (dev[j].seqno + 1) % SqMod
    BY <1>7, <1>8 DEF SentTo
  <2>6. dev'[j].exists
    BY <1>3, <1>7, <2>1 DEF Fine, SentTo
  <2>7. \A m \in DOMAIN queue' : ~FirstOf(queue'[m], j)
    <3> SUFFICES ASSUME NEW m \in DOMAIN queue', FirstOf(queue'[m], j) PROVE FALSE
      OBVIOUS
    <3>1. m \in M /\ e[m] \in DOMAIN queue \ {k} /\ FirstOf(queue[e[m]], j)
      BY <1>2 DEF From
    <3>2. Chain(queue, dev, j)
      BY DEF OgmInv
    <3> QED
      BY <1>3, <1>8, <3>1, <3>2 DEF Chain
  <2> QED
    BY <1>4, <2>3, <2>4, <2>5, <2>6, <2>7 DEF Numbered
<1>9. ASSUME NEW j \in Ifs, ~FirstOf(n, j)
      PROVE  Numbered(queue', dev'[j], sent'[j], j)
  <2>1. sent'[j] = sent[j]
    BY <1>4, <1>5, <1>9 DEF Recorded, FirstOf, FirstCopy
  <2>2. dev'[j].seqno = dev[j].seqno /\ (dev[j].exists => dev'[j].exists)
    BY <1>7, <1>9 DEF SentTo
  <2>3. Numbered(queue, dev[j], sent[j], j)
    BY DEF NumInv
  <2>4. \A m \in DOMAIN queue' \ M : FirstOf(queue'[m], j) => queue'[m].seqno = dev[j].seqno
    BY <1>2
  <2> QED
    BY <1>2, <2>1, <2>2, <2>3, <2>4, NumberedKept
<1> QED
  BY <1>8, <1>9 DEF NumInv

(* What touches neither list nor numbers.                                   *)
LEMMA SameNumbers ==
  ASSUME OgmInv, NumInv,
         Begin \/ SendRest \/ End \/ (\E i \in Ifs : Tick(i)) \/ UNCHANGED vars
  PROVE  NumInv'
<1>1. UNCHANGED <<queue, sent>>
  BY DEF Begin, SendRest, End, Tick, vars
<1>2. ASSUME NEW j \in Ifs
      PROVE  dev'[j].seqno = dev[j].seqno /\ (dev[j].exists => dev'[j].exists)
  <2>1. dev' = dev \/ dev' = Flushed(dev)
    BY DEF Begin, SendRest, End, Tick, vars
  <2>2. CASE dev' = Flushed(dev)
    <3>1. dev \in [Ifs -> Dev]
      BY DEF OgmInv, TypeOK
    <3>2. Alike(dev'[j], dev[j])
      BY <2>2, <3>1, FlushedDev
    <3> QED
      BY <3>2 DEF Alike
  <2> QED
    BY <2>1, <2>2
<1>3. ASSUME NEW j \in Ifs PROVE Numbered(queue, dev'[j], sent[j], j)
  <2>1. Numbered(queue, dev[j], sent[j], j)
    BY DEF NumInv
  <2> QED
    BY <1>2, <2>1, NumberedSame
<1> QED
  BY <1>1, <1>3 DEF NumInv

(* The numbers are kept by every step.                                      *)
LEMMA NumStep ==
  ASSUME EchoLag = 0, OwnPacketFits, OgmInv, NumInv, [Next]_vars
  PROVE  NumInv'
<1>1. CASE Aggregate
  BY <1>1, SendNumbers, SameNumbers, FlagsNumbers DEF Aggregate
<1>2. ASSUME NEW i \in Ifs,
             \/ Tick(i) \/ \E r \in Rcvd : ScheduleRcvd(i, r)
             \/ Activate(i) \/ Deactivate(i) \/ RemoveIf(i) \/ AddIf(i) \/ EchoOwn(i)
      PROVE  NumInv'
  BY <1>2, SameNumbers, RcvdNumbers, FlagsNumbers, RemoveNumbers, AddNumbers, EchoNumbers
<1> QED
  BY <1>1, <1>2, SameNumbers DEF Next

(* schedule_own_ogm(), aggregate_outstanding_ogms() and update_rtq_link():  *)
(* an own OGM that waits has the number after that of the last one sent by  *)
(* its interface, also across the wrap of 16 bits, provided an own OGM that *)
(* comes back is the last one sent and own OGMs fit.                        *)
THEOREM NumbersAdvance == EchoLag = 0 /\ OwnPacketFits => (Spec => []SeqnoAdvances)
<1> SUFFICES ASSUME EchoLag = 0, OwnPacketFits PROVE Spec => []SeqnoAdvances
  OBVIOUS
<1> DEFINE Inv == OgmInv /\ NumInv
<1>1. Init => Inv
  <2> SUFFICES ASSUME Init PROVE NumInv
    BY InitInv
  <2>1. queue = <<>> /\ \A i \in Ifs : sent[i] = <<>>
    BY DEF Init
  <2> QED
    BY <2>1 DEF NumInv, Numbered
<1>2. Inv /\ [Next]_vars => Inv'
  BY OgmStep, NumStep
<1>3. Inv => SeqnoAdvances
  <2> SUFFICES ASSUME Inv, NEW k \in DOMAIN queue, queue[k].own, queue[k].iteration = 0,
                      sent[queue[k].out] # <<>>
               PROVE  (queue[k].seqno - sent[queue[k].out][1]) % SqMod \in 1 .. SqMod \div 2
    BY DEF SeqnoAdvances
  <2> DEFINE i == queue[k].out
  <2>1. i \in Ifs
    <3>1. queue \in Seq(Node)
      BY DEF OgmInv, TypeOK
    <3> QED
      BY <3>1, NodeOut DEF Node
  <2>2. FirstOf(queue[k], i)
    BY DEF FirstOf
  <2> HIDE DEF i
  <2>3. Numbered(queue, dev[i], sent[i], i)
    BY <2>1 DEF NumInv
  <2>4. PICK x \in Sqn : sent[i] = <<x>> /\ dev[i].seqno = (x + 1) % SqMod
    BY <2>3 DEF Numbered, i
  <2>5. queue[k].seqno = (x + 1) % SqMod
    BY <2>2, <2>3, <2>4 DEF Numbered
  <2>6. SqMod \in Nat /\ SqMod > 1 /\ x \in 0..(SqMod - 1)
    BY SqnAssumption DEF Sqn
  <2>7. (((x + 1) % SqMod) - x) % SqMod \in 1 .. SqMod \div 2
    <3> DEFINE y == (x + 1) % SqMod
    <3>1. CASE x + 1 < SqMod
      <4>1. y = x + 1
        BY <2>6, <3>1
      <4> HIDE DEF y
      <4>2. (y - x) % SqMod = 1
        BY <2>6, <4>1
      <4> QED
        BY <2>6, <4>2 DEF y
    <3>2. CASE x + 1 = SqMod
      <4>1. y = 0
        BY <2>6, <3>2
      <4> HIDE DEF y
      <4>2. (y - x) % SqMod = 1
        BY <2>6, <3>2, <4>1
      <4> QED
        BY <2>6, <4>2 DEF y
    <3> QED
      BY <2>6, <3>1, <3>2
  <2> QED
    BY <2>4, <2>5, <2>7 DEF i
<1> QED
  BY <1>1, <1>2, <1>3, PTL DEF Spec

-----------------------------------------------------------------------------
(* The packets, when no loopback interface is told to send clones.          *)
LoopbackSilent == \A i \in Loopback \cap Ifs : Clones[i] = 0

(* What the one size that is added up says of each buffer.                  *)
Packed(t, size) ==
  /\ Bytes(t) <= size
  /\ size = Hdr => t = <<>>
  /\ size > Pref => t = <<>> \/ (Len(t) = 1 /\ ~t[1].own)

(* Buffers are empty but in the first part of a pass, before SendRest.      *)
PackInv ==
  /\ \A i \in Loopback \cap Ifs : dev[i].buffer = <<>>
  /\ Idle \/ pass.sent => \A i \in Ifs : dev[i].buffer = <<>>
  /\ ~Idle => /\ pass.size <= MaxUdpd
              /\ pass.sent => pass.pos > due
              /\ \A i \in Ifs : Packed(dev[i].buffer, pass.size)

(* Nothing is in an empty buffer.                                           *)
LEMMA PackedEmpty == \A size \in Nat : size >= Hdr => Packed(<<>>, size)
BY BytesEmpty, SizeAssumption DEF Packed

(* An OGM is added to some buffers and counted for all.                     *)
LEMMA PackedMore ==
  ASSUME NEW t \in Seq(Ogm), NEW size \in Nat, size >= Hdr, Packed(t, size),
         NEW o \in Ogm, o.len > 0, size > Hdr => size + o.len <= Pref,
         o.own => size + o.len <= Pref
  PROVE  Packed(t, size + o.len) /\ Packed(Append(t, o), size + o.len)
<1> DEFINE len == o.len
           u == Append(t, o)
           bytes == Bytes(t)
<1>1. len \in Nat /\ Hdr \in Nat /\ Pref \in Nat /\ len > 0
  BY SizeAssumption DEF Ogm
<1>2. bytes \in Nat
  <2>1. PICK f \in [0..Len(t) -> Nat] : Bytes(t) = f[Len(t)]
    BY BytesWalk
  <2>2. Len(t) \in 0..Len(t)
    OBVIOUS
  <2> QED
    BY <2>1, <2>2
<1>3. Bytes(u) = bytes + len
  BY BytesAppend
<1>4. bytes <= size /\ (size = Hdr => t = <<>>)
  BY DEF Packed
<1>5. t = <<>> => Len(u) = 1 /\ u[1] = o
  OBVIOUS
<1>6. (size > Hdr => size + len <= Pref) /\ (o.own => size + len <= Pref)
  OBVIOUS
<1> HIDE DEF len, u, bytes
<1>7. bytes <= size + len /\ Bytes(u) <= size + len /\ size + len # Hdr
  BY <1>1, <1>2, <1>3, <1>4
<1>8. ASSUME size + len > Pref
      PROVE  t = <<>> /\ Len(u) = 1 /\ ~u[1].own
  <2>1. size = Hdr
    BY <1>1, <1>6, <1>8
  <2>2. ~o.own
    BY <1>1, <1>6, <1>8
  <2> QED
    BY <1>4, <1>5, <2>1, <2>2
<1>9. Packed(t, size + len)
  BY <1>7, <1>8 DEF Packed, bytes
<1>10. Packed(u, size + len)
  BY <1>7, <1>8 DEF Packed
<1> QED
  BY <1>9, <1>10 DEF len, u

(* Nothing is sent to a loopback interface.                                 *)
LEMMA TargetsReal ==
  ASSUME OgmInv, SendNode, LoopbackSilent, NEW to, NEW bucket \in Nat, Sends(Current, to, bucket),
         NEW i \in to
  PROVE  i \notin Loopback
<1> DEFINE n == Current
<1>1. PICK silent : to = Targets(n, bucket, silent)
  BY DEF Sends
<1>2. Fine(n, dev)
  BY CurrentNode
<1> HIDE DEF n
<1>3. CASE ToNeighbourOnly(n)
  BY <1>1, <1>2, <1>3 DEF Targets, ToNeighbourOnly, Fine
<1>4. CASE ~ToNeighbourOnly(n)
  <2>1. i \in Ifs /\ bucket < Clones[i]
    BY <1>1, <1>4 DEF Targets, Wants
  <2> QED
    BY <2>1 DEF LoopbackSilent
<1> QED
  BY <1>3, <1>4

(* The buffers before the OGM is added fit the size before it is.           *)
LEMMA PackedBefore ==
  ASSUME OgmInv, PackInv, SendNode, NEW i \in Ifs, NEW t,
         t = IF i \in Emptied(Current) THEN <<>> ELSE dev[i].buffer
  PROVE  /\ t \in Seq(Ogm) /\ Packed(t, Size(Current))
         /\ Size(Current) \in Nat /\ Size(Current) >= Hdr /\ Size(Current) <= MaxUdpd
         /\ i \in Loopback => t = <<>>
<1> DEFINE n == Current
<1>1. pass.size \in Nat /\ pass.size >= Hdr /\ pass.size <= MaxUdpd /\ ~Idle
  BY CurrentNode DEF PackInv, Idle
<1>2. Hdr \in Nat /\ Hdr <= MaxUdpd
  BY SizeAssumption
<1>3. dev[i].buffer \in Seq(Ogm)
  BY DEF OgmInv, TypeOK, Dev, Ogm
<1>4. <<>> \in Seq(Ogm)
  OBVIOUS
<1>5. Packed(dev[i].buffer, pass.size) /\ (i \in Loopback => dev[i].buffer = <<>>)
  BY <1>1 DEF PackInv
<1> HIDE DEF n
<1>6. CASE Full(pass.size, n)
  <2>1. Size(n) = Hdr /\ t = <<>>
    BY <1>5, <1>6 DEF Size, Emptied, n
  <2>2. Packed(<<>>, Hdr) /\ Hdr >= Hdr
    BY <1>2, PackedEmpty
  <2>3. t \in Seq(Ogm) /\ Packed(t, Size(n))
    BY <1>4, <2>1, <2>2
  <2>4. Size(n) \in Nat /\ Size(n) >= Hdr /\ Size(n) <= MaxUdpd
    BY <1>2, <2>1, <2>2
  <2> QED
    BY <2>1, <2>3, <2>4 DEF n
<1>7. CASE ~Full(pass.size, n)
  <2>1. Size(n) = pass.size /\ t = dev[i].buffer
    BY <1>7 DEF Size, Emptied, n
  <2> QED
    BY <1>1, <1>3, <1>5, <2>1 DEF n
<1> QED
  BY <1>6, <1>7

(* What an OGM that is not dropped leaves room for.                         *)
LEMMA SizeLeft ==
  ASSUME OgmInv, SendNode, ~Dropped(Current), NEW size, size = Size(Current), size \in Nat,
         NEW len, len = Current.len
  PROVE  /\ len \in Nat /\ len > 0
         /\ size > Hdr => size + len <= Pref
         /\ Current.own => size + len <= Pref
         /\ size + len <= MaxUdpd
<1> DEFINE n == Current
           old == pass.size
<1>1. n \in Node /\ Fine(n, dev) /\ old \in Nat
  BY CurrentNode
<1>2. len \in Nat /\ len > 0
  BY <1>1 DEF Node, Fine
<1>3. Hdr \in Nat /\ Pref \in Nat /\ MaxUdpd \in Nat
  BY SizeAssumption
<1>4. ~(size + len > MaxUdpd) /\ ~(n.own /\ size + len > Pref)
  BY DEF Dropped, TooLarge
<1>5. /\ Full(old, n) => size = Hdr
      /\ ~Full(old, n) => size = old /\ ~(old > Hdr /\ old + len > Pref)
  BY DEF Size, Full
<1> HIDE DEF n, old
<1>6. size > Hdr => size + len <= Pref
  BY <1>1, <1>2, <1>3, <1>5
<1> QED
  BY <1>2, <1>3, <1>4, <1>6 DEF n

(* The buffers after the node was sent.                                     *)
LEMMA SendPacks ==
  ASSUME OgmInv, PackInv, SendNode, LoopbackSilent
  PROVE  PackInv'
<1> DEFINE n == Current
           size == Size(n)
           len == n.len
           ogm == [own |-> n.own, len |-> n.len]
<1>1. PICK to \in SUBSET Ifs, bucket \in Nat : Sends(n, to, bucket)
  BY SendNodeIs
<1>2. /\ pass'.size = IF Dropped(n) THEN size ELSE size + len
      /\ pass'.sent <=> pass.sent
  BY <1>1, SentPass
<1>3. ~pass.sent /\ ~Idle
  <2>1. pass # NULL /\ pass.pos <= due /\ pass.pos \in Nat /\ due \in Nat
    BY CurrentNode
  <2> QED
    BY <2>1 DEF PackInv, Idle
<1>4. ~Idle'
  <2>1. pass' \in [pos : 1..(due' + 1), size : Nat, sent : BOOLEAN]
    BY <1>1, SentPass
  <2>2. pass' \in [pos : Nat, size : Nat, sent : BOOLEAN]
    BY <2>1
  <2> QED
    BY <2>2, NullAssumption DEF Idle
<1>5. n \in Node /\ ogm \in Ogm /\ ogm.len = len /\ ogm.own = n.own
  BY CurrentNode DEF Node, Ogm
<1>6. ASSUME NEW i \in Ifs
      PROVE  \E t : /\ t = IF i \in Emptied(n) THEN <<>> ELSE dev[i].buffer
                    /\ dev'[i].buffer = IF i \in to THEN Append(t, ogm) ELSE t
  <2>1. SentTo(dev[i], dev'[i], i, n, Emptied(n), to)
    BY <1>1 DEF Sends
  <2> QED
    BY <2>1 DEF SentTo
<1>7. Dropped(n) => to = {}
  BY <1>1 DEF Sends
<1>8. \A i \in to : i \notin Loopback
  BY <1>1, TargetsReal
<1>9. size \in Nat /\ size >= Hdr /\ size <= MaxUdpd
  <2>1. PrimaryIf \in Ifs
    BY IfsAssumption
  <2> QED
    BY <2>1, PackedBefore
<1>10. ASSUME NEW i \in Ifs
       PROVE  /\ Packed(dev'[i].buffer, pass'.size)
              /\ i \in Loopback => dev'[i].buffer = <<>>
  <2>1. PICK t : /\ t = IF i \in Emptied(n) THEN <<>> ELSE dev[i].buffer
                 /\ dev'[i].buffer = IF i \in to THEN Append(t, ogm) ELSE t
    BY <1>6
  <2>2. t \in Seq(Ogm) /\ Packed(t, size) /\ (i \in Loopback => t = <<>>)
    BY <2>1, PackedBefore
  <2>3. CASE Dropped(n)
    BY <1>2, <1>7, <2>1, <2>2, <2>3
  <2>4. CASE ~Dropped(n)
    <3>1. /\ len \in Nat /\ len > 0
          /\ size > Hdr => size + len <= Pref
          /\ n.own => size + len <= Pref
      BY <1>9, <2>4, SizeLeft
    <3>2. pass'.size = size + len
      BY <1>2, <2>4
    <3> HIDE DEF n, size, len, ogm
    <3>3. /\ ogm.len > 0 /\ (size > Hdr => size + ogm.len <= Pref)
          /\ ogm.own => size + ogm.len <= Pref
      BY <1>5, <3>1
    <3>4. Packed(t, size + ogm.len) /\ Packed(Append(t, ogm), size + ogm.len)
      BY <1>5, <1>9, <2>2, <3>3, PackedMore
    <3> QED
      BY <1>5, <1>8, <2>1, <2>2, <3>2, <3>4
  <2> QED
    BY <2>3, <2>4
<1>11. pass'.size <= MaxUdpd
  <2>1. CASE Dropped(n)
    BY <1>2, <1>9, <2>1
  <2>2. CASE ~Dropped(n)
    BY <1>2, <1>9, <2>2, SizeLeft
  <2> QED
    BY <2>1, <2>2
<1>12. \A i \in Loopback \cap Ifs : dev'[i].buffer = <<>>
  BY <1>10
<1>13. ~pass'.sent
  BY <1>2, <1>3
<1> HIDE DEF n, size, len, ogm
<1> QED
  BY <1>4, <1>10, <1>11, <1>12, <1>13 DEF PackInv, Idle

(* Where no pass is under way or its packets are sent, and buffers are left *)
(* alone or emptied.                                                        *)
LEMMA PacksKept ==
  ASSUME PackInv, Idle \/ pass.sent, pass' = pass, due' = due,
         \A i \in Ifs : dev'[i].buffer = dev[i].buffer \/ dev'[i].buffer = <<>>
  PROVE  PackInv'
<1>1. \A i \in Ifs : dev[i].buffer = <<>>
  BY DEF PackInv
<1>2. \A i \in Ifs : dev'[i].buffer = <<>>
  BY <1>1
<1>3. Idle' <=> Idle
  BY DEF Idle
<1>4. \A i \in Ifs : dev'[i].buffer = dev[i].buffer
  BY <1>1, <1>2
<1> QED
  BY <1>2, <1>3, <1>4 DEF PackInv

(* aggregate_outstanding_ogms() begins with what fits any size.             *)
LEMMA BeginPacks == OgmInv /\ PackInv /\ Begin => PackInv'
<1> SUFFICES ASSUME PackInv, Begin PROVE PackInv'
  OBVIOUS
<1>1. \A i \in Ifs : dev'[i].buffer = <<>>
  BY DEF Begin, PackInv
<1>2. pass'.size = Hdr /\ ~pass'.sent
  BY DEF Begin
<1>3. Hdr \in Nat /\ Hdr >= Hdr /\ Hdr <= MaxUdpd
  BY SizeAssumption
<1>4. ~Idle'
  <2>1. pass' \in [pos : Nat, size : Nat, sent : BOOLEAN]
    BY <1>3 DEF Begin
  <2> QED
    BY <2>1, NullAssumption DEF Idle
<1>5. Packed(<<>>, Hdr)
  BY <1>3, PackedEmpty
<1> QED
  BY <1>1, <1>2, <1>3, <1>4, <1>5 DEF PackInv

(* send_aggregated_ogms() at its end leaves no buffer filled.               *)
LEMMA SendRestPacks == OgmInv /\ PackInv /\ SendRest => PackInv'
<1> SUFFICES ASSUME OgmInv, PackInv, SendRest PROVE PackInv'
  OBVIOUS
<1>1. ~Idle /\ ~pass.sent /\ due' = due /\ pass.pos > due
  BY DEF SendRest
<1>2. pass \in [pos : 1..(due + 1), size : Nat, sent : BOOLEAN] /\ pass.size >= Hdr
  BY <1>1 DEF OgmInv, TypeOK, Idle
<1>3. pass' = [pass EXCEPT !.sent = TRUE]
  BY DEF SendRest
<1>4. pass'.size = pass.size /\ pass'.pos = pass.pos /\ pass'.sent
  BY <1>2, <1>3
<1>5. dev \in [Ifs -> Dev] /\ Hdr \in Nat
  BY SizeAssumption DEF OgmInv, TypeOK
<1>6. ASSUME NEW i \in Ifs PROVE dev'[i].buffer = <<>>
  <2>1. i \in Loopback => dev[i].buffer = <<>>
    BY DEF PackInv
  <2>2. CASE pass.size > Hdr
    <3>1. dev' = Flushed(dev)
      BY <2>2 DEF SendRest
    <3>2. /\ i \in Loopback => dev'[i].buffer = dev[i].buffer
          /\ i \notin Loopback => dev'[i].buffer = <<>>
      BY <1>5, <3>1, FlushedDev
    <3> QED
      BY <2>1, <3>2
  <2>3. CASE ~(pass.size > Hdr)
    <3>1. dev' = dev /\ pass.size = Hdr
      BY <1>2, <1>5, <2>3 DEF SendRest
    <3>2. Packed(dev[i].buffer, pass.size)
      BY <1>1 DEF PackInv
    <3> QED
      BY <3>1, <3>2 DEF Packed
  <2> QED
    BY <2>2, <2>3
<1>7. pass.size \in Nat /\ pass.size <= MaxUdpd /\ Packed(<<>>, pass.size)
  BY <1>1, <1>2, PackedEmpty DEF PackInv
<1> QED
  BY <1>1, <1>4, <1>6, <1>7 DEF PackInv

(* The function returns.                                                    *)
LEMMA EndPacks == PackInv /\ End => PackInv'
<1> SUFFICES ASSUME PackInv, End PROVE PackInv'
  OBVIOUS
<1>1. Idle' /\ dev' = dev /\ pass.sent
  BY DEF End, Idle
<1> QED
  BY <1>1 DEF PackInv

(* What the steps of the other handlers do to the buffers.                  *)
LEMMA OtherBuffers ==
  ASSUME OgmInv, NEW i \in Ifs, AddIf(i) \/ RemoveIf(i) \/ EchoOwn(i), NEW j \in Ifs
  PROVE  dev'[j].buffer = dev[j].buffer \/ dev'[j].buffer = <<>>
<1> DEFINE b == dev[i]
<1>1. dev \in [Ifs -> Dev] /\ b \in Dev
  BY DEF OgmInv, TypeOK
<1>2. DOMAIN b = {"exists", "active", "scheduling", "sendOwn", "seqno", "buffer"}
  BY <1>1 DEF Dev
<1>3. PICK v : dev' = [dev EXCEPT ![i] = v] /\ (v.buffer = b.buffer \/ v.buffer = <<>>)
  <2>1. CASE AddIf(i)
    <3> DEFINE s == dev[PrimaryIf].seqno
               v == [b EXCEPT !.exists = TRUE, !.seqno = s]
    <3>1. dev' = [dev EXCEPT ![i] = v]
      BY <2>1 DEF AddIf
    <3> HIDE DEF b, s
    <3>2. v.buffer = b.buffer
      BY <1>2
    <3> HIDE DEF v
    <3> QED
      BY <3>1, <3>2
  <2>2. CASE EchoOwn(i)
    <3>1. PICK s : dev' = [dev EXCEPT ![i].seqno = EchoSeqno(i, s)]
      BY <2>2 DEF EchoOwn
    <3> DEFINE x == EchoSeqno(i, s)
               v == [b EXCEPT !.seqno = x]
    <3>2. dev' = [dev EXCEPT ![i] = v]
      BY <3>1
    <3> HIDE DEF b, x
    <3>3. v.buffer = b.buffer
      BY <1>2
    <3> HIDE DEF v
    <3> QED
      BY <3>2, <3>3
  <2>3. CASE RemoveIf(i)
    <3> DEFINE v == [exists |-> FALSE, active |-> FALSE, scheduling |-> FALSE,
                     sendOwn |-> FALSE, seqno |-> 0, buffer |-> <<>>]
    <3>1. dev' = [dev EXCEPT ![i] = v] /\ v.buffer = <<>>
      BY <2>3 DEF RemoveIf
    <3> HIDE DEF v
    <3> QED
      BY <3>1
  <2> QED
    BY <2>1, <2>2, <2>3
<1>4. CASE j = i
  BY <1>1, <1>3, <1>4
<1>5. CASE j # i
  BY <1>1, <1>3, <1>5
<1> QED
  BY <1>4, <1>5

(* Every step of the queue.                                                 *)
LEMMA PackStep ==
  ASSUME LoopbackSilent, OgmInv, PackInv, [Next]_vars
  PROVE  PackInv'
<1>1. ASSUME NEW i \in Ifs, NextOwn(i) PROVE PackInv'
  <2>1. \A j \in Ifs : dev'[j].buffer = dev[j].buffer
    BY <1>1, FlagsOnly
  <2>2. pass.sent /\ pass' = pass /\ due' = due
    BY <1>1 DEF NextOwn
  <2> QED
    BY <2>1, <2>2, PacksKept
<1>2. CASE Aggregate
  BY <1>1, <1>2, BeginPacks, SendPacks, SendRestPacks, EndPacks DEF Aggregate
<1>3. ASSUME NEW i \in Ifs, Deactivate(i) \/ Activate(i) \/ AddIf(i) \/ EchoOwn(i) \/ RemoveIf(i),
             pass' = pass, Idle
      PROVE  PackInv'
  <2>1. \A j \in Ifs : dev'[j].buffer = dev[j].buffer \/ dev'[j].buffer = <<>>
    BY <1>3, FlagsOnly, OtherBuffers
  <2>2. \A j \in Ifs : dev'[j].buffer = <<>>
    BY <1>3, <2>1 DEF PackInv
  <2>3. Idle'
    BY <1>3 DEF Idle
  <2> QED
    BY <2>2, <2>3 DEF PackInv
<1>4. ASSUME NEW i \in Ifs, Tick(i) \/ \E r \in Rcvd : ScheduleRcvd(i, r)
      PROVE  PackInv'
  <2>1. Idle' /\ Idle /\ dev' = dev
    BY <1>4 DEF Tick, ScheduleRcvd, Idle
  <2> QED
    BY <2>1 DEF PackInv
<1>5. CASE UNCHANGED vars
  <2>1. pass' = pass /\ dev' = dev /\ due' = due
    BY <1>5 DEF vars
  <2> QED
    BY <2>1 DEF PackInv, Idle
<1>6. ASSUME NEW i \in Ifs, Deactivate(i) \/ Activate(i) \/ AddIf(i) \/ EchoOwn(i) \/ RemoveIf(i)
      PROVE  pass' = pass /\ Idle
  BY <1>6 DEF Deactivate, Activate, AddIf, EchoOwn, RemoveIf
<1> QED
  BY <1>2, <1>3, <1>4, <1>5, <1>6 DEF Next

(* aggregate_outstanding_ogms() adds up one size for all interfaces: it     *)
(* bounds every buffer, only a single OGM of a neighbour exceeds the        *)
(* preferred size, and no buffer is left filled - provided that nothing is  *)
(* added to the buffer of a loopback, which is never sent.                  *)
THEOREM PacketsFit == LoopbackSilent => (Spec => []PacketsSound)
<1> SUFFICES ASSUME LoopbackSilent PROVE Spec => []PacketsSound
  OBVIOUS
<1> DEFINE Inv == OgmInv /\ PackInv
<1>1. Init => Inv
  <2> SUFFICES ASSUME Init PROVE PackInv
    BY InitInv
  <2>1. Idle /\ \A i \in Ifs : dev[i].buffer = <<>>
    BY DEF Init, Idle
  <2> QED
    BY <2>1 DEF PackInv
<1>2. Inv /\ [Next]_vars => Inv'
  BY OgmStep, PackStep
<1>3. Inv => PacketsSound
  <2> SUFFICES ASSUME Inv PROVE PacketsSound
    OBVIOUS
  <2>1. Hdr \in Nat /\ Pref \in Nat /\ MaxUdpd \in Nat /\ Hdr < Pref /\ Pref <= MaxUdpd
    BY SizeAssumption
  <2>2. BuffersEmptied
    BY DEF PackInv, BuffersEmptied
  <2>3. ASSUME NEW i \in Ifs
        PROVE  /\ Bytes(dev[i].buffer) <= MaxUdpd
               /\ Bytes(dev[i].buffer) > Pref => Len(dev[i].buffer) = 1 /\ ~dev[i].buffer[1].own
    <3> DEFINE t == dev[i].buffer
               bytes == Bytes(t)
    <3>1. CASE t = <<>>
      <4>1. bytes = Hdr
        BY <3>1, BytesEmpty
      <4> HIDE DEF bytes
      <4>2. bytes <= MaxUdpd /\ ~(bytes > Pref)
        BY <2>1, <4>1
      <4> QED
        BY <4>2 DEF bytes
    <3>2. CASE t # <<>>
      <4>1. ~Idle /\ pass.size <= MaxUdpd /\ Packed(t, pass.size)
        BY <3>2 DEF PackInv
      <4>2. bytes <= pass.size /\ (pass.size > Pref => Len(t) = 1 /\ ~t[1].own)
        BY <3>2, <4>1 DEF Packed
      <4>3. pass.size \in Nat
        BY <4>1 DEF OgmInv, TypeOK, Idle
      <4>4. t \in Seq(Ogm)
        BY DEF OgmInv, TypeOK, Dev, Ogm
      <4>5. bytes \in Nat
        <5> HIDE DEF t
        <5>1. PICK f \in [0..Len(t) -> Nat] : Bytes(t) = f[Len(t)]
          BY <4>4, BytesWalk
        <5>2. Len(t) \in 0..Len(t)
          BY <4>4
        <5> QED
          BY <5>1, <5>2
      <4> HIDE DEF t, bytes
      <4>6. bytes <= MaxUdpd /\ (bytes > Pref => Len(t) = 1 /\ ~t[1].own)
        BY <2>1, <4>1, <4>2, <4>3, <4>5
      <4> QED
        BY <4>6 DEF t, bytes
    <3> QED
      BY <3>1, <3>2
  <2> QED
    BY <2>2, <2>3 DEF PacketsSound, BufferFits, PreferredSize
<1> QED
  BY <1>1, <1>2, <1>3, PTL DEF Spec
=============================================================================
