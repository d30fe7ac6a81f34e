----------------------------- MODULE WalkLemmas -----------------------------
(* The code walks over lists and counts rounds; the model's functions do so   *)
(* number by number.  Which functions these are, and what holds after each    *)
(* step, for walks of any length: each fact is one about a set of numbers     *)
(* and follows from the least number that would not belong to it.             *)
EXTENDS Integers, SequencesExt, SequenceTheorems, FiniteSetTheorems,
        WellFoundedInduction, TLAPS

(* A non-empty set of naturals has a least element.                         *)
LEMMA LeastExists ==
  ASSUME NEW S \in SUBSET Nat, S # {}
  PROVE  \E n \in S : \A m \in S : n <= m
<1>1. \E n \in S : \A m \in S : ~ (<<m, n>> \in OpToRel(<, Nat))
  BY NatLessThanWellFounded, WFMin
<1>2. \A m, n \in Nat : <<m, n>> \in OpToRel(<, Nat) <=> m < n
  BY DEF OpToRel
<1>3. \E n \in S : \A m \in S : ~ (m < n)
  BY <1>1, <1>2, Zenon
<1> QED
  BY <1>3

(* What holds of 0 and passes from each number to the next holds of all up  *)
(* to n; the property is given by the set of its numbers.                   *)
LEMMA UpTo ==
  ASSUME NEW n \in Nat, NEW S,
         0 \in S, \A k \in 1..n : k - 1 \in S => k \in S
  PROVE  \A k \in 0..n : k \in S
<1> DEFINE Bad == {k \in 0..n : k \notin S}
<1>1. CASE Bad = {}
  BY <1>1
<1>2. CASE Bad # {}
  <2>1. PICK k \in Bad : \A m \in Bad : k <= m
    <3>1. Bad \in SUBSET Nat
      OBVIOUS
    <3> HIDE DEF Bad
    <3> QED
      BY <1>2, <3>1, LeastExists
  <2>2. k \in 1..n
    BY <2>1
  <2>3. k - 1 \in 0..n /\ ~(k <= k - 1)
    BY <2>2
  <2>4. k - 1 \in S
    BY <2>1, <2>3
  <2> QED
    BY <2>1, <2>2, <2>4
<1> QED
  BY <1>1, <1>2

(* A walk: f is defined by its first value and a step.                      *)
Walks(f, T, base, n, step) ==
  f \in [0..n -> T] /\ f[0] = base /\ \A k \in 1..n : f[k] = step[<<f[k - 1], k>>]

(* Such a function exists.                                                  *)
LEMMA WalkExists ==
  ASSUME NEW T, NEW base \in T, NEW n \in Nat, NEW step \in [T \X (1..n) -> T]
  PROVE  \E f : Walks(f, T, base, n, step)
<1> DEFINE Good(f, m) == f[0] = base /\ \A k \in 1..m : f[k] = step[<<f[k - 1], k>>]
           S == {m \in 0..n : \E f \in [0..m -> T] : Good(f, m)}
<1>1. 0 \in S
  <2> DEFINE f == [k \in 0..0 |-> base]
  <2>1. f \in [0..0 -> T] /\ Good(f, 0)
    OBVIOUS
  <2> HIDE DEF f
  <2> QED
    BY <2>1
<1>2. ASSUME NEW m \in 1..n, m - 1 \in S
      PROVE  m \in S
  <2>1. PICK f \in [0..(m - 1) -> T] : Good(f, m - 1)
    BY <1>2
  <2> DEFINE g == [k \in 0..m |-> IF k = m THEN step[<<f[m - 1], m>>] ELSE f[k]]
  <2>2. m - 1 \in 0..(m - 1) /\ f[m - 1] \in T
    OBVIOUS
  <2>3. step[<<f[m - 1], m>>] \in T
    BY <2>2
  <2>4. g \in [0..m -> T]
    <3>1. ASSUME NEW k \in 0..m, k # m PROVE f[k] \in T
      <4>1. k \in 0..(m - 1)
        BY <3>1
      <4> QED
        BY <4>1
    <3> QED
      BY <2>3, <3>1
  <2>5. g[0] = base
    BY <2>1
  <2>6. ASSUME NEW k \in 1..m PROVE g[k] = step[<<g[k - 1], k>>]
    <3>1. k - 1 \in 0..m /\ k - 1 # m /\ g[k - 1] = f[k - 1]
      OBVIOUS
    <3>2. CASE k = m
      BY <3>1, <3>2
    <3>3. CASE k # m
      <4>1. k \in 1..(m - 1) /\ g[k] = f[k]
        BY <3>3
      <4> QED
        BY <2>1, <3>1, <4>1
    <3> QED
      BY <3>2, <3>3
  <2>7. Good(g, m)
    BY <2>5, <2>6
  <2> HIDE DEF g, Good
  <2> QED
    BY <2>4, <2>7
<1>3. \A k \in 0..n : k \in S
  <2> HIDE DEF S
  <2> QED
    BY <1>1, <1>2, UpTo
<1>4. n \in S
  <2> HIDE DEF S
  <2> QED
    BY <1>3
<1>5. PICK f \in [0..n -> T] : Good(f, n)
  BY <1>4, Zenon
<1>6. Walks(f, T, base, n, step)
  BY <1>5 DEF Walks
<1> QED
  BY <1>6

(* The values may be of another set at each step.                           *)
WalksThrough(f, U, T, base, n, step) ==
  /\ f \in [0..n -> U] /\ f[0] = base
  /\ \A k \in 0..n : f[k] \in T[k]
  /\ \A k \in 1..n : f[k] = step[<<f[k - 1], k>>]

LEMMA WalkThrough ==
  ASSUME NEW n \in Nat, NEW U, NEW T \in [0..n -> SUBSET U], NEW base \in T[0], NEW step,
         \A k \in 1..n : \A x \in T[k - 1] : step[<<x, k>>] \in T[k]
  PROVE  \E f : WalksThrough(f, U, T, base, n, step)
<1> DEFINE next(x, k) == IF x \in T[k - 1] THEN step[<<x, k>>] ELSE base
           go == [y \in U \X (1..n) |-> next(y[1], y[2])]
<1>1. 0 \in 0..n /\ base \in U /\ \A k \in 1..n : k \in 0..n /\ k - 1 \in 0..n
  OBVIOUS
<1>2. \A x \in U : \A k \in 1..n : next(x, k) \in U
  BY <1>1
<1>3. go \in [U \X (1..n) -> U] /\ \A x \in U : \A k \in 1..n : go[<<x, k>>] = next(x, k)
  <2> HIDE DEF next
  <2> QED
    BY <1>2
<1> HIDE DEF go
<1>4. PICK f : Walks(f, U, base, n, go)
  BY <1>1, <1>3, WalkExists
<1>5. f \in [0..n -> U] /\ f[0] = base /\ \A k \in 1..n : f[k] = next(f[k - 1], k)
  <2> HIDE DEF next
  <2>1. f \in [0..n -> U] /\ f[0] = base /\ \A k \in 1..n : f[k] = go[<<f[k - 1], k>>]
    BY <1>4 DEF Walks
  <2> QED
    BY <1>1, <1>3, <2>1
<1> DEFINE S == {k \in 0..n : f[k] \in T[k]}
<1>6. 0 \in S
  BY <1>1, <1>5
<1>7. \A k \in 1..n : k - 1 \in S => k \in S
  BY <1>1, <1>5
<1>8. \A k \in 0..n : f[k] \in T[k]
  <2>1. \A k \in 0..n : k \in S
    <3> HIDE DEF S
    <3> QED
      BY <1>6, <1>7, UpTo
  <2> QED
    BY <2>1
<1> QED
  BY <1>1, <1>5, <1>8 DEF WalksThrough

(* Two such functions agree as far as both go.                              *)
LEMMA WalkUnique ==
  ASSUME NEW n \in Nat, NEW f, NEW g, f[0] = g[0],
         \A k \in 1..n : f[k - 1] = g[k - 1] => f[k] = g[k]
  PROVE  f[n] = g[n]
<1> DEFINE S == {k \in 0..n : f[k] = g[k]}
<1>1. 0 \in S
  OBVIOUS
<1>2. \A k \in 1..n : k - 1 \in S => k \in S
  OBVIOUS
<1>3. \A k \in 0..n : k \in S
  <2> HIDE DEF S
  <2> QED
    BY <1>1, <1>2, UpTo
<1> QED
  BY <1>3

-----------------------------------------------------------------------------
(* Elements inserted into sequences and removed from them.                  *)

(* v is s with e in front of its k-th element.                              *)
IsInserted(v, s, k, e) ==
  /\ Len(v) = Len(s) + 1
  /\ \A i \in 1..(Len(s) + 1) : v[i] = IF i < k THEN s[i] ELSE IF i = k THEN e ELSE s[i - 1]

(* This is what InsertAt() makes.                                           *)
LEMMA InsertAtElements ==
  ASSUME NEW S, NEW s \in Seq(S), NEW e \in S, NEW k \in 1..(Len(s) + 1)
  PROVE  InsertAt(s, k, e) \in Seq(S) /\ IsInserted(InsertAt(s, k, e), s, k, e)
<1>1. Len(s) \in Nat /\ DOMAIN s = 1..Len(s) /\ k \in Int /\ 1 <= k /\ k <= Len(s) + 1
  OBVIOUS
<1> DEFINE a == SubSeq(s, 1, k - 1)
           m == <<e>>
           b == SubSeq(s, k, Len(s))
<1>2. a \in Seq(S) /\ Len(a) = k - 1 /\ \A i \in 1..(k - 1) : a[i] = s[i]
  BY <1>1, SubSeqProperties
<1>3. b \in Seq(S) /\ Len(b) = Len(s) - k + 1
      /\ \A i \in 1..(Len(s) - k + 1) : b[i] = s[k + i - 1]
  BY <1>1, SubSeqProperties
<1>4. m \in Seq(S) /\ Len(m) = 1 /\ m[1] = e
  OBVIOUS
<1>5. InsertAt(s, k, e) = a \o m \o b
  BY DEF InsertAt
<1> HIDE DEF a, m, b
<1> DEFINE v == a \o m
           w == v \o b
<1>6. /\ v \in Seq(S) /\ Len(v) = k
      /\ \A i \in 1..k : v[i] = IF i <= k - 1 THEN a[i] ELSE m[i - (k - 1)]
  <2>1. /\ v \in Seq(S) /\ Len(v) = Len(a) + Len(m)
        /\ \A i \in 1..(Len(a) + Len(m)) : v[i] = IF i <= Len(a) THEN a[i] ELSE m[i - Len(a)]
    BY <1>2, <1>4, ConcatProperties
  <2>2. Len(a) + Len(m) = k
    BY <1>1, <1>2, <1>4
  <2> QED
    BY <1>2, <2>1, <2>2
<1>7. InsertAt(s, k, e) = w
  BY <1>5
<1> HIDE DEF v
<1>8. /\ w \in Seq(S) /\ Len(w) = Len(s) + 1
      /\ \A i \in 1..(Len(s) + 1) : w[i] = IF i <= k THEN v[i] ELSE b[i - k]
  <2>1. /\ w \in Seq(S) /\ Len(w) = Len(v) + Len(b)
        /\ \A i \in 1..(Len(v) + Len(b)) : w[i] = IF i <= Len(v) THEN v[i] ELSE b[i - Len(v)]
    BY <1>3, <1>6, ConcatProperties
  <2>2. Len(v) + Len(b) = Len(s) + 1
    BY <1>1, <1>3, <1>6
  <2> QED
    BY <1>6, <2>1, <2>2
<1> HIDE DEF w
<1>9. ASSUME NEW i \in 1..(Len(s) + 1)
      PROVE  w[i] = IF i < k THEN s[i] ELSE IF i = k THEN e ELSE s[i - 1]
  <2>1. CASE i < k
    BY <1>1, <1>2, <1>6, <1>8, <2>1
  <2>2. CASE i = k
    BY <1>1, <1>4, <1>6, <1>8, <2>2
  <2>3. CASE i > k
    <3> DEFINE j == i - k
    <3>1. j \in 1..(Len(s) - k + 1) /\ k + j - 1 = i - 1
      BY <1>1, <2>3
    <3>2. w[i] = b[j]
      BY <1>1, <1>8, <2>3
    <3>3. b[j] = s[k + j - 1]
      BY <1>3, <3>1
    <3> HIDE DEF j
    <3> QED
      BY <1>1, <2>3, <3>1, <3>2, <3>3
  <2> QED
    BY <1>1, <2>1, <2>2, <2>3
<1>10. w \in Seq(S) /\ IsInserted(w, s, k, e)
  BY <1>8, <1>9 DEF IsInserted
<1> QED
  BY <1>7, <1>10

(* A sequence without its k-th element.                                     *)
LEMMA RemoveAtElements ==
  ASSUME NEW S, NEW s \in Seq(S), NEW k \in DOMAIN s
  PROVE  /\ RemoveAt(s, k) \in Seq(S) /\ Len(RemoveAt(s, k)) = Len(s) - 1
         /\ \A i \in 1..(Len(s) - 1) : RemoveAt(s, k)[i] = IF i < k THEN s[i] ELSE s[i + 1]
<1>1. k \in 1..Len(s) /\ Len(s) \in Nat /\ DOMAIN s = 1..Len(s)
  OBVIOUS
<1> DEFINE a == SubSeq(s, 1, k-1)
           b == SubSeq(s, k+1, Len(s))
<1>2. a \in Seq(S) /\ Len(a) = k-1 /\ \A i \in 1..(k-1) : a[i] = s[i]
  BY <1>1, SubSeqProperties
<1>3. b \in Seq(S) /\ Len(b) = Len(s)-k /\ \A i \in 1..(Len(s)-k) : b[i] = s[k+i]
  BY <1>1, SubSeqProperties
<1>4. RemoveAt(s, k) = a \o b
  BY DEF RemoveAt
<1> HIDE DEF a, b
<1> DEFINE w == a \o b
<1>5. /\ w \in Seq(S) /\ Len(w) = Len(a) + Len(b)
      /\ \A i \in 1 .. Len(a) + Len(b) : w[i] = IF i <= Len(a) THEN a[i] ELSE b[i - Len(a)]
  BY <1>2, <1>3, ConcatProperties
<1>6. RemoveAt(s, k) = w
  BY <1>4
<1> HIDE DEF w
<1>7. w \in Seq(S) /\ Len(w) = Len(s) - 1
  BY <1>1, <1>2, <1>3, <1>5
<1>8. ASSUME NEW i \in 1..(Len(s) - 1)
      PROVE  w[i] = IF i < k THEN s[i] ELSE s[i + 1]
  <2>1. i \in Int /\ 1 <= i /\ i <= Len(s) - 1 /\ i \in 1 .. Len(a) + Len(b)
    BY <1>1, <1>2, <1>3, <1>7
  <2>2. w[i] = IF i <= k - 1 THEN a[i] ELSE b[i - (k - 1)]
    BY <1>2, <1>5, <2>1
  <2>3. CASE i < k
    BY <1>1, <1>2, <2>1, <2>2, <2>3
  <2>4. CASE ~(i < k)
    <3> DEFINE j == i - (k - 1)
    <3>1. j \in 1..(Len(s) - k) /\ k + j = i + 1
      BY <1>1, <2>1, <2>4
    <3>2. w[i] = b[j]
      BY <1>1, <2>1, <2>2, <2>4
    <3>3. b[j] = s[k + j]
      BY <1>3, <3>1
    <3> HIDE DEF j
    <3> QED
      BY <2>4, <3>1, <3>2, <3>3
  <2> QED
    BY <2>3, <2>4
<1> QED
  BY <1>6, <1>7, <1>8

-----------------------------------------------------------------------------
(* The least of some naturals, and the greatest of finitely many numbers.   *)
LEMMA MinIs ==
  ASSUME NEW S \in SUBSET Nat, S # {}
  PROVE  Min(S) \in S /\ \A n \in S : Min(S) <= n
<1>1. \E n \in S : \A m \in S : n <= m
  BY LeastExists
<1> QED
  BY <1>1, Zenon DEF Min

LEMMA MaxOfFinite ==
  ASSUME NEW S \in SUBSET Int, IsFiniteSet(S), S # {}
  PROVE  Max(S) \in S /\ \A y \in S : y <= Max(S)
<1> DEFINE Over(y) == {x \in S : x > y}
           D == {Cardinality(Over(y)) : y \in S}
<1>1. \A y \in S : IsFiniteSet(Over(y)) /\ Cardinality(Over(y)) \in Nat
  BY FS_Subset, FS_CardinalityType
<1>2. D \in SUBSET Nat /\ D # {}
  BY <1>1
<1>3. PICK y \in S : \A z \in S : Cardinality(Over(y)) <= Cardinality(Over(z))
  <2>1. \E d \in D : \A e \in D : d <= e
    <3> HIDE DEF D
    <3> QED
      BY <1>2, LeastExists
  <2> QED
    BY <2>1
<1>4. \A z \in S : z <= y
  <2> SUFFICES ASSUME NEW z \in S, z > y PROVE FALSE
    OBVIOUS
  <2>1. Over(z) \subseteq Over(y) /\ z \in Over(y) /\ z \notin Over(z)
    <3>1. z \in Over(y) /\ z \notin Over(z)
      OBVIOUS
    <3>2. ASSUME NEW x \in Over(z) PROVE x \in Over(y)
      <4>1. x \in Int /\ y \in Int /\ z \in Int /\ x > z /\ x \in S
        OBVIOUS
      <4> QED
        BY <4>1
    <3> QED
      BY <3>1, <3>2
  <2> HIDE DEF Over
  <2>2. Cardinality(Over(z)) < Cardinality(Over(y))
    BY <1>1, <2>1, FS_Subset
  <2> QED
    BY <1>1, <1>3, <2>2
<1>5. Max(S) \in S /\ \A x \in S : Max(S) >= x
  BY <1>4 DEF Max
<1> QED
  BY <1>5

(* So many are the first n.                                                 *)
LEMMA FirstCount ==
  ASSUME NEW n \in Nat
  PROVE  IsFiniteSet(1..n) /\ Cardinality(1..n) = n
<1>1. 1 \in Int /\ n \in Int
  OBVIOUS
<1>2. IsFiniteSet(1..n) /\ Cardinality(1..n) = IF 1 > n THEN 0 ELSE n - 1 + 1
  BY <1>1, FS_Interval
<1> QED
  BY <1>2

(* A set as a sequence is the whole set.                                    *)
LEMMA SetToSeqIs ==
  ASSUME NEW S, IsFiniteSet(S)
  PROVE  /\ SetToSeq(S) \in Seq(S)
         /\ \A x \in S : \E i \in DOMAIN SetToSeq(S) : SetToSeq(S)[i] = x
<1> DEFINE n == Cardinality(S)
           good(f) == f \in [1..n -> S] /\ IsInjective(f)
           s == SetToSeq(S)
<1>1. n \in Nat
  BY FS_CardinalityType
<1>2. \E f : good(f)
  <2>1. ExistsBijection(1..n, S)
    BY FS_CardinalityType
  <2>2. PICK f : f \in Bijection(1..n, S)
    BY <2>1 DEF ExistsBijection
  <2> QED
    BY <2>2 DEF Bijection, Injection
<1>3. good(s)
  <2>1. s = CHOOSE f \in [1..n -> S] : IsInjective(f)
    BY DEF SetToSeq
  <2> QED
    BY <1>2, <2>1
<1> HIDE DEF s, n
<1>4. s \in Seq(S) /\ DOMAIN s = 1..n
  BY <1>1, <1>3
<1>5. s \in Surjection(1..n, S)
  <2>1. s \in Injection(1..n, S)
    BY <1>3 DEF Injection
  <2>2. IsFiniteSet(1..n) /\ Cardinality(1..n) = Cardinality(S)
    BY <1>1, FS_Interval DEF n
  <2> QED
    BY <2>1, <2>2, FS_Injection
<1> QED
  BY <1>4, <1>5 DEF Surjection, s
=============================================================================
