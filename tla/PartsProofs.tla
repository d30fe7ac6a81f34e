---------------------------- MODULE PartsProofs ----------------------------
(* The main loop of bmxd, for any number of clients, descriptors and passes,  *)
(* its interfaces, for any number of them and any changes of the kernel, and  *)
(* its lists, for any number of entries.                                      *)
EXTENDS EventLoop, Interfaces, LinkedList, WalkLemmas, FiniteSetTheorems, TLAPS

-----------------------------------------------------------------------------
(* Lists some of whose entries are deleted.                                  *)

(* What list_for_each_safe() has left of a list after each entry.            *)
Leaves(f, S, s, gone) ==
  /\ f \in [0..Len(s) -> Seq(S)] /\ f[0] = <<>>
  /\ \A k \in 1..Len(s) :
       f[k] = IF k \in gone THEN f[k - 1] ELSE Append(f[k - 1], s[k])
  /\ Left(s, gone) = f[Len(s)]

(* It walks the whole list.                                                  *)
LEMMA LeftWalk ==
  ASSUME NEW S, NEW s \in Seq(S), NEW gone
  PROVE  \E f : Leaves(f, S, s, gone)
<1> DEFINE n == Len(s)
           After(w, k) == IF k \in gone THEN w ELSE Append(w, s[k])
           Val(f, k) == IF k = 0 THEN <<>>
                        ELSE IF k \in gone THEN f[k - 1] ELSE Append(f[k - 1], s[k])
           Whole(f) == [k \in 0..n |-> Val(f, k)]
           step == [x \in Seq(S) \X (1..n) |-> After(x[1], x[2])]
<1>1. n \in Nat /\ <<>> \in Seq(S) /\ \A k \in 1..n : s[k] \in S
  OBVIOUS
<1>2. \A w \in Seq(S), k \in 1..n : After(w, k) \in Seq(S)
  BY <1>1
<1>3. step \in [Seq(S) \X (1..n) -> Seq(S)]
  <2> HIDE DEF After, n
  <2> QED
    BY <1>2
<1>4. \A w \in Seq(S), k \in 1..n : step[<<w, k>>] = After(w, k)
  <2> HIDE DEF After
  <2> QED
    OBVIOUS
<1>5. PICK f : Walks(f, Seq(S), <<>>, n, step)
  <2> HIDE DEF step, n, Whole, After
  <2> QED
    BY <1>1, <1>3, WalkExists
<1>6. f \in [0..n -> Seq(S)] /\ f[0] = <<>> /\ \A k \in 1..n : f[k] = After(f[k - 1], k)
  <2>1. f \in [0..n -> Seq(S)] /\ f[0] = <<>> /\ \A k \in 1..n : f[k] = step[<<f[k - 1], k>>]
    BY <1>5 DEF Walks
  <2>2. \A k \in 1..n : f[k - 1] \in Seq(S)
    BY <1>1, <2>1
  <2> HIDE DEF step, After, n
  <2> QED
    BY <1>4, <2>1, <2>2
<1>7. f = Whole(f)
  <2>1. \A k \in 0..n : k # 0 => k \in 1..n
    BY <1>1
  <2>2. \A k \in 0..n : f[k] = Val(f, k)
    BY <1>6, <2>1
  <2> HIDE DEF Val, n
  <2> QED
    BY <1>6, <2>2
<1> DEFINE g == CHOOSE h : h = Whole(h)
<1>8. g = Whole(g)
  BY <1>7, Zenon
<1>9. Left(s, gone) = g[n]
  BY DEF Left
<1> HIDE DEF g
<1>10. DOMAIN g = 0..n /\ g[0] = <<>> /\ \A k \in 1..n : g[k] = After(g[k - 1], k)
  <2>1. DOMAIN g = 0..n /\ \A k \in 0..n : g[k] = Val(g, k)
    <3> HIDE DEF Val, n
    <3> QED
      BY <1>8
  <2>2. 0 \in 0..n /\ \A k \in 1..n : k \in 0..n /\ k # 0
    BY <1>1
  <2>3. Val(g, 0) = <<>> /\ \A k \in 1..n : Val(g, k) = After(g[k - 1], k)
    BY <2>2
  <2> HIDE DEF Val, After, n
  <2> QED
    BY <2>1, <2>2, <2>3
<1>11. g[n] = f[n]
  <2>1. g[0] = f[0] /\ \A k \in 1..n : g[k - 1] = f[k - 1] => g[k] = f[k]
    <3> HIDE DEF After, n
    <3> QED
      BY <1>6, <1>10
  <2> HIDE DEF After, n
  <2> QED
    BY <1>1, <2>1, WalkUnique
<1>12. Left(s, gone) = f[n]
  BY <1>9, <1>11
<1>13. Leaves(f, S, s, gone)
  BY <1>6, <1>12 DEF Leaves
<1> QED
  BY <1>13

(* w is what is left of the first k entries, in order; e says where it comes *)
(* from.                                                                     *)
LeftOf(w, s, k, gone, e) ==
  /\ e \in [1..Len(w) -> 1..k]
  /\ \A m \in 1..Len(w) : w[m] = s[e[m]] /\ e[m] \notin gone
  /\ \A m, o \in 1..Len(w) : m < o => e[m] < e[o]
  /\ \A p \in 1..k : p \notin gone => \E m \in 1..Len(w) : e[m] = p
  /\ Len(w) <= k

(* The others stay, in order, and nothing else does.                         *)
LEMMA LeftEntries ==
  ASSUME NEW S, NEW s \in Seq(S), NEW gone
  PROVE  /\ Left(s, gone) \in Seq(S)
         /\ \E e : LeftOf(Left(s, gone), s, Len(s), gone, e)
<1>0. PICK f : Leaves(f, S, s, gone)
  BY LeftWalk
<1>1. /\ f \in [0..Len(s) -> Seq(S)] /\ f[0] = <<>>
      /\ \A k \in 1..Len(s) :
           f[k] = IF k \in gone THEN f[k - 1] ELSE Append(f[k - 1], s[k])
      /\ Left(s, gone) = f[Len(s)]
  BY <1>0 DEF Leaves
<1> DEFINE n == Len(s)
           T == {m \in 0..n : \E e : LeftOf(f[m], s, m, gone, e)}
<1>2. n \in Nat /\ \A m \in 1..n : s[m] \in S
  OBVIOUS
<1>3. 0 \in T
  <2>1. LeftOf(<<>>, s, 0, gone, [m \in 1..0 |-> 0])
    BY DEF LeftOf
  <2> QED
    BY <1>1, <1>2, <2>1
<1>4. ASSUME NEW m \in 1..n, m - 1 \in T
      PROVE  m \in T
  <2> DEFINE w == f[m - 1]
  <2>1. PICK e : LeftOf(w, s, m - 1, gone, e)
    BY <1>4
  <2>2. /\ e \in [1..Len(w) -> 1..(m - 1)]
        /\ \A a \in 1..Len(w) : w[a] = s[e[a]] /\ e[a] \notin gone
        /\ \A a, o \in 1..Len(w) : a < o => e[a] < e[o]
        /\ \A p \in 1..(m - 1) : p \notin gone => \E a \in 1..Len(w) : e[a] = p
        /\ Len(w) <= m - 1
    BY <2>1 DEF LeftOf
  <2>3. w \in Seq(S) /\ f[m] = IF m \in gone THEN w ELSE Append(w, s[m])
    BY <1>1, <1>2
  <2>4. m \in 0..n
    BY <1>2
  <2> HIDE DEF w
  <2>5. CASE m \in gone
    <3>1. e \in [1..Len(w) -> 1..m]
      BY <2>2
    <3>2. \A p \in 1..m : p \notin gone => p \in 1..(m - 1)
      BY <2>5
    <3>3. LeftOf(w, s, m, gone, e)
      BY <2>2, <2>3, <3>1, <3>2 DEF LeftOf
    <3> QED
      BY <2>3, <2>4, <2>5, <3>3
  <2>6. CASE m \notin gone
    <3> DEFINE v == Append(w, s[m])
               l == Len(w)
               d == [a \in 1..(l + 1) |-> IF a = l + 1 THEN m ELSE e[a]]
    <3>1. v \in Seq(S) /\ Len(v) = l + 1 /\ v[l + 1] = s[m] /\ l \in Nat
          /\ \A a \in 1..l : v[a] = w[a]
      BY <1>2, <2>3
    <3>2. \A a \in 1..l : e[a] \in 1..(m - 1) /\ e[a] < m
      BY <2>2
    <3>3. \A a \in 1..(l + 1) : a # l + 1 => a \in 1..l
      BY <3>1
    <3> HIDE DEF v, l
    <3>4. d \in [1..(l + 1) -> 1..m]
      <4>1. \A a \in 1..l : e[a] \in 1..m
        BY <3>2
      <4> QED
        BY <3>1, <3>3, <4>1
    <3>5. d[l + 1] = m /\ \A a \in 1..l : d[a] = e[a]
      BY <3>1
    <3> HIDE DEF d
    <3>6. \A a \in 1..(l + 1) : v[a] = s[d[a]] /\ d[a] \notin gone
      BY <2>2, <2>6, <3>1, <3>3, <3>5 DEF l
    <3>7. ASSUME NEW a \in 1..(l + 1), NEW o \in 1..(l + 1), a < o
          PROVE  d[a] < d[o]
      <4>1. a \in 1..l
        BY <3>1, <3>7
      <4>2. CASE o = l + 1
        BY <3>2, <3>5, <4>1, <4>2
      <4>3. CASE o # l + 1
        BY <2>2, <3>3, <3>5, <3>7, <4>1, <4>3 DEF l
      <4> QED
        BY <4>2, <4>3
    <3>8. ASSUME NEW p \in 1..m, p \notin gone
          PROVE  \E a \in 1..(l + 1) : d[a] = p
      <4>1. CASE p = m
        BY <3>1, <3>5, <4>1
      <4>2. CASE p # m
        <5>1. p \in 1..(m - 1)
          BY <4>2
        <5>2. PICK a \in 1..l : e[a] = p
          BY <2>2, <3>8, <5>1 DEF l
        <5>3. a \in 1..(l + 1)
          BY <3>1
        <5> QED
          BY <3>5, <5>2, <5>3
      <4> QED
        BY <4>1, <4>2
    <3>9. Len(v) <= m
      BY <2>2, <3>1 DEF l
    <3>10. LeftOf(v, s, m, gone, d)
      BY <3>1, <3>4, <3>6, <3>7, <3>8, <3>9 DEF LeftOf
    <3>11. f[m] = v
      BY <2>3, <2>6 DEF v
    <3> QED
      BY <2>4, <3>10, <3>11
  <2> QED
    BY <2>5, <2>6
<1>5. \A m \in 0..n : m \in T
  <2> HIDE DEF T, n
  <2> QED
    BY <1>2, <1>3, <1>4, UpTo
<1>6. n \in T
  <2> HIDE DEF T
  <2> QED
    BY <1>2, <1>5
<1> QED
  BY <1>1, <1>6

-----------------------------------------------------------------------------
(* The list of tasks.                                                        *)
Periodic == {"check_interfaces", "choose_gw"}
Task == [task : Periodic, due : Int]

InOrder(ts) == \A i, j \in DOMAIN ts : i < j => ts[i].due <= ts[j].due
Sole(ts, task) == \E i \in DOMAIN ts : \A j \in DOMAIN ts : ts[j].task = task <=> j = i
Absent(ts, task) == \A i \in DOMAIN ts : ts[i].task # task

(* In order, and each periodic task once, but those that are missing.        *)
TasksFit(ts, missing) ==
  /\ ts \in Seq(Task) /\ InOrder(ts)
  /\ \A task \in Periodic : IF task \in missing THEN Absent(ts, task) ELSE Sole(ts, task)

(* register_task() adds a missing one.                                       *)
LEMMA RegisterFits ==
  ASSUME NEW ts, NEW missing, TasksFit(ts, missing), NEW task \in Periodic, task \in missing,
         NEW due \in Int
  PROVE  TasksFit(Register(ts, task, due), missing \ {task})
<1> DEFINE later == {i \in DOMAIN ts : ts[i].due > due}
           n == Len(ts)
           k == IF later = {} THEN n + 1 ELSE Min(later)
           e == [task |-> task, due |-> due]
           v == InsertAt(ts, k, e)
<1>1. ts \in Seq(Task) /\ InOrder(ts)
      /\ \A other \in Periodic : IF other \in missing THEN Absent(ts, other) ELSE Sole(ts, other)
  BY DEF TasksFit
<1>2. n \in Nat /\ DOMAIN ts = 1..n /\ \A i \in 1..n : ts[i] \in Task /\ ts[i].due \in Int
  <2>1. n \in Nat /\ DOMAIN ts = 1..n /\ \A i \in 1..n : ts[i] \in Task
    BY <1>1
  <2>2. \A x \in Task : x.due \in Int
    BY DEF Task
  <2> QED
    BY <2>1, <2>2
<1>3. e \in Task /\ e.task = task /\ e.due = due
  BY DEF Task
<1>4. /\ k \in 1..(n + 1)
      /\ \A i \in 1..n : i < k => ts[i].due <= due
      /\ \A i \in 1..n : k <= i => ts[i].due > due
  <2>1. CASE later = {}
    BY <1>2, <2>1
  <2>2. CASE later # {}
    <3>1. later \in SUBSET Nat
      BY <1>2
    <3>2. k \in later /\ \A i \in later : k <= i
      <4> HIDE DEF later
      <4> QED
        BY <2>2, <3>1, MinIs
    <3> HIDE DEF k
    <3>3. k \in 1..n /\ ts[k].due > due
      BY <1>2, <3>2
    <3>4. \A i \in 1..n : i < k => ts[i].due <= due
      BY <1>2, <3>2, <3>3
    <3>5. \A i \in 1..n : k < i => ts[k].due <= ts[i].due
      BY <1>1, <1>2, <3>3 DEF InOrder
    <3>6. \A i \in 1..n : k <= i => ts[i].due > due
      BY <1>2, <3>3, <3>5
    <3> QED
      BY <1>2, <3>3, <3>4, <3>6
  <2> QED
    BY <2>1, <2>2
<1>5. Register(ts, task, due) = v
  BY DEF Register
<1> HIDE DEF k, e, later
<1>6. v \in Seq(Task) /\ IsInserted(v, ts, k, e)
  BY <1>1, <1>3, <1>4, InsertAtElements
<1> HIDE DEF v
<1>7. /\ DOMAIN v = 1..(n + 1)
      /\ \A i \in 1..(n + 1) : v[i] = IF i < k THEN ts[i] ELSE IF i = k THEN e ELSE ts[i - 1]
  BY <1>2, <1>6 DEF IsInserted
<1> HIDE DEF n
<1>8. /\ \A i \in 1..(n + 1) : i < k => i \in 1..n /\ v[i] = ts[i]
      /\ v[k] = e
      /\ \A i \in 1..(n + 1) : i > k => i - 1 \in 1..n /\ v[i] = ts[i - 1] /\ k <= i - 1
  BY <1>2, <1>4, <1>7
<1>9. InOrder(v)
  <2> SUFFICES ASSUME NEW i \in 1..(n + 1), NEW j \in 1..(n + 1), i < j
               PROVE  v[i].due <= v[j].due
    BY <1>7 DEF InOrder
  <2>1. CASE j < k
    <3>1. v[i] = ts[i] /\ v[j] = ts[j] /\ i \in 1..n /\ j \in 1..n
      BY <1>4, <1>8, <2>1
    <3> QED
      BY <1>1, <1>2, <3>1 DEF InOrder
  <2>2. CASE j = k
    <3>1. v[i] = ts[i] /\ v[j].due = due /\ i \in 1..n /\ i < k
      BY <1>3, <1>8, <2>2
    <3> QED
      BY <1>4, <3>1
  <2>3. CASE k < j
    <3>1. v[j] = ts[j - 1] /\ j - 1 \in 1..n /\ ts[j - 1].due > due /\ ts[j - 1].due \in Int
      BY <1>2, <1>4, <1>8, <2>3
    <3>2. CASE i < k
      <4>1. v[i] = ts[i] /\ i \in 1..n /\ ts[i].due <= due /\ ts[i].due \in Int
        BY <1>2, <1>4, <1>8, <3>2
      <4> QED
        BY <3>1, <4>1
    <3>3. CASE i = k
      BY <1>3, <1>8, <3>1, <3>3
    <3>4. CASE k < i
      <4>1. v[i] = ts[i - 1] /\ i - 1 \in 1..n /\ i - 1 < j - 1
        BY <1>8, <3>4
      <4> QED
        BY <1>1, <1>2, <3>1, <4>1 DEF InOrder
    <3> QED
      BY <1>4, <3>2, <3>3, <3>4
  <2> QED
    BY <1>4, <2>1, <2>2, <2>3
<1>10. Absent(ts, task)
  BY <1>1
<1>11. Sole(v, task)
  <2>1. ASSUME NEW j \in 1..(n + 1), j # k PROVE v[j].task # task
    BY <1>2, <1>4, <1>8, <1>10, <2>1 DEF Absent
  <2>2. v[k].task = task /\ k \in DOMAIN v
    BY <1>3, <1>4, <1>7, <1>8
  <2> QED
    BY <1>7, <2>1, <2>2 DEF Sole
<1>12. ASSUME NEW other \in Periodic, other \in missing, other # task
       PROVE  Absent(v, other)
  <2>1. Absent(ts, other)
    BY <1>1, <1>12
  <2>2. ASSUME NEW j \in 1..(n + 1) PROVE v[j].task # other
    BY <1>2, <1>3, <1>4, <1>8, <1>12, <2>1 DEF Absent
  <2> QED
    BY <1>7, <2>2 DEF Absent
<1>13. ASSUME NEW other \in Periodic, other \notin missing
       PROVE  Sole(v, other)
  <2>1. PICK i \in 1..n : \A j \in 1..n : ts[j].task = other <=> j = i
    <3>1. Sole(ts, other)
      BY <1>1, <1>13
    <3> QED
      BY <1>2, <3>1 DEF Sole
  <2>2. other # task
    BY <1>13
  <2> DEFINE p == IF i < k THEN i ELSE i + 1
  <2>3. p \in 1..(n + 1)
    BY <1>2
  <2>4. ASSUME NEW j \in 1..(n + 1)
        PROVE  v[j].task = other <=> j = p
    <3>1. CASE j < k
      BY <1>4, <1>8, <2>1, <3>1
    <3>2. CASE j = k
      BY <1>3, <1>4, <1>8, <2>1, <2>2, <3>2
    <3>3. CASE k < j
      <4>1. v[j] = ts[j - 1] /\ j - 1 \in 1..n /\ k <= j - 1
        BY <1>8, <3>3
      <4> QED
        BY <1>4, <2>1, <3>3, <4>1
    <3> QED
      BY <1>4, <3>1, <3>2, <3>3
  <2> HIDE DEF p
  <2> QED
    BY <1>7, <2>3, <2>4 DEF Sole
<1>14. \A other \in Periodic :
         IF other \in missing \ {task} THEN Absent(v, other) ELSE Sole(v, other)
  BY <1>11, <1>12, <1>13
<1>15. TasksFit(v, missing \ {task})
  BY <1>6, <1>9, <1>14 DEF TasksFit
<1> QED
  BY <1>5, <1>15

(* remove_task() makes one missing.                                          *)
LEMMA RemoveTaskFits ==
  ASSUME NEW ts, NEW missing, TasksFit(ts, missing), NEW task \in Periodic
  PROVE  TasksFit(RemoveTask(ts, task), missing \cup {task})
<1> DEFINE gone == {i \in DOMAIN ts : ts[i].task = task}
           v == Left(ts, gone)
<1>1. ts \in Seq(Task) /\ InOrder(ts)
      /\ \A other \in Periodic : IF other \in missing THEN Absent(ts, other) ELSE Sole(ts, other)
  BY DEF TasksFit
<1>2. Len(ts) \in Nat /\ DOMAIN ts = 1..Len(ts)
  BY <1>1
<1>3. RemoveTask(ts, task) = v
  BY DEF RemoveTask
<1>4. \A i \in DOMAIN ts : i \in gone <=> ts[i].task = task
  OBVIOUS
<1> HIDE DEF gone
<1>5. v \in Seq(Task) /\ \E e : LeftOf(v, ts, Len(ts), gone, e)
  BY <1>1, LeftEntries
<1> HIDE DEF v
<1>6. PICK e : LeftOf(v, ts, Len(ts), gone, e)
  BY <1>5
<1>7. /\ DOMAIN v = 1..Len(v)
      /\ e \in [1..Len(v) -> 1..Len(ts)]
      /\ \A m \in 1..Len(v) : v[m] = ts[e[m]] /\ e[m] \notin gone
      /\ \A m, o \in 1..Len(v) : m < o => e[m] < e[o]
      /\ \A p \in 1..Len(ts) : p \notin gone => \E m \in 1..Len(v) : e[m] = p
  BY <1>5, <1>6 DEF LeftOf
<1>8. InOrder(v)
  <2> SUFFICES ASSUME NEW i \in 1..Len(v), NEW j \in 1..Len(v), i < j
               PROVE  v[i].due <= v[j].due
    BY <1>7 DEF InOrder
  <2>1. e[i] \in DOMAIN ts /\ e[j] \in DOMAIN ts /\ e[i] < e[j]
    BY <1>2, <1>7
  <2>2. ts[e[i]].due <= ts[e[j]].due
    BY <1>1, <2>1 DEF InOrder
  <2> QED
    BY <1>7, <2>2
<1>9. Absent(v, task)
  BY <1>2, <1>4, <1>7 DEF Absent
<1>10. ASSUME NEW other \in Periodic, other \in missing
       PROVE  Absent(v, other)
  BY <1>1, <1>2, <1>7, <1>10 DEF Absent
<1>11. ASSUME NEW other \in Periodic, other \notin missing, other # task
       PROVE  Sole(v, other)
  <2>1. Sole(ts, other)
    BY <1>1, <1>11
  <2>2. PICK i \in 1..Len(ts) : \A j \in 1..Len(ts) : ts[j].task = other <=> j = i
    BY <1>2, <2>1 DEF Sole
  <2>3. i \notin gone
    BY <1>2, <1>4, <1>11, <2>2
  <2>4. PICK m \in 1..Len(v) : e[m] = i
    BY <1>7, <2>3
  <2>5. ASSUME NEW j \in 1..Len(v) PROVE v[j].task = other <=> j = m
    <3>1. v[j] = ts[e[j]] /\ e[j] \in 1..Len(ts)
      BY <1>7
    <3>2. e[j] = i <=> j = m
      <4>1. j < m \/ j = m \/ m < j
        OBVIOUS
      <4>2. e[j] \in 1..Len(ts) /\ e[m] \in 1..Len(ts)
        BY <1>7
      <4> QED
        BY <1>7, <2>4, <4>1, <4>2
    <3> QED
      BY <2>2, <3>1, <3>2
  <2>6. DOMAIN v = 1..Len(v)
    BY <1>7
  <2>7. m \in DOMAIN v /\ \A j \in DOMAIN v : v[j].task = other <=> j = m
    BY <2>5, <2>6
  <2> QED
    BY <2>7, Zenon DEF Sole
<1>12. \A other \in Periodic :
         IF other \in missing \cup {task} THEN Absent(v, other) ELSE Sole(v, other)
  BY <1>9, <1>10, <1>11
<1>13. TasksFit(v, missing \cup {task})
  BY <1>5, <1>8, <1>12 DEF TasksFit
<1> QED
  BY <1>3, <1>13

(* A task that runs is taken off the list.                                   *)
LEMMA TailFits ==
  ASSUME NEW ts, TasksFit(ts, {}), ts # <<>>
  PROVE  TasksFit(Tail(ts), {Head(ts).task}) /\ Head(ts).task \in Periodic
<1>1. ts \in Seq(Task) /\ InOrder(ts) /\ \A other \in Periodic : Sole(ts, other)
  BY DEF TasksFit
<1> DEFINE v == Tail(ts)
           n == Len(ts)
<1>2. n \in Nat \ {0} /\ DOMAIN ts = 1..n /\ Head(ts) = ts[1] /\ ts[1] \in Task
  BY <1>1
<1>3. v \in Seq(Task) /\ DOMAIN v = 1..(n - 1) /\ \A i \in 1..(n - 1) : v[i] = ts[i + 1]
  BY <1>1, <1>2
<1>4. ts[1].task \in Periodic
  BY <1>2 DEF Task
<1> HIDE DEF v, n
<1>5. InOrder(v)
  <2> SUFFICES ASSUME NEW i \in 1..(n - 1), NEW j \in 1..(n - 1), i < j
               PROVE  v[i].due <= v[j].due
    BY <1>3 DEF InOrder
  <2>1. i + 1 \in 1..n /\ j + 1 \in 1..n /\ i + 1 < j + 1
    BY <1>2
  <2> QED
    BY <1>1, <1>2, <1>3, <2>1 DEF InOrder
<1>6. ASSUME NEW other \in Periodic
      PROVE  IF other = ts[1].task THEN Absent(v, other) ELSE Sole(v, other)
  <2>1. PICK i \in 1..n : \A j \in 1..n : ts[j].task = other <=> j = i
    <3>1. Sole(ts, other)
      BY <1>1
    <3>2. PICK i \in DOMAIN ts : \A j \in DOMAIN ts : ts[j].task = other <=> j = i
      BY <3>1, Zenon DEF Sole
    <3>3. DOMAIN ts = 1..n
      BY <1>2
    <3>4. i \in 1..n /\ \A j \in 1..n : ts[j].task = other <=> j = i
      BY <3>2, <3>3
    <3> QED
      BY <3>4, Zenon
  <2>2. \A j \in 1..(n - 1) : v[j].task = other <=> j + 1 = i
    <3>1. \A j \in 1..(n - 1) : j + 1 \in 1..n
      BY <1>2
    <3> QED
      BY <1>3, <2>1, <3>1
  <2>3. CASE other = ts[1].task
    <3>1. i = 1
      BY <1>2, <2>1, <2>3
    <3>2. \A j \in DOMAIN v : v[j].task # other
      BY <1>2, <1>3, <2>2, <3>1
    <3> QED
      BY <2>3, <3>2 DEF Absent
  <2>4. CASE other # ts[1].task
    <3>1. i - 1 \in 1..(n - 1)
      BY <1>2, <2>1, <2>4
    <3>2. i - 1 \in DOMAIN v /\ \A j \in DOMAIN v : v[j].task = other <=> j = i - 1
      BY <1>2, <1>3, <2>2, <3>1
    <3>3. Sole(v, other)
      BY <3>2, Zenon DEF Sole
    <3> QED
      BY <2>4, <3>3
  <2> QED
    BY <2>3, <2>4
<1>7. TasksFit(v, {ts[1].task})
  BY <1>3, <1>5, <1>6 DEF TasksFit
<1> QED
  BY <1>2, <1>4, <1>7 DEF v

(* Time passes for all of them.                                              *)
LEMMA LaterFits ==
  ASSUME NEW ts, NEW missing, TasksFit(ts, missing)
  PROVE  TasksFit(Later(ts), missing)
<1>1. ts \in Seq(Task) /\ InOrder(ts)
      /\ \A other \in Periodic : IF other \in missing THEN Absent(ts, other) ELSE Sole(ts, other)
  BY DEF TasksFit
<1> DEFINE v == Later(ts)
           n == Len(ts)
           Less(d) == IF d > -1 THEN d - 1 ELSE d
<1>2. n \in Nat /\ DOMAIN ts = 1..n /\ \A i \in 1..n : ts[i] \in Task
  BY <1>1
<1>3. ASSUME NEW x \in Task
      PROVE  /\ [x EXCEPT !.due = IF @ > -1 THEN @ - 1 ELSE @] \in Task
             /\ [x EXCEPT !.due = IF @ > -1 THEN @ - 1 ELSE @].task = x.task
             /\ [x EXCEPT !.due = IF @ > -1 THEN @ - 1 ELSE @].due = Less(x.due)
             /\ x.due \in Int
  BY DEF Task
<1>4. /\ v \in Seq(Task) /\ DOMAIN v = 1..n
      /\ \A i \in 1..n : v[i].task = ts[i].task /\ v[i].due = Less(ts[i].due) /\ ts[i].due \in Int
  <2>1. v = [i \in 1..n |-> [ts[i] EXCEPT !.due = IF @ > -1 THEN @ - 1 ELSE @]]
    BY <1>2 DEF Later
  <2> HIDE DEF v, Less, n
  <2>2. \A i \in 1..n : v[i] \in Task
    BY <1>2, <1>3, <2>1
  <2>3. v \in Seq(Task)
    BY <1>2, <2>1, <2>2
  <2> QED
    BY <1>2, <1>3, <2>1, <2>3
<1>5. InOrder(v)
  <2> SUFFICES ASSUME NEW i \in 1..n, NEW j \in 1..n, i < j
               PROVE  v[i].due <= v[j].due
    BY <1>4 DEF InOrder
  <2>1. ts[i].due <= ts[j].due
    BY <1>1, <1>2 DEF InOrder
  <2> HIDE DEF v
  <2> QED
    BY <1>4, <2>1
<1> HIDE DEF v, Less
<1>6. \A other \in Periodic : (Absent(ts, other) => Absent(v, other)) /\ (Sole(ts, other) => Sole(v, other))
  <2>1. DOMAIN v = DOMAIN ts /\ \A i \in DOMAIN ts : v[i].task = ts[i].task
    BY <1>2, <1>4
  <2>2. \A other : Absent(ts, other) => Absent(v, other)
    BY <2>1 DEF Absent
  <2>3. ASSUME NEW other, Sole(ts, other)
        PROVE  Sole(v, other)
    <3>1. PICK i \in DOMAIN ts : \A j \in DOMAIN ts : ts[j].task = other <=> j = i
      BY <2>3, Zenon DEF Sole
    <3>2. i \in DOMAIN v /\ \A j \in DOMAIN v : v[j].task = other <=> j = i
      BY <2>1, <3>1
    <3> QED
      BY <3>2, Zenon DEF Sole
  <2> QED
    BY <2>2, <2>3
<1>7. TasksFit(v, missing)
  BY <1>1, <1>4, <1>5, <1>6 DEF TasksFit
<1> QED
  BY <1>7 DEF v

(* This is what TasksInOrder says.                                           *)
LEMMA FitInOrder ==
  ASSUME TasksFit(tasks, {})
  PROVE  TasksInOrder
<1>1. InOrder(tasks) /\ \A task \in Periodic : Sole(tasks, task)
  BY DEF TasksFit
<1>2. DOMAIN Period = Periodic
  BY LoopAssumption DEF LoopAssumption, Periodic
<1>3. ASSUME NEW task \in Periodic
      PROVE  Cardinality({i \in DOMAIN tasks : tasks[i].task = task}) = 1
  <2>1. PICK i \in DOMAIN tasks : \A j \in DOMAIN tasks : tasks[j].task = task <=> j = i
    BY <1>1, Zenon DEF Sole
  <2>2. {j \in DOMAIN tasks : tasks[j].task = task} = {i}
    BY <2>1
  <2> QED
    BY <2>2, FS_Singleton
<1>4. \A i, j \in DOMAIN tasks : i < j => tasks[i].due <= tasks[j].due
  BY <1>1 DEF InOrder
<1> QED
  BY <1>2, <1>3, <1>4 DEF TasksInOrder

-----------------------------------------------------------------------------
(* The descriptors and who holds them.                                       *)
Node == [user : Users, fd : 0..MaxFd, closing : Int]
Table ==
  [open : [1..MaxFd -> Sources \cup Users \cup {Free}], fdOf : [Sources -> 0..MaxFd],
   hooks : Seq(Sources), nodes : Seq(Node), changed : BOOLEAN, tasks : Seq(Task),
   conn : [Users -> {"none", "queued", "open"}], sent : [Users -> Sent]]

(* What a source keeps is its own descriptor, and nobody forgets one.        *)
SourcesHeld(t) ==
  /\ \A s \in Sources : t.fdOf[s] # None => t.open[t.fdOf[s]] = s
  /\ \A fd \in 1..MaxFd : t.open[fd] \in Sources => t.fdOf[t.open[fd]] = fd

(* The same for the nodes of connections; a user has at most one.            *)
NodesHeld(t) ==
  /\ \A i \in DOMAIN t.nodes : t.nodes[i].fd # None =>
       t.open[t.nodes[i].fd] = t.nodes[i].user /\ t.conn[t.nodes[i].user] = "open"
  /\ \A fd \in 1..MaxFd : t.open[fd] \in Users => \E i \in DOMAIN t.nodes : t.nodes[i].fd = fd
  /\ \A i, j \in DOMAIN t.nodes :
       t.nodes[i].fd # None /\ t.nodes[j].fd # None /\ t.nodes[i].user = t.nodes[j].user => i = j

(* Whoever waits to be accepted will find a descriptor.                      *)
Waiting(c) == {u \in Users : c[u] = "queued"}
Room(t) == Len(t.nodes) + Cardinality(Waiting(t.conn)) <= MaxNodes

(* Only ended control connections and those of http_info are closed in time. *)
UsersKept(t) ==
  /\ \A i \in DOMAIN t.nodes :
       t.nodes[i].fd # None /\ t.nodes[i].user \in Clients => t.nodes[i].closing = -1
  /\ \A u \in Browsers : t.sent[u] \in {"nothing", "line"}

Held(t) == t \in Table /\ SourcesHeld(t) /\ NodesHeld(t) /\ Room(t) /\ UsersKept(t)

LEMMA TableFields ==
  ASSUME NEW t \in Table
  PROVE  /\ t.open \in [1..MaxFd -> Sources \cup Users \cup {Free}] /\ t.fdOf \in [Sources -> 0..MaxFd]
         /\ t.hooks \in Seq(Sources) /\ t.nodes \in Seq(Node) /\ t.changed \in BOOLEAN
         /\ t.tasks \in Seq(Task) /\ t.conn \in [Users -> {"none", "queued", "open"}]
         /\ t.sent \in [Users -> Sent]
         /\ Len(t.nodes) \in Nat /\ DOMAIN t.nodes = 1..Len(t.nodes)
         /\ \A i \in DOMAIN t.nodes :
              t.nodes[i] \in Node /\ t.nodes[i].user \in Users /\ t.nodes[i].fd \in 0..MaxFd
              /\ t.nodes[i].closing \in Int
<1>1. /\ t.open \in [1..MaxFd -> Sources \cup Users \cup {Free}] /\ t.fdOf \in [Sources -> 0..MaxFd]
      /\ t.hooks \in Seq(Sources) /\ t.nodes \in Seq(Node) /\ t.changed \in BOOLEAN
      /\ t.tasks \in Seq(Task) /\ t.conn \in [Users -> {"none", "queued", "open"}]
      /\ t.sent \in [Users -> Sent]
  BY DEF Table
<1>2. Len(t.nodes) \in Nat /\ DOMAIN t.nodes = 1..Len(t.nodes)
      /\ \A i \in DOMAIN t.nodes : t.nodes[i] \in Node
  BY <1>1
<1>3. \A n \in Node : n.user \in Users /\ n.fd \in 0..MaxFd /\ n.closing \in Int
  BY DEF Node
<1> QED
  BY <1>1, <1>2, <1>3

(* fd is the lowest free descriptor.                                         *)
IsLowest(fd, t) ==
  fd \in 1..MaxFd /\ t.open[fd] = Free /\ \A f \in 1..MaxFd : t.open[f] = Free => fd <= f

LEMMA SourcesFinite == IsFiniteSet(Sources) /\ Cardinality(Sources) \in Nat
<1> DEFINE S1 == {"ifevent"}
           S2 == S1 \cup {"unix"}
           S3 == S2 \cup {"dev"}
           S4 == S3 \cup {"udp"}
           S5 == S4 \cup {"tun"}
           S6 == S5 \cup {"http"}
<1>1. IsFiniteSet(S1)
  BY FS_Singleton
<1>2. IsFiniteSet(S2)
  BY <1>1, FS_AddElement
<1>3. IsFiniteSet(S3)
  <2> HIDE DEF S2
  <2> QED
    BY <1>2, FS_AddElement
<1>4. IsFiniteSet(S4)
  <2> HIDE DEF S3
  <2> QED
    BY <1>3, FS_AddElement
<1>5. IsFiniteSet(S5)
  <2> HIDE DEF S4
  <2> QED
    BY <1>4, FS_AddElement
<1>6. IsFiniteSet(S6)
  <2> HIDE DEF S5
  <2> QED
    BY <1>5, FS_AddElement
<1>7. Sources = S6
  BY DEF Sources
<1> QED
  BY <1>6, <1>7, FS_CardinalityType

(* The free descriptors are not used up before sources and nodes are.        *)
LEMMA FreeOne ==
  ASSUME NEW t, Held(t),
         (\E s \in Sources : t.fdOf[s] = None) \/ (\E u \in Users : t.conn[u] = "queued")
  PROVE  IsLowest(Lowest(t), t)
<1> DEFINE A == {fd \in 1..MaxFd : t.open[fd] \in Sources}
           B == {fd \in 1..MaxFd : t.open[fd] \in Users}
           F == {fd \in 1..MaxFd : t.open[fd] = Free}
           W == Waiting(t.conn)
           Used == {s \in Sources : t.fdOf[s] # None}
           n == Len(t.nodes)
<1>1. /\ t.open \in [1..MaxFd -> Sources \cup Users \cup {Free}] /\ t.fdOf \in [Sources -> 0..MaxFd]
      /\ t.nodes \in Seq(Node) /\ n \in Nat /\ DOMAIN t.nodes = 1..n
      /\ n + Cardinality(W) <= MaxNodes
      /\ \A s \in Sources : t.fdOf[s] # None => t.open[t.fdOf[s]] = s
      /\ \A fd \in 1..MaxFd : t.open[fd] \in Sources => t.fdOf[t.open[fd]] = fd
      /\ \A fd \in 1..MaxFd : t.open[fd] \in Users => \E i \in 1..n : t.nodes[i].fd = fd
  <2>1. t \in Table /\ SourcesHeld(t) /\ NodesHeld(t) /\ Room(t)
    BY DEF Held
  <2>2. /\ t.open \in [1..MaxFd -> Sources \cup Users \cup {Free}]
        /\ t.fdOf \in [Sources -> 0..MaxFd]
        /\ t.nodes \in Seq(Node) /\ n \in Nat /\ DOMAIN t.nodes = 1..n
    BY <2>1, TableFields
  <2>3. n + Cardinality(W) <= MaxNodes
    BY <2>1 DEF Room
  <2>4. /\ \A s \in Sources : t.fdOf[s] # None => t.open[t.fdOf[s]] = s
        /\ \A fd \in 1..MaxFd : t.open[fd] \in Sources => t.fdOf[t.open[fd]] = fd
    BY <2>1 DEF SourcesHeld
  <2>5. \A fd \in 1..MaxFd : t.open[fd] \in Users => \E i \in 1..n : t.nodes[i].fd = fd
    <3>1. \A fd \in 1..MaxFd : t.open[fd] \in Users => \E i \in DOMAIN t.nodes : t.nodes[i].fd = fd
      BY <2>1 DEF NodesHeld
    <3> HIDE DEF n
    <3> QED
      BY <2>2, <3>1
  <2> QED
    BY <2>2, <2>3, <2>4, <2>5
<1>2. /\ MaxFd \in Nat /\ MaxNodes \in Nat /\ MaxFd >= Cardinality(Sources) + MaxNodes
      /\ IsFiniteSet(Users) /\ IsFiniteSet(Sources) /\ Cardinality(Sources) \in Nat
  BY LoopAssumption, SourcesFinite DEF LoopAssumption
<1>3. IsFiniteSet(Used) /\ Cardinality(Used) \in Nat /\ Cardinality(Used) <= Cardinality(Sources)
      /\ ((\E s \in Sources : t.fdOf[s] = None) => Cardinality(Used) < Cardinality(Sources))
  <2>1. Used \in SUBSET Sources
    OBVIOUS
  <2>2. (\E s \in Sources : t.fdOf[s] = None) => Used # Sources
    OBVIOUS
  <2> HIDE DEF Used
  <2>3. IsFiniteSet(Used) /\ Cardinality(Used) <= Cardinality(Sources)
        /\ (Cardinality(Sources) = Cardinality(Used) => Sources = Used)
    BY <1>2, <2>1, FS_Subset
  <2>4. Cardinality(Used) \in Nat
    BY <2>3, FS_CardinalityType
  <2> QED
    BY <1>2, <2>2, <2>3, <2>4
<1>4. Cardinality(W) \in Nat /\ ((\E u \in Users : t.conn[u] = "queued") => Cardinality(W) > 0)
  <2>1. W \in SUBSET Users
    BY DEF Waiting
  <2>2. (\E u \in Users : t.conn[u] = "queued") => W # {}
    BY DEF Waiting
  <2> HIDE DEF W
  <2>3. IsFiniteSet(W)
    BY <1>2, <2>1, FS_Subset
  <2>4. Cardinality(W) \in Nat /\ (Cardinality(W) = 0 <=> W = {})
    BY <2>3, FS_CardinalityType, FS_EmptySet
  <2> QED
    BY <2>2, <2>4
<1>5. IsFiniteSet(A) /\ Cardinality(A) \in Nat /\ Cardinality(A) <= Cardinality(Used)
  <2> DEFINE f == [fd \in A |-> t.open[fd]]
  <2>1. f \in Injection(A, Used)
    <3>1. \A fd \in A : t.open[fd] \in Used
      <4>1. \A fd \in A : t.fdOf[t.open[fd]] = fd /\ fd # 0
        BY <1>1, <1>2
      <4> QED
        BY <4>1 DEF None
    <3>2. \A a, b \in A : t.open[a] = t.open[b] => a = b
      BY <1>1
    <3> HIDE DEF A, Used
    <3>3. f \in [A -> Used] /\ \A a, b \in A : f[a] = f[b] => a = b
      BY <3>1, <3>2
    <3> QED
      BY <3>3 DEF Injection, IsInjective
  <2> HIDE DEF f, A, Used
  <2>2. IsFiniteSet(A) /\ Cardinality(A) <= Cardinality(Used)
    BY <1>3, <2>1, FS_Injection
  <2> QED
    BY <2>2, FS_CardinalityType
<1>6. IsFiniteSet(B) /\ Cardinality(B) \in Nat /\ Cardinality(B) <= n
  <2> DEFINE g == [fd \in B |-> CHOOSE i \in 1..n : t.nodes[i].fd = fd]
  <2>1. \A fd \in B : g[fd] \in 1..n /\ t.nodes[g[fd]].fd = fd
    BY <1>1
  <2>2. g \in Injection(B, 1..n)
    <3>1. g = [fd \in B |-> g[fd]]
      OBVIOUS
    <3> HIDE DEF g, B, n
    <3>2. g \in [B -> 1..n] /\ \A a, b \in B : g[a] = g[b] => a = b
      BY <2>1, <3>1
    <3> QED
      BY <3>2 DEF Injection, IsInjective
  <2>3. n \in Nat
    BY <1>1
  <2> HIDE DEF g, B, n
  <2>4. IsFiniteSet(1..n) /\ Cardinality(1..n) = n
    BY <2>3, FirstCount
  <2>5. IsFiniteSet(B) /\ Cardinality(B) <= n
    BY <2>2, <2>4, FS_Injection
  <2> QED
    BY <2>5, FS_CardinalityType
<1>7. F # {}
  <2> SUFFICES ASSUME F = {} PROVE FALSE
    OBVIOUS
  <2>1. 1..MaxFd = A \cup B
    BY <1>1
  <2>2. Cardinality(A \cup B) <= Cardinality(A) + Cardinality(B)
    <3> HIDE DEF A, B
    <3>1. Cardinality(A \cup B) = Cardinality(A) + Cardinality(B) - Cardinality(A \cap B)
      BY <1>5, <1>6, FS_Union
    <3>2. IsFiniteSet(A \cap B)
      BY <1>5, FS_Subset
    <3>3. Cardinality(A \cap B) \in Nat
      BY <3>2, FS_CardinalityType
    <3> QED
      BY <1>5, <1>6, <3>1, <3>3
  <2>3. Cardinality(1..MaxFd) = MaxFd
    <3>1. MaxFd \in Nat
      BY <1>2
    <3> QED
      BY <3>1, FirstCount
  <2> HIDE DEF A, B, Used, W, n
  <2>4. MaxFd <= Cardinality(A) + Cardinality(B)
    BY <2>1, <2>2, <2>3
  <2> QED
    BY <1>1, <1>2, <1>3, <1>4, <1>5, <1>6, <2>4
<1>8. F \in SUBSET Nat
  OBVIOUS
<1>9. Lowest(t) = Min(F)
  BY DEF Lowest
<1>10. Min(F) \in F /\ \A fd \in F : Min(F) <= fd
  <2> HIDE DEF F
  <2> QED
    BY <1>7, <1>8, MinIs
<1> QED
  BY <1>9, <1>10 DEF IsLowest

-----------------------------------------------------------------------------
(* Opening and closing the descriptors of sources.                           *)

(* Connections are not affected.                                             *)
Beside(u, t) == u.nodes = t.nodes /\ u.conn = t.conn /\ u.sent = t.sent

SameFds(u, t) == u.open = t.open /\ u.fdOf = t.fdOf /\ (u.changed <=> t.changed)

(* check_selects() will be told of what is to be watched from now on.        *)
Noticed(u, t) ==
  /\ t.changed => u.changed
  /\ ~ u.changed => Wanted(u) = Wanted(t)

(* The hooks are those of the open sources, in the order the proofs of the   *)
(* passes need: that of http_info is first, and the first descriptor of a    *)
(* tunnel is below its second.                                               *)
HooksHeld(t) ==
  /\ t.fdOf["ifevent"] # None /\ t.fdOf["unix"] # None /\ t.fdOf["http"] # None
  /\ \/ t.hooks = <<"http">> /\ t.fdOf["udp"] = None /\ t.fdOf["tun"] = None
     \/ /\ t.hooks = <<"http", "udp", "tun">>
        /\ t.fdOf["udp"] # None /\ t.fdOf["udp"] < t.fdOf["tun"]

LEMMA NamesDiffer ==
  /\ \A u \in Users : u \notin Sources /\ u # Free
  /\ \A s \in Sources : s # Free
  /\ MaxFd \in Nat /\ IsFiniteSet(Users)
<1>1. Users \cap (Sources \cup {Free}) = {} /\ MaxFd \in Nat /\ IsFiniteSet(Users)
  BY LoopAssumption DEF LoopAssumption
<1>2. \A s \in Sources : s # Free
  BY DEF Sources, Free
<1> QED
  BY <1>1, <1>2

LEMMA BesideHeld ==
  ASSUME NEW t, Held(t), NEW u \in Table, Beside(u, t), SourcesHeld(u),
         \A fd \in 1..MaxFd : t.open[fd] \in Users \/ u.open[fd] \in Users => u.open[fd] = t.open[fd]
  PROVE  Held(u)
<1>1. t \in Table /\ NodesHeld(t) /\ Room(t) /\ UsersKept(t)
  BY DEF Held
<1>2. u.nodes = t.nodes /\ u.conn = t.conn /\ u.sent = t.sent
  BY DEF Beside
<1>3. NodesHeld(u)
  <2>1. \A i \in DOMAIN t.nodes : t.nodes[i].fd # None =>
          u.open[t.nodes[i].fd] = t.nodes[i].user /\ t.conn[t.nodes[i].user] = "open"
    <3> SUFFICES ASSUME NEW i \in DOMAIN t.nodes, t.nodes[i].fd # None
                 PROVE  u.open[t.nodes[i].fd] = t.nodes[i].user /\ t.conn[t.nodes[i].user] = "open"
      OBVIOUS
    <3>1. t.nodes[i].fd \in 0..MaxFd /\ t.nodes[i].user \in Users
      BY <1>1, TableFields
    <3>2. t.nodes[i].fd \in 1..MaxFd
      BY <3>1, NamesDiffer DEF None
    <3>3. t.open[t.nodes[i].fd] = t.nodes[i].user /\ t.conn[t.nodes[i].user] = "open"
      BY <1>1 DEF NodesHeld
    <3> QED
      BY <3>1, <3>2, <3>3
  <2>2. \A fd \in 1..MaxFd : u.open[fd] \in Users => \E i \in DOMAIN t.nodes : t.nodes[i].fd = fd
    BY <1>1 DEF NodesHeld
  <2>3. \A i, j \in DOMAIN t.nodes :
          t.nodes[i].fd # None /\ t.nodes[j].fd # None /\ t.nodes[i].user = t.nodes[j].user => i = j
    BY <1>1 DEF NodesHeld
  <2> QED
    BY <1>2, <2>1, <2>2, <2>3 DEF NodesHeld
<1>4. Room(u)
  BY <1>1, <1>2 DEF Room
<1>5. UsersKept(u)
  BY <1>1, <1>2 DEF UsersKept
<1> QED
  BY <1>3, <1>4, <1>5 DEF Held

(* Hooks and tasks are kept elsewhere.                                       *)
SetHooks(t, h) == [t EXCEPT !.hooks = h]
SetTasks(t, ts) == [t EXCEPT !.tasks = ts]

LEMMA SetHooksHeld ==
  ASSUME NEW t, Held(t), NEW h \in Seq(Sources)
  PROVE  /\ Held(SetHooks(t, h)) /\ Beside(SetHooks(t, h), t) /\ SameFds(SetHooks(t, h), t)
         /\ SetHooks(t, h).hooks = h /\ SetHooks(t, h).tasks = t.tasks
<1> DEFINE u == SetHooks(t, h)
<1>1. t \in Table /\ SourcesHeld(t)
  BY DEF Held
<1>2. /\ u \in Table
      /\ u.open = t.open /\ u.fdOf = t.fdOf /\ (u.changed <=> t.changed)
      /\ u.nodes = t.nodes /\ u.conn = t.conn /\ u.sent = t.sent
      /\ u.hooks = h /\ u.tasks = t.tasks
  BY <1>1 DEF SetHooks, Table
<1> HIDE DEF u
<1>3. SourcesHeld(u)
  BY <1>1, <1>2 DEF SourcesHeld
<1>4. Beside(u, t) /\ SameFds(u, t)
  BY <1>2 DEF Beside, SameFds
<1>5. Held(u)
  BY <1>2, <1>3, <1>4, BesideHeld
<1> QED
  BY <1>2, <1>4, <1>5 DEF u

LEMMA SetTasksHeld ==
  ASSUME NEW t, Held(t), NEW ts \in Seq(Task)
  PROVE  /\ Held(SetTasks(t, ts)) /\ Beside(SetTasks(t, ts), t) /\ SameFds(SetTasks(t, ts), t)
         /\ SetTasks(t, ts).hooks = t.hooks /\ SetTasks(t, ts).tasks = ts
<1> DEFINE u == SetTasks(t, ts)
<1>1. t \in Table /\ SourcesHeld(t)
  BY DEF Held
<1>2. /\ u \in Table
      /\ u.open = t.open /\ u.fdOf = t.fdOf /\ (u.changed <=> t.changed)
      /\ u.nodes = t.nodes /\ u.conn = t.conn /\ u.sent = t.sent
      /\ u.hooks = t.hooks /\ u.tasks = ts
  BY <1>1 DEF SetTasks, Table
<1> HIDE DEF u
<1>3. SourcesHeld(u)
  BY <1>1, <1>2 DEF SourcesHeld
<1>4. Beside(u, t) /\ SameFds(u, t)
  BY <1>2 DEF Beside, SameFds
<1>5. Held(u)
  BY <1>2, <1>3, <1>4, BesideHeld
<1> QED
  BY <1>2, <1>4, <1>5 DEF u

(* The source s has got the descriptor fd; it has given up its own.          *)
IsOpened(u, t, s, fd) ==
  /\ u.open = [t.open EXCEPT ![fd] = s] /\ u.fdOf = [t.fdOf EXCEPT ![s] = fd] /\ u.changed
  /\ Beside(u, t) /\ u.hooks = t.hooks /\ u.tasks = t.tasks
IsClosed(u, t, s) ==
  /\ u.open = [fd \in 1..MaxFd |-> IF fd = t.fdOf[s] THEN Free ELSE t.open[fd]]
  /\ u.fdOf = [t.fdOf EXCEPT ![s] = None]
  /\ u.changed <=> t.changed \/ t.fdOf[s] # None
  /\ Beside(u, t) /\ u.hooks = t.hooks /\ u.tasks = t.tasks

LEMMA OpenSourceHeld ==
  ASSUME NEW t, Held(t), NEW s \in Sources, t.fdOf[s] = None
  PROVE  /\ Held(OpenSource(t, s)) /\ IsOpened(OpenSource(t, s), t, s, Lowest(t))
         /\ IsLowest(Lowest(t), t)
<1> DEFINE u == OpenSource(t, s)
           fd == Lowest(t)
<1>1. t \in Table /\ SourcesHeld(t)
  BY DEF Held
<1>2. IsLowest(fd, t)
  BY FreeOne
<1>3. fd \in 1..MaxFd /\ t.open[fd] = Free
  BY <1>2 DEF IsLowest
<1>4. u = [t EXCEPT !.open[fd] = s, !.fdOf[s] = fd, !.changed = TRUE]
  BY DEF OpenSource
<1> HIDE DEF u, fd
<1>5. t.open \in [1..MaxFd -> Sources \cup Users \cup {Free}] /\ t.fdOf \in [Sources -> 0..MaxFd]
  BY <1>1, TableFields
<1>6. [t.open EXCEPT ![fd] = s] \in [1..MaxFd -> Sources \cup Users \cup {Free}]
      /\ [t.fdOf EXCEPT ![s] = fd] \in [Sources -> 0..MaxFd]
  BY <1>3, <1>5
<1>7. /\ u \in Table
      /\ u.open = [t.open EXCEPT ![fd] = s] /\ u.fdOf = [t.fdOf EXCEPT ![s] = fd] /\ u.changed
      /\ u.nodes = t.nodes /\ u.conn = t.conn /\ u.sent = t.sent
      /\ u.hooks = t.hooks /\ u.tasks = t.tasks
  BY <1>1, <1>4, <1>6 DEF Table
<1>8. Beside(u, t)
  BY <1>7 DEF Beside
<1>9. \A f \in 1..MaxFd : u.open[f] = IF f = fd THEN s ELSE t.open[f]
  BY <1>5, <1>7
<1>10. \A x \in Sources : u.fdOf[x] = IF x = s THEN fd ELSE t.fdOf[x]
  BY <1>5, <1>7
<1>11. SourcesHeld(u)
  <2>1. ASSUME NEW x \in Sources, u.fdOf[x] # None PROVE u.open[u.fdOf[x]] = x
    <3>1. CASE x = s
      BY <1>3, <1>9, <1>10, <3>1
    <3>2. CASE x # s
      <4>1. u.fdOf[x] = t.fdOf[x] /\ t.open[t.fdOf[x]] = x
        BY <1>1, <1>10, <2>1, <3>2 DEF SourcesHeld
      <4>2. t.fdOf[x] \in 1..MaxFd /\ t.fdOf[x] # fd
        BY <1>3, <1>5, <2>1, <4>1, NamesDiffer DEF None
      <4> QED
        BY <1>9, <4>1, <4>2
    <3> QED
      BY <3>1, <3>2
  <2>2. ASSUME NEW f \in 1..MaxFd, u.open[f] \in Sources PROVE u.fdOf[u.open[f]] = f
    <3>1. CASE f = fd
      BY <1>9, <1>10, <3>1
    <3>2. CASE f # fd
      <4>1. u.open[f] = t.open[f] /\ t.fdOf[t.open[f]] = f
        BY <1>1, <1>9, <2>2, <3>2 DEF SourcesHeld
      <4>2. t.open[f] # s
        BY <4>1 DEF None
      <4> QED
        BY <1>10, <2>2, <4>1, <4>2
    <3> QED
      BY <3>1, <3>2
  <2> QED
    BY <2>1, <2>2 DEF SourcesHeld
<1>12. \A f \in 1..MaxFd : t.open[f] \in Users \/ u.open[f] \in Users => u.open[f] = t.open[f]
  BY <1>3, <1>9, NamesDiffer
<1>13. Held(u)
  BY <1>7, <1>8, <1>11, <1>12, BesideHeld
<1>14. IsOpened(u, t, s, fd)
  BY <1>7, <1>8 DEF IsOpened
<1> QED
  BY <1>2, <1>13, <1>14 DEF u, fd

LEMMA CloseSourceHeld ==
  ASSUME NEW t, Held(t), NEW s \in Sources
  PROVE  Held(CloseSource(t, s)) /\ IsClosed(CloseSource(t, s), t, s)
<1> DEFINE u == CloseSource(t, s)
           fd == t.fdOf[s]
<1>1. t \in Table /\ SourcesHeld(t)
  BY DEF Held
<1>2. t.open \in [1..MaxFd -> Sources \cup Users \cup {Free}] /\ t.fdOf \in [Sources -> 0..MaxFd]
  BY <1>1, TableFields
<1>3. fd \in 0..MaxFd /\ MaxFd \in Nat
  BY <1>2, NamesDiffer
<1>4. CASE fd = None
  <2>1. u = t
    BY <1>4 DEF CloseSource
  <2>2. t.open = [f \in 1..MaxFd |-> IF f = fd THEN Free ELSE t.open[f]]
    <3>1. \A f \in 1..MaxFd : f # fd
      BY <1>4 DEF None
    <3> HIDE DEF fd
    <3> QED
      BY <1>2, <3>1
  <2>3. t.fdOf = [t.fdOf EXCEPT ![s] = None]
    BY <1>2, <1>4
  <2>4. IsClosed(t, t, s)
    BY <1>4, <2>2, <2>3 DEF IsClosed, Beside
  <2> QED
    BY <2>1, <2>4
<1>5. CASE fd # None
  <2>1. u = [t EXCEPT !.open[fd] = Free, !.fdOf[s] = None, !.changed = TRUE]
    BY <1>5 DEF CloseSource
  <2>2. fd \in 1..MaxFd /\ t.open[fd] = s
    BY <1>1, <1>3, <1>5 DEF SourcesHeld, None
  <2> HIDE DEF u
  <2>3. [t.open EXCEPT ![fd] = Free] \in [1..MaxFd -> Sources \cup Users \cup {Free}]
        /\ [t.fdOf EXCEPT ![s] = None] \in [Sources -> 0..MaxFd]
    BY <1>2, <1>3, <2>2 DEF None
  <2>4. /\ u \in Table
        /\ u.open = [t.open EXCEPT ![fd] = Free] /\ u.fdOf = [t.fdOf EXCEPT ![s] = None]
        /\ u.changed = TRUE
        /\ u.nodes = t.nodes /\ u.conn = t.conn /\ u.sent = t.sent
        /\ u.hooks = t.hooks /\ u.tasks = t.tasks
    <3> HIDE DEF fd
    <3> QED
      BY <1>1, <2>1, <2>3 DEF Table
  <2>5. Beside(u, t)
    BY <2>4 DEF Beside
  <2>6. u.open = [f \in 1..MaxFd |-> IF f = fd THEN Free ELSE t.open[f]]
    BY <1>2, <2>4
  <2>7. \A x \in Sources : u.fdOf[x] = IF x = s THEN None ELSE t.fdOf[x]
    BY <1>2, <2>4
  <2>8. SourcesHeld(u)
    <3>1. ASSUME NEW x \in Sources, u.fdOf[x] # None PROVE u.open[u.fdOf[x]] = x
      <4>1. x # s /\ u.fdOf[x] = t.fdOf[x] /\ t.open[t.fdOf[x]] = x
        BY <1>1, <2>7, <3>1 DEF SourcesHeld
      <4>2. t.fdOf[x] \in 1..MaxFd /\ t.fdOf[x] # fd
        BY <1>2, <2>2, <3>1, <4>1, NamesDiffer DEF None
      <4> HIDE DEF fd
      <4> QED
        BY <2>6, <4>1, <4>2
    <3>2. ASSUME NEW f \in 1..MaxFd, u.open[f] \in Sources PROVE u.fdOf[u.open[f]] = f
      <4>1. f # fd /\ u.open[f] = t.open[f]
        BY <2>6, <3>2, NamesDiffer
      <4>2. t.fdOf[t.open[f]] = f
        BY <1>1, <3>2, <4>1 DEF SourcesHeld
      <4>3. t.open[f] # s
        BY <4>1, <4>2
      <4> QED
        BY <2>7, <3>2, <4>1, <4>2, <4>3
    <3> QED
      BY <3>1, <3>2 DEF SourcesHeld
  <2>9. \A f \in 1..MaxFd : t.open[f] \in Users \/ u.open[f] \in Users => u.open[f] = t.open[f]
    BY <2>2, <2>6, NamesDiffer
  <2>10. Held(u)
    BY <2>4, <2>5, <2>8, <2>9, BesideHeld
  <2>11. IsClosed(u, t, s)
    BY <1>5, <2>4, <2>5, <2>6 DEF IsClosed
  <2> QED
    BY <2>10, <2>11 DEF u
<1> QED
  BY <1>4, <1>5

LEMMA SameWanted ==
  ASSUME NEW u, NEW t, u.fdOf = t.fdOf, u.nodes = t.nodes, u.hooks = t.hooks
  PROVE  Wanted(u) = Wanted(t)
BY DEF Wanted

(* Without an entry to delete a list of one stays, and three become two.     *)
LEMMA HooksLeft ==
  /\ \A gone : 1 \notin gone => Left(<<"http">>, gone) = <<"http">>
  /\ \A gone : 1 \notin gone /\ 2 \notin gone /\ 3 \in gone =>
       Left(<<"http", "udp", "tun">>, gone) = <<"http", "udp">>
  /\ \A gone : 1 \notin gone /\ 2 \in gone => Left(<<"http", "udp">>, gone) = <<"http">>
<1>1. ASSUME NEW gone, 1 \notin gone
      PROVE  Left(<<"http">>, gone) = <<"http">>
  <2> DEFINE s == <<"http">>
             Names == {"http", "udp", "tun"}
  <2>1. s \in Seq(Names) /\ Len(s) = 1 /\ s[1] = "http"
    OBVIOUS
  <2> HIDE DEF s, Names
  <2>2. PICK f : Leaves(f, Names, s, gone)
    BY <2>1, LeftWalk
  <2>3. f[0] = <<>> /\ 1 - 1 = 0 /\ f[1] = (IF 1 \in gone THEN f[1 - 1] ELSE Append(f[1 - 1], s[1]))
        /\ Left(s, gone) = f[1]
    BY <2>1, <2>2 DEF Leaves
  <2>4. Left(s, gone) = Append(<<>>, "http")
    BY <1>1, <2>1, <2>3
  <2> QED
    BY <2>4 DEF s
<1>2. ASSUME NEW gone, 1 \notin gone, 2 \notin gone, 3 \in gone
      PROVE  Left(<<"http", "udp", "tun">>, gone) = <<"http", "udp">>
  <2> DEFINE s == <<"http", "udp", "tun">>
             Names == {"http", "udp", "tun"}
  <2>1. s \in Seq(Names) /\ Len(s) = 3 /\ s[1] = "http" /\ s[2] = "udp"
    OBVIOUS
  <2> HIDE DEF s, Names
  <2>2. PICK f : Leaves(f, Names, s, gone)
    BY <2>1, LeftWalk
  <2>3. f[0] = <<>> /\ Left(s, gone) = f[3]
    BY <2>1, <2>2 DEF Leaves
  <2>4. f[1] = Append(f[0], s[1])
    BY <1>2, <2>1, <2>2 DEF Leaves
  <2>5. f[2] = Append(f[1], s[2])
    BY <1>2, <2>1, <2>2 DEF Leaves
  <2>6. f[3] = f[2]
    BY <1>2, <2>1, <2>2 DEF Leaves
  <2>7. Left(s, gone) = Append(Append(<<>>, "http"), "udp")
    BY <2>1, <2>3, <2>4, <2>5, <2>6
  <2> QED
    BY <2>7 DEF s
<1>3. ASSUME NEW gone, 1 \notin gone, 2 \in gone
      PROVE  Left(<<"http", "udp">>, gone) = <<"http">>
  <2> DEFINE s == <<"http", "udp">>
             Names == {"http", "udp", "tun"}
  <2>1. s \in Seq(Names) /\ Len(s) = 2 /\ s[1] = "http"
    OBVIOUS
  <2> HIDE DEF s, Names
  <2>2. PICK f : Leaves(f, Names, s, gone)
    BY <2>1, LeftWalk
  <2>3. f[0] = <<>> /\ Left(s, gone) = f[2]
    BY <2>1, <2>2 DEF Leaves
  <2>4. f[1] = Append(f[0], s[1])
    BY <1>3, <2>1, <2>2 DEF Leaves
  <2>5. f[2] = f[1]
    BY <1>3, <2>1, <2>2 DEF Leaves
  <2>6. Left(s, gone) = Append(<<>>, "http")
    BY <2>1, <2>3, <2>4, <2>5
  <2> QED
    BY <2>6 DEF s
<1> QED
  BY <1>1, <1>2, <1>3

(* gwc_cleanup(): u is t without the descriptors and the hooks of a tunnel.  *)
IsWithoutTunnel(u, t) ==
  /\ u.open = [fd \in 1..MaxFd |-> IF fd \in {t.fdOf["udp"], t.fdOf["tun"]} THEN Free ELSE t.open[fd]]
  /\ u.fdOf = [s \in Sources |-> IF s \in {"udp", "tun"} THEN None ELSE t.fdOf[s]]
  /\ u.hooks = <<"http">> /\ u.tasks = t.tasks

LEMMA CleanupTunnelHeld ==
  ASSUME NEW t, Held(t), HooksHeld(t)
  PROVE  /\ Held(CleanupTunnel(t)) /\ HooksHeld(CleanupTunnel(t))
         /\ IsWithoutTunnel(CleanupTunnel(t), t)
         /\ Beside(CleanupTunnel(t), t) /\ Noticed(CleanupTunnel(t), t)
<1> DEFINE Gone(h, s) == {i \in DOMAIN h : h[i] = s}
           a == CloseSource(t, "tun")
           ha == Left(a.hooks, Gone(a.hooks, "tun"))
           b == SetHooks(a, ha)
           c == CloseSource(b, "udp")
           hc == Left(c.hooks, Gone(c.hooks, "udp"))
           u == SetHooks(c, hc)
<1>1. CleanupTunnel(t) = u
  BY DEF CleanupTunnel, Unhook, SetHooks
<1>2. t \in Table /\ t.fdOf \in [Sources -> 0..MaxFd] /\ t.open \in [1..MaxFd -> Sources \cup Users \cup {Free}]
  BY TableFields DEF Held
<1>3. "tun" \in Sources /\ "udp" \in Sources /\ "http" \in Sources
      /\ "ifevent" \in Sources /\ "unix" \in Sources
  BY DEF Sources
<1>4. Held(a) /\ IsClosed(a, t, "tun")
  BY <1>3, CloseSourceHeld
<1>5. a.hooks = t.hooks
  BY <1>4 DEF IsClosed
<1>6. ha \in {<<"http">>, <<"http", "udp">>} /\ (t.hooks = <<"http">> => ha = <<"http">>)
  <2>1. CASE t.hooks = <<"http">>
    <3>1. 1 \notin Gone(t.hooks, "tun")
      BY <2>1
    <3> HIDE DEF Gone
    <3> QED
      BY <1>5, <2>1, <3>1, HooksLeft
  <2>2. CASE t.hooks = <<"http", "udp", "tun">>
    <3>1. 1 \notin Gone(t.hooks, "tun") /\ 2 \notin Gone(t.hooks, "tun") /\ 3 \in Gone(t.hooks, "tun")
      BY <2>2
    <3>2. t.hooks # <<"http">>
      BY <2>2
    <3> HIDE DEF Gone
    <3> QED
      BY <1>5, <2>2, <3>1, <3>2, HooksLeft
  <2> QED
    BY <2>1, <2>2 DEF HooksHeld
<1>7. ha \in Seq(Sources)
  <2>1. <<"http">> \in Seq(Sources) /\ <<"http", "udp">> \in Seq(Sources)
    BY <1>3
  <2> HIDE DEF ha
  <2> QED
    BY <1>6, <2>1
<1> HIDE DEF a, ha
<1>8. Held(b) /\ Beside(b, a) /\ SameFds(b, a) /\ b.hooks = ha /\ b.tasks = a.tasks
  BY <1>4, <1>7, SetHooksHeld
<1> HIDE DEF b
<1>9. Held(c) /\ IsClosed(c, b, "udp")
  BY <1>3, <1>8, CloseSourceHeld
<1>10. c.hooks = ha
  BY <1>8, <1>9 DEF IsClosed
<1>11. hc = <<"http">>
  <2>1. CASE ha = <<"http">>
    <3>1. 1 \notin Gone(ha, "udp")
      BY <2>1
    <3> HIDE DEF Gone
    <3> QED
      BY <1>10, <2>1, <3>1, HooksLeft
  <2>2. CASE ha = <<"http", "udp">>
    <3>1. 1 \notin Gone(ha, "udp") /\ 2 \in Gone(ha, "udp")
      BY <2>2
    <3> HIDE DEF Gone
    <3> QED
      BY <1>10, <2>2, <3>1, HooksLeft
  <2> QED
    BY <1>6, <2>1, <2>2
<1> HIDE DEF c, hc
<1>12. hc \in Seq(Sources)
  BY <1>3, <1>11
<1>13. Held(u) /\ Beside(u, c) /\ SameFds(u, c) /\ u.hooks = hc /\ u.tasks = c.tasks
  BY <1>9, <1>12, SetHooksHeld
<1> HIDE DEF u
<1>14. Beside(u, t)
  BY <1>4, <1>8, <1>9, <1>13 DEF Beside, IsClosed
<1>15. /\ b.fdOf = [t.fdOf EXCEPT !["tun"] = None]
       /\ u.fdOf = [b.fdOf EXCEPT !["udp"] = None]
       /\ b.open = [fd \in 1..MaxFd |-> IF fd = t.fdOf["tun"] THEN Free ELSE t.open[fd]]
       /\ u.open = [fd \in 1..MaxFd |-> IF fd = b.fdOf["udp"] THEN Free ELSE b.open[fd]]
       /\ b.changed <=> t.changed \/ t.fdOf["tun"] # None
       /\ u.changed <=> b.changed \/ b.fdOf["udp"] # None
       /\ u.tasks = t.tasks
  BY <1>4, <1>8, <1>9, <1>13 DEF IsClosed, SameFds
<1>16. u.fdOf = [s \in Sources |-> IF s \in {"udp", "tun"} THEN None ELSE t.fdOf[s]]
       /\ b.fdOf["udp"] = t.fdOf["udp"]
  BY <1>2, <1>3, <1>15
<1>17. u.open = [fd \in 1..MaxFd |-> IF fd \in {t.fdOf["udp"], t.fdOf["tun"]} THEN Free ELSE t.open[fd]]
  BY <1>15, <1>16
<1>18. IsWithoutTunnel(u, t)
  BY <1>11, <1>13, <1>15, <1>16, <1>17 DEF IsWithoutTunnel
<1>19. HooksHeld(u)
  BY <1>3, <1>11, <1>13, <1>16 DEF HooksHeld
<1>20. Noticed(u, t)
  <2>1. t.changed => u.changed
    BY <1>15
  <2>2. ASSUME ~ u.changed
        PROVE  Wanted(u) = Wanted(t)
    <3>1. t.fdOf["udp"] = None /\ t.fdOf["tun"] = None
      BY <1>15, <1>16, <2>2
    <3>2. t.hooks = <<"http">>
      BY <3>1 DEF HooksHeld
    <3>3. u.fdOf = t.fdOf
      BY <1>2, <1>16, <3>1
    <3>4. u.nodes = t.nodes /\ u.hooks = t.hooks
      BY <1>11, <1>13, <1>14, <3>2 DEF Beside
    <3> QED
      BY <3>3, <3>4, SameWanted
  <2> QED
    BY <2>1, <2>2 DEF Noticed
<1> QED
  BY <1>1, <1>13, <1>14, <1>18, <1>19, <1>20

(* set_fd_hook() after socket() or open().                                   *)
LEMMA HookHeld ==
  ASSUME NEW t, Held(t), NEW s \in Sources, t.fdOf[s] = None
  PROVE  /\ Held(Hook(t, s)) /\ Beside(Hook(t, s), t) /\ Hook(t, s).changed
         /\ IsLowest(Lowest(t), t)
         /\ Hook(t, s).open = [t.open EXCEPT ![Lowest(t)] = s]
         /\ Hook(t, s).fdOf = [t.fdOf EXCEPT ![s] = Lowest(t)]
         /\ Hook(t, s).hooks = Append(t.hooks, s) /\ Hook(t, s).tasks = t.tasks
<1> DEFINE a == OpenSource(t, s)
           h == Append(a.hooks, s)
           u == SetHooks(a, h)
<1>1. Hook(t, s) = u
  BY DEF Hook, SetHooks
<1>2. Held(a) /\ IsOpened(a, t, s, Lowest(t)) /\ IsLowest(Lowest(t), t)
  BY OpenSourceHeld
<1>3. a.hooks = t.hooks /\ t.hooks \in Seq(Sources)
  BY <1>2, TableFields DEF IsOpened, Held
<1>4. h \in Seq(Sources)
  BY <1>3
<1> HIDE DEF a, h
<1>5. Held(u) /\ Beside(u, a) /\ SameFds(u, a) /\ u.hooks = h /\ u.tasks = a.tasks
  BY <1>2, <1>4, SetHooksHeld
<1> HIDE DEF u
<1>6. Beside(u, t) /\ u.changed /\ u.open = [t.open EXCEPT ![Lowest(t)] = s]
      /\ u.fdOf = [t.fdOf EXCEPT ![s] = Lowest(t)] /\ u.tasks = t.tasks
  BY <1>2, <1>5 DEF Beside, SameFds, IsOpened
<1>7. u.hooks = Append(t.hooks, s)
  BY <1>3, <1>5 DEF h
<1> QED
  BY <1>1, <1>2, <1>5, <1>6, <1>7

(* Short lists, element by element.                                          *)
LEMMA AppendToOne ==
  ASSUME NEW S, NEW x \in S, NEW y \in S
  PROVE  Append(<<x>>, y) = <<x, y>>
<1> DEFINE a == Append(<<x>>, y)
           b == <<x, y>>
<1>1. a \in Seq(S) /\ Len(a) = 2 /\ a[1] = x /\ a[2] = y
  OBVIOUS
<1>2. b \in Seq(S) /\ Len(b) = 2 /\ b[1] = x /\ b[2] = y
  OBVIOUS
<1> HIDE DEF a, b
<1>3. a = b
  <2>1. \A i \in 1..2 : i = 1 \/ i = 2
    OBVIOUS
  <2> QED
    BY <1>1, <1>2, <2>1, SeqEqual
<1> QED
  BY <1>3 DEF a, b

LEMMA AppendToTwo ==
  ASSUME NEW S, NEW x \in S, NEW y \in S, NEW z \in S
  PROVE  Append(<<x, y>>, z) = <<x, y, z>>
<1> DEFINE a == Append(<<x, y>>, z)
           b == <<x, y, z>>
<1>1. a \in Seq(S) /\ Len(a) = 3 /\ a[1] = x /\ a[2] = y /\ a[3] = z
  OBVIOUS
<1>2. b \in Seq(S) /\ Len(b) = 3 /\ b[1] = x /\ b[2] = y /\ b[3] = z
  OBVIOUS
<1> HIDE DEF a, b
<1>3. a = b
  <2>1. \A i \in 1..3 : i = 1 \/ i = 2 \/ i = 3
    OBVIOUS
  <2> QED
    BY <1>1, <1>2, <2>1, SeqEqual
<1> QED
  BY <1>3 DEF a, b

(* gwc_init(): the tunnel's two descriptors are hooked one after the other.  *)
LEMMA InitTunnelHeld ==
  ASSUME NEW t, Held(t), HooksHeld(t)
  PROVE  /\ Held(InitTunnel(t)) /\ HooksHeld(InitTunnel(t)) /\ InitTunnel(t).tasks = t.tasks
         /\ Beside(InitTunnel(t), t) /\ InitTunnel(t).changed
<1> DEFINE a == CleanupTunnel(t)
           b == Hook(a, "udp")
           u == Hook(b, "tun")
           f == Lowest(a)
           g == Lowest(b)
<1>1. InitTunnel(t) = u
  BY DEF InitTunnel
<1>2. Held(a) /\ HooksHeld(a) /\ IsWithoutTunnel(a, t) /\ Beside(a, t)
  BY CleanupTunnelHeld
<1>3. "tun" \in Sources /\ "udp" \in Sources /\ "http" \in Sources
      /\ "ifevent" \in Sources /\ "unix" \in Sources
  BY DEF Sources
<1>4. a.fdOf["udp"] = None /\ a.fdOf["tun"] = None /\ a.hooks = <<"http">> /\ a.tasks = t.tasks
  BY <1>2, <1>3 DEF IsWithoutTunnel
<1>5. a.fdOf \in [Sources -> 0..MaxFd] /\ a.open \in [1..MaxFd -> Sources \cup Users \cup {Free}]
      /\ a.fdOf["ifevent"] # None /\ a.fdOf["unix"] # None /\ a.fdOf["http"] # None
  BY <1>2, TableFields DEF Held, HooksHeld
<1> HIDE DEF a
<1>6. Held(b) /\ Beside(b, a) /\ IsLowest(f, a)
      /\ b.open = [a.open EXCEPT ![f] = "udp"] /\ b.fdOf = [a.fdOf EXCEPT !["udp"] = f]
      /\ b.hooks = Append(a.hooks, "udp") /\ b.tasks = a.tasks
  BY <1>2, <1>3, <1>4, HookHeld
<1>7. b.fdOf["tun"] = None
  BY <1>3, <1>4, <1>5, <1>6
<1> HIDE DEF b, f
<1>8. Held(u) /\ Beside(u, b) /\ IsLowest(g, b) /\ u.changed
      /\ u.fdOf = [b.fdOf EXCEPT !["tun"] = g]
      /\ u.hooks = Append(b.hooks, "tun") /\ u.tasks = b.tasks
  BY <1>3, <1>6, <1>7, HookHeld
<1> HIDE DEF u, g
<1>9. f \in 1..MaxFd /\ g \in 1..MaxFd /\ f < g
  <2>1. f \in 1..MaxFd /\ a.open[f] = Free /\ \A x \in 1..MaxFd : a.open[x] = Free => f <= x
    BY <1>6 DEF IsLowest
  <2>2. g \in 1..MaxFd /\ b.open[g] = Free
    BY <1>8 DEF IsLowest
  <2>3. g # f /\ a.open[g] = Free
    <3>1. "udp" # Free
      BY DEF Free
    <3> QED
      BY <1>5, <1>6, <2>1, <2>2, <3>1
  <2> QED
    BY <2>1, <2>2, <2>3
<1>10. \A s \in Sources : u.fdOf[s] = IF s = "tun" THEN g ELSE IF s = "udp" THEN f ELSE a.fdOf[s]
  BY <1>5, <1>6, <1>8
<1>11. u.hooks = <<"http", "udp", "tun">>
  <2>1. Append(<<"http">>, "udp") = <<"http", "udp">>
    BY <1>3, AppendToOne
  <2>2. Append(<<"http", "udp">>, "tun") = <<"http", "udp", "tun">>
    BY <1>3, AppendToTwo
  <2>3. u.hooks = Append(Append(<<"http">>, "udp"), "tun")
    BY <1>4, <1>6, <1>8, Zenon
  <2> QED
    BY <2>1, <2>2, <2>3, Zenon
<1>12. HooksHeld(u)
  <2>1. u.fdOf["ifevent"] # None /\ u.fdOf["unix"] # None /\ u.fdOf["http"] # None
    BY <1>3, <1>5, <1>10
  <2>2. u.fdOf["udp"] = f /\ u.fdOf["tun"] = g
    BY <1>3, <1>10
  <2> QED
    BY <1>9, <1>11, <2>1, <2>2 DEF HooksHeld, None
<1>13. Beside(u, t) /\ u.tasks = t.tasks
  BY <1>2, <1>4, <1>6, <1>8 DEF Beside
<1> QED
  BY <1>1, <1>8, <1>12, <1>13

(* check_interfaces(): the device comes or goes, and the task is there again.*)
LEMMA CheckedIfsHeld ==
  ASSUME NEW t, Held(t), HooksHeld(t), NEW missing \in SUBSET {"check_interfaces"},
         TasksFit(t.tasks, missing), NEW up
  PROVE  /\ Held(CheckedIfs(t, up)) /\ HooksHeld(CheckedIfs(t, up))
         /\ TasksFit(CheckedIfs(t, up).tasks, {})
         /\ Beside(CheckedIfs(t, up), t) /\ Noticed(CheckedIfs(t, up), t)
<1> DEFINE a == IF up /\ t.fdOf["dev"] = None THEN OpenSource(t, "dev")
                ELSE IF ~ up THEN CloseSource(t, "dev") ELSE t
           due == Period["check_interfaces"]
           ts == Register(RemoveTask(a.tasks, "check_interfaces"), "check_interfaces", due)
           u == SetTasks(a, ts)
<1>1. CheckedIfs(t, up) = u
  BY DEF CheckedIfs, SetTasks
<1>2. \A s \in {"dev", "tun", "udp", "http", "ifevent", "unix"} : s \in Sources
  BY DEF Sources
<1>3. t.fdOf \in [Sources -> 0..MaxFd]
  BY TableFields DEF Held
<1>4. /\ Held(a) /\ Beside(a, t) /\ a.hooks = t.hooks /\ a.tasks = t.tasks
      /\ \A s \in Sources \ {"dev"} : a.fdOf[s] = t.fdOf[s]
      /\ (t.changed => a.changed) /\ (~ a.changed => a.fdOf = t.fdOf)
  <2>1. CASE up /\ t.fdOf["dev"] = None
    <3>1. a = OpenSource(t, "dev")
      BY <2>1
    <3> HIDE DEF a
    <3>2. Held(a) /\ IsOpened(a, t, "dev", Lowest(t))
      BY <1>2, <2>1, <3>1, OpenSourceHeld
    <3> QED
      BY <1>2, <1>3, <3>2 DEF IsOpened
  <2>2. CASE ~ up
    <3>1. a = CloseSource(t, "dev")
      BY <2>2
    <3> HIDE DEF a
    <3>2. Held(a) /\ IsClosed(a, t, "dev")
      BY <1>2, <3>1, CloseSourceHeld
    <3>3. a.fdOf = [t.fdOf EXCEPT !["dev"] = None] /\ (a.changed <=> t.changed \/ t.fdOf["dev"] # None)
      BY <3>2 DEF IsClosed
    <3>4. t.fdOf["dev"] = None => a.fdOf = t.fdOf
      BY <1>2, <1>3, <3>3
    <3>5. \A s \in Sources \ {"dev"} : a.fdOf[s] = t.fdOf[s]
      BY <1>2, <1>3, <3>3
    <3> QED
      BY <3>2, <3>3, <3>4, <3>5 DEF IsClosed
  <2>3. CASE up /\ t.fdOf["dev"] # None
    BY <2>3 DEF Beside
  <2> QED
    BY <2>1, <2>2, <2>3
<1> HIDE DEF a
<1>5. due \in Int
  BY LoopAssumption DEF LoopAssumption
<1> HIDE DEF due
<1>6. TasksFit(ts, {})
  <2> DEFINE left == RemoveTask(a.tasks, "check_interfaces")
             all == missing \cup {"check_interfaces"}
  <2>1. "check_interfaces" \in Periodic /\ all = {"check_interfaces"}
    BY DEF Periodic
  <2>2. TasksFit(left, all)
    BY <1>4, <2>1, RemoveTaskFits
  <2>3. "check_interfaces" \in all /\ all \ {"check_interfaces"} = {}
    BY <2>1
  <2> HIDE DEF left, all
  <2>4. TasksFit(Register(left, "check_interfaces", due), all \ {"check_interfaces"})
    BY <1>5, <2>1, <2>2, <2>3, RegisterFits
  <2> QED
    BY <2>3, <2>4 DEF left
<1>7. ts \in Seq(Task)
  BY <1>6 DEF TasksFit
<1> HIDE DEF ts
<1>8. Held(u) /\ Beside(u, a) /\ SameFds(u, a) /\ u.hooks = a.hooks /\ u.tasks = ts
  BY <1>4, <1>7, SetTasksHeld
<1> HIDE DEF u
<1>9. Beside(u, t) /\ u.hooks = t.hooks
  BY <1>4, <1>8 DEF Beside
<1>10. HooksHeld(u)
  <2>1. \A s \in Sources \ {"dev"} : u.fdOf[s] = t.fdOf[s]
    BY <1>4, <1>8 DEF SameFds
  <2>2. u.fdOf["ifevent"] = t.fdOf["ifevent"] /\ u.fdOf["unix"] = t.fdOf["unix"]
        /\ u.fdOf["http"] = t.fdOf["http"] /\ u.fdOf["udp"] = t.fdOf["udp"]
        /\ u.fdOf["tun"] = t.fdOf["tun"]
    BY <1>2, <2>1
  <2> QED
    BY <1>9, <2>2 DEF HooksHeld
<1>11. Noticed(u, t)
  <2>1. (t.changed => u.changed) /\ (~ u.changed => u.fdOf = t.fdOf)
    BY <1>4, <1>8 DEF SameFds
  <2>2. ASSUME ~ u.changed PROVE Wanted(u) = Wanted(t)
    BY <1>9, <2>1, <2>2, SameWanted DEF Beside
  <2> QED
    BY <2>1, <2>2 DEF Noticed
<1> QED
  BY <1>1, <1>6, <1>8, <1>9, <1>10, <1>11

(* The tables the daemon starts with.                                        *)
LEMMA StartHeld ==
  Held(Start) /\ HooksHeld(Start) /\ TasksFit(Start.tasks, {}) /\ Start.changed
<1> DEFINE empty == [open |-> [fd \in 1..MaxFd |-> Free], fdOf |-> NoFds, hooks |-> <<>>,
                     nodes |-> <<>>, changed |-> TRUE, tasks |-> <<>>,
                     conn |-> [u \in Users |-> "none"], sent |-> [u \in Users |-> "nothing"]]
           a == OpenSource(empty, "ifevent")
           b == OpenSource(a, "unix")
           c == OpenSource(b, "dev")
           d == Hook(c, "http")
           one == Register(<<>>, "choose_gw", Period["choose_gw"])
           ts == Register(one, "check_interfaces", Period["check_interfaces"])
<1>1. Start = SetTasks(d, ts)
  BY DEF Start, SetTasks
<1>2. \A s \in {"dev", "tun", "udp", "http", "ifevent", "unix"} : s \in Sources
  BY DEF Sources
<1>3. Held(empty)
  <2>1. empty \in Table
    <3>1. [fd \in 1..MaxFd |-> Free] \in [1..MaxFd -> Sources \cup Users \cup {Free}]
      OBVIOUS
    <3>2. NoFds \in [Sources -> 0..MaxFd]
      BY NamesDiffer DEF NoFds, None
    <3>3. [u \in Users |-> "none"] \in [Users -> {"none", "queued", "open"}]
          /\ [u \in Users |-> "nothing"] \in [Users -> Sent]
      BY DEF Sent
    <3>4. <<>> \in Seq(Sources) /\ <<>> \in Seq(Node) /\ <<>> \in Seq(Task) /\ TRUE \in BOOLEAN
      OBVIOUS
    <3> QED
      BY <3>1, <3>2, <3>3, <3>4 DEF Table
  <2>2. SourcesHeld(empty)
    BY NamesDiffer DEF SourcesHeld, NoFds
  <2>3. NodesHeld(empty)
    BY NamesDiffer DEF NodesHeld
  <2>4. Room(empty)
    <3>1. Waiting(empty.conn) = {}
      BY DEF Waiting
    <3>2. Len(empty.nodes) = 0 /\ Cardinality({}) = 0 /\ MaxNodes \in Nat
      BY FS_EmptySet, LoopAssumption DEF LoopAssumption
    <3> QED
      BY <3>1, <3>2 DEF Room
  <2>5. UsersKept(empty)
    BY DEF UsersKept, Users
  <2> QED
    BY <2>1, <2>2, <2>3, <2>4, <2>5 DEF Held
<1>4. empty.fdOf = [s \in Sources |-> None] /\ empty.hooks = <<>>
  BY DEF NoFds
<1> HIDE DEF empty
<1>5. Held(a) /\ IsOpened(a, empty, "ifevent", Lowest(empty)) /\ IsLowest(Lowest(empty), empty)
  BY <1>2, <1>3, <1>4, OpenSourceHeld
<1> HIDE DEF a
<1>6. a.fdOf = [empty.fdOf EXCEPT !["ifevent"] = Lowest(empty)] /\ Lowest(empty) # None
      /\ a.hooks = <<>>
  BY <1>4, <1>5 DEF IsOpened, IsLowest, None
<1>7. Held(b) /\ IsOpened(b, a, "unix", Lowest(a)) /\ IsLowest(Lowest(a), a)
  <2>1. a.fdOf["unix"] = None
    BY <1>2, <1>4, <1>6
  <2> QED
    BY <1>2, <1>5, <2>1, OpenSourceHeld
<1> HIDE DEF b
<1>8. b.fdOf = [a.fdOf EXCEPT !["unix"] = Lowest(a)] /\ Lowest(a) # None /\ b.hooks = <<>>
  BY <1>6, <1>7 DEF IsOpened, IsLowest, None
<1>9. Held(c) /\ IsOpened(c, b, "dev", Lowest(b))
  <2>1. b.fdOf["dev"] = None
    BY <1>2, <1>4, <1>6, <1>8
  <2> QED
    BY <1>2, <1>7, <2>1, OpenSourceHeld
<1> HIDE DEF c
<1>10. c.fdOf = [b.fdOf EXCEPT !["dev"] = Lowest(b)] /\ c.hooks = <<>>
  BY <1>8, <1>9 DEF IsOpened
<1>11. Held(d) /\ d.changed /\ IsLowest(Lowest(c), c) /\ d.fdOf = [c.fdOf EXCEPT !["http"] = Lowest(c)]
       /\ d.hooks = Append(c.hooks, "http")
  <2>1. c.fdOf["http"] = None
    BY <1>2, <1>4, <1>6, <1>8, <1>10
  <2> QED
    BY <1>2, <1>9, <2>1, HookHeld
<1> HIDE DEF d
<1>12. HooksHeld(d)
  <2>1. d.hooks = <<"http">>
    BY <1>10, <1>11
  <2>2. Lowest(c) # None
    BY <1>11 DEF IsLowest, None
  <2>3. /\ d.fdOf["ifevent"] = Lowest(empty) /\ d.fdOf["unix"] = Lowest(a)
        /\ d.fdOf["http"] = Lowest(c) /\ d.fdOf["udp"] = None /\ d.fdOf["tun"] = None
    BY <1>2, <1>4, <1>6, <1>8, <1>10, <1>11
  <2> QED
    BY <1>6, <1>8, <2>1, <2>2, <2>3 DEF HooksHeld
<1>13. TasksFit(ts, {})
  <2>1. TasksFit(<<>>, Periodic)
    BY DEF TasksFit, InOrder, Absent
  <2>2. "choose_gw" \in Periodic /\ "check_interfaces" \in Periodic
        /\ Period["choose_gw"] \in Int /\ Period["check_interfaces"] \in Int
    BY LoopAssumption DEF LoopAssumption, Periodic
  <2>3. TasksFit(one, Periodic \ {"choose_gw"})
    BY <2>1, <2>2, RegisterFits
  <2> HIDE DEF one
  <2> DEFINE rest == Periodic \ {"choose_gw"}
  <2>4. "check_interfaces" \in rest /\ rest \ {"check_interfaces"} = {}
    BY DEF Periodic
  <2> HIDE DEF rest
  <2>5. TasksFit(ts, rest \ {"check_interfaces"})
    BY <2>2, <2>3, <2>4, RegisterFits DEF rest
  <2> QED
    BY <2>4, <2>5
<1> HIDE DEF ts
<1>14. Held(SetTasks(d, ts)) /\ SameFds(SetTasks(d, ts), d)
       /\ SetTasks(d, ts).hooks = d.hooks /\ SetTasks(d, ts).tasks = ts
  <2>1. ts \in Seq(Task)
    BY <1>13 DEF TasksFit
  <2> QED
    BY <1>11, <2>1, SetTasksHeld
<1>15. HooksHeld(SetTasks(d, ts)) /\ SetTasks(d, ts).changed
  BY <1>11, <1>12, <1>14 DEF HooksHeld, SameFds
<1> QED
  BY <1>1, <1>13, <1>14, <1>15

-----------------------------------------------------------------------------
(* Connections are accepted and closed.                                      *)

(* The nodes of a list stay where they are.                                  *)
Stay(ns, old) == \A i \in DOMAIN old : ns[i] = old[i]

(* accept() takes the lowest descriptor for a user that waits.               *)
LEMMA AcceptHeld ==
  ASSUME NEW t, Held(t), NEW u \in Users, t.conn[u] = "queued"
  PROVE  /\ Held(Accept(t, u)) /\ IsLowest(Lowest(t), t) /\ Accept(t, u).changed
         /\ Accept(t, u).open = [t.open EXCEPT ![Lowest(t)] = u]
         /\ Accept(t, u).conn = [t.conn EXCEPT ![u] = "open"]
         /\ Accept(t, u).fdOf = t.fdOf /\ Accept(t, u).hooks = t.hooks
         /\ Accept(t, u).tasks = t.tasks /\ Accept(t, u).sent = t.sent
         /\ Len(Accept(t, u).nodes) = Len(t.nodes) + 1
         /\ Accept(t, u).nodes[Len(t.nodes) + 1].fd = Lowest(t)
         /\ Stay(Accept(t, u).nodes, t.nodes)
<1> DEFINE a == Accept(t, u)
           fd == Lowest(t)
           n == Len(t.nodes)
           new == [user |-> u, fd |-> fd, closing |-> IF u \in Browsers THEN 0 ELSE -1]
<1>1. t \in Table /\ SourcesHeld(t) /\ NodesHeld(t) /\ Room(t) /\ UsersKept(t)
  BY DEF Held
<1>2. IsLowest(fd, t)
  BY FreeOne
<1>3. fd \in 1..MaxFd /\ t.open[fd] = Free /\ fd # None
  BY <1>2 DEF IsLowest, None
<1>4. a = [t EXCEPT !.open[fd] = u, !.conn[u] = "open", !.changed = TRUE,
                    !.nodes = Append(t.nodes, new)]
  BY DEF Accept
<1>5. new \in Node /\ new.user = u /\ new.fd = fd /\ (u \in Clients => new.closing = -1)
  <2>1. u \in Clients => u \notin Browsers
    BY LoopAssumption DEF LoopAssumption
  <2> QED
    BY <1>3, <2>1 DEF Node
<1> HIDE DEF a, fd, new
<1>6. /\ t.open \in [1..MaxFd -> Sources \cup Users \cup {Free}] /\ t.fdOf \in [Sources -> 0..MaxFd]
      /\ t.nodes \in Seq(Node) /\ t.conn \in [Users -> {"none", "queued", "open"}]
      /\ n \in Nat /\ DOMAIN t.nodes = 1..n
  BY <1>1, TableFields
<1>7. /\ [t.open EXCEPT ![fd] = u] \in [1..MaxFd -> Sources \cup Users \cup {Free}]
      /\ [t.conn EXCEPT ![u] = "open"] \in [Users -> {"none", "queued", "open"}]
      /\ Append(t.nodes, new) \in Seq(Node)
  BY <1>3, <1>5, <1>6
<1>8. /\ a \in Table
      /\ a.open = [t.open EXCEPT ![fd] = u] /\ a.conn = [t.conn EXCEPT ![u] = "open"] /\ a.changed
      /\ a.nodes = Append(t.nodes, new)
      /\ a.fdOf = t.fdOf /\ a.hooks = t.hooks /\ a.tasks = t.tasks /\ a.sent = t.sent
  BY <1>1, <1>4, <1>7 DEF Table
<1>9. /\ Len(a.nodes) = n + 1 /\ DOMAIN a.nodes = 1..(n + 1) /\ a.nodes[n + 1] = new
      /\ \A i \in 1..n : a.nodes[i] = t.nodes[i]
  BY <1>5, <1>6, <1>8
<1>10. \A f \in 1..MaxFd : a.open[f] = IF f = fd THEN u ELSE t.open[f]
  <2>1. t.open \in [1..MaxFd -> Sources \cup Users \cup {Free}]
    BY <1>6
  <2>2. a.open = [t.open EXCEPT ![fd] = u]
    BY <1>8
  <2> QED
    BY <2>1, <2>2
<1>11. \A v \in Users : a.conn[v] = IF v = u THEN "open" ELSE t.conn[v]
  BY <1>6, <1>8
<1> HIDE DEF n
<1>12. SourcesHeld(a)
  <2>1. ASSUME NEW s \in Sources, t.fdOf[s] # None PROVE a.open[t.fdOf[s]] = s
    <3>1. t.fdOf[s] \in 1..MaxFd /\ t.open[t.fdOf[s]] = s
      BY <1>1, <1>6, <2>1, NamesDiffer DEF SourcesHeld, None
    <3> QED
      BY <1>3, <1>10, <3>1, NamesDiffer
  <2>2. ASSUME NEW f \in 1..MaxFd, a.open[f] \in Sources PROVE t.fdOf[a.open[f]] = f
    BY <1>1, <1>10, <2>2, NamesDiffer DEF SourcesHeld
  <2> QED
    BY <1>8, <2>1, <2>2 DEF SourcesHeld
<1>13. \A i \in 1..n : t.nodes[i].fd # None =>
          t.nodes[i].fd \in 1..MaxFd /\ t.open[t.nodes[i].fd] = t.nodes[i].user
          /\ t.nodes[i].user \in Users /\ t.conn[t.nodes[i].user] = "open"
          /\ t.nodes[i].user # u /\ t.nodes[i].fd # fd
  <2> SUFFICES ASSUME NEW i \in 1..n, t.nodes[i].fd # None
               PROVE  /\ t.nodes[i].fd \in 1..MaxFd /\ t.open[t.nodes[i].fd] = t.nodes[i].user
                      /\ t.nodes[i].user \in Users /\ t.conn[t.nodes[i].user] = "open"
                      /\ t.nodes[i].user # u /\ t.nodes[i].fd # fd
    OBVIOUS
  <2>1. t.nodes[i].fd \in 0..MaxFd /\ t.nodes[i].user \in Users
    BY <1>1, <1>6, TableFields
  <2>2. t.nodes[i].fd \in 1..MaxFd
    BY <2>1, NamesDiffer DEF None
  <2>3. t.open[t.nodes[i].fd] = t.nodes[i].user /\ t.conn[t.nodes[i].user] = "open"
    BY <1>1, <1>6 DEF NodesHeld
  <2> QED
    BY <1>3, <2>1, <2>2, <2>3, NamesDiffer
<1>14. NodesHeld(a)
  <2>1. ASSUME NEW i \in 1..(n + 1), a.nodes[i].fd # None
        PROVE  a.open[a.nodes[i].fd] = a.nodes[i].user /\ a.conn[a.nodes[i].user] = "open"
    <3>1. CASE i = n + 1
      BY <1>3, <1>5, <1>9, <1>10, <1>11, <3>1
    <3>2. CASE i # n + 1
      <4>1. i \in 1..n /\ a.nodes[i] = t.nodes[i]
        BY <1>6, <1>9, <3>2
      <4> QED
        BY <1>10, <1>11, <1>13, <2>1, <4>1
    <3> QED
      BY <3>1, <3>2
  <2>2. ASSUME NEW f \in 1..MaxFd, a.open[f] \in Users
        PROVE  \E i \in 1..(n + 1) : a.nodes[i].fd = f
    <3>1. CASE f = fd
      <4>1. n + 1 \in 1..(n + 1)
        BY <1>6
      <4> QED
        BY <1>5, <1>9, <3>1, <4>1
    <3>2. CASE f # fd
      <4>1. t.open[f] \in Users
        BY <1>10, <2>2, <3>2
      <4>2. PICK i \in 1..n : t.nodes[i].fd = f
        BY <1>1, <1>6, <4>1 DEF NodesHeld
      <4>3. i \in 1..(n + 1)
        BY <1>6
      <4> QED
        BY <1>9, <4>2, <4>3
    <3> QED
      BY <3>1, <3>2
  <2>3. ASSUME NEW i \in 1..(n + 1), NEW j \in 1..(n + 1),
               a.nodes[i].fd # None, a.nodes[j].fd # None, a.nodes[i].user = a.nodes[j].user
        PROVE  i = j
    <3>1. \A k \in 1..(n + 1) : k # n + 1 => k \in 1..n /\ a.nodes[k] = t.nodes[k]
      BY <1>6, <1>9
    <3>2. CASE i = n + 1 /\ j # n + 1
      BY <1>5, <1>9, <1>13, <2>3, <3>1, <3>2
    <3>3. CASE i # n + 1 /\ j = n + 1
      BY <1>5, <1>9, <1>13, <2>3, <3>1, <3>3
    <3>4. CASE i # n + 1 /\ j # n + 1
      BY <1>1, <1>6, <2>3, <3>1, <3>4 DEF NodesHeld
    <3> QED
      BY <3>2, <3>3, <3>4
  <2> QED
    BY <1>9, <2>1, <2>2, <2>3 DEF NodesHeld
<1>15. Room(a)
  <2> DEFINE W == Waiting(t.conn)
  <2>1. Waiting(a.conn) = W \ {u} /\ u \in W /\ W \in SUBSET Users
    BY <1>11 DEF Waiting
  <2>2. n + Cardinality(W) <= MaxNodes
    BY <1>1 DEF Room, n
  <2> HIDE DEF W
  <2>3. IsFiniteSet(W)
    BY <2>1, NamesDiffer, FS_Subset
  <2>4. Cardinality(W) \in Nat /\ Cardinality(W \ {u}) = Cardinality(W) - 1
    BY <2>1, <2>3, FS_CardinalityType, FS_RemoveElement
  <2>5. MaxNodes \in Nat
    BY LoopAssumption DEF LoopAssumption
  <2> QED
    BY <1>6, <1>9, <2>1, <2>2, <2>4, <2>5 DEF Room
<1>16. UsersKept(a)
  <2>1. ASSUME NEW i \in 1..(n + 1), a.nodes[i].fd # None, a.nodes[i].user \in Clients
        PROVE  a.nodes[i].closing = -1
    <3>1. CASE i = n + 1
      BY <1>5, <1>9, <2>1, <3>1
    <3>2. CASE i # n + 1
      <4>1. i \in 1..n /\ a.nodes[i] = t.nodes[i]
        BY <1>6, <1>9, <3>2
      <4> QED
        BY <1>1, <1>6, <2>1, <4>1 DEF UsersKept
    <3> QED
      BY <3>1, <3>2
  <2> QED
    BY <1>1, <1>8, <1>9, <2>1 DEF UsersKept
<1>17. Held(a)
  BY <1>8, <1>12, <1>14, <1>15, <1>16 DEF Held
<1>18. /\ a.nodes[n + 1].fd = fd
       /\ \A i \in DOMAIN t.nodes : a.nodes[i] = t.nodes[i]
  BY <1>5, <1>6, <1>9
<1> QED
  BY <1>2, <1>8, <1>9, <1>17, <1>18 DEF a, fd, n, Stay

SetNodes(t, ns) == [t EXCEPT !.nodes = ns]

(* The nodes of the list ns are those of old that are not closed, in place e,*)
(* and at most empty ones besides.                                           *)
FollowsAt(ns, old, closed, e) ==
  /\ ns \in Seq(Node) /\ Len(ns) <= Len(old)
  /\ e \in [DOMAIN ns -> DOMAIN old]
  /\ \A k, l \in DOMAIN ns : e[k] = e[l] => k = l
  /\ \A k \in DOMAIN ns : ns[k].fd # None => e[k] \notin closed /\ ns[k] = old[e[k]]
  /\ \A i \in DOMAIN old : i \notin closed => \E k \in DOMAIN ns : ns[k] = old[i]
Follows(ns, old, closed) == \E e : FollowsAt(ns, old, closed, e)

(* The users whose connections are closed with these nodes.                  *)
Whose(t, closed) == {t.nodes[i].user : i \in {j \in closed : t.nodes[j].fd # None}}

(* u is t after these were closed.                                           *)
IsDropped(u, t, closed) ==
  /\ u.conn = Cut(t.conn, Whose(t, closed), "none")
  /\ u.sent = Cut(t.sent, Whose(t, closed), "nothing")
  /\ u.fdOf = t.fdOf /\ u.hooks = t.hooks /\ u.tasks = t.tasks

LEMMA DroppedHeld ==
  ASSUME NEW t, Held(t), NEW closed \in SUBSET DOMAIN t.nodes, NEW ns,
         Follows(ns, t.nodes, closed)
  PROVE  /\ Held(SetNodes(Dropped(t, closed), ns)) /\ IsDropped(SetNodes(Dropped(t, closed), ns), t, closed)
         /\ SetNodes(Dropped(t, closed), ns).nodes = ns
         /\ Noticed(SetNodes(Dropped(t, closed), ns), t)
<1> DEFINE u == SetNodes(Dropped(t, closed), ns)
           still == {i \in closed : t.nodes[i].fd # None}
           fds == {t.nodes[i].fd : i \in still}
           whose == Whose(t, closed)
           old == t.nodes
<1>1. t \in Table /\ SourcesHeld(t) /\ NodesHeld(t) /\ Room(t) /\ UsersKept(t)
  BY DEF Held
<1>2. PICK e : FollowsAt(ns, old, closed, e)
  BY DEF Follows
<1>3. /\ ns \in Seq(Node) /\ Len(ns) <= Len(old) /\ Len(ns) \in Nat
      /\ e \in [DOMAIN ns -> DOMAIN old]
      /\ \A k, l \in DOMAIN ns : e[k] = e[l] => k = l
      /\ \A k \in DOMAIN ns : ns[k].fd # None => e[k] \notin closed /\ ns[k] = old[e[k]]
      /\ \A i \in DOMAIN old : i \notin closed => \E k \in DOMAIN ns : ns[k] = old[i]
  BY <1>2 DEF FollowsAt
<1>4. /\ t.open \in [1..MaxFd -> Sources \cup Users \cup {Free}] /\ t.fdOf \in [Sources -> 0..MaxFd]
      /\ t.conn \in [Users -> {"none", "queued", "open"}] /\ t.sent \in [Users -> Sent]
      /\ t.changed \in BOOLEAN
      /\ Len(old) \in Nat
      /\ \A i \in DOMAIN old : old[i].user \in Users /\ old[i].fd \in 0..MaxFd
  BY <1>1, TableFields
<1>5. /\ \A i \in DOMAIN old : old[i].fd # None =>
           old[i].fd \in 1..MaxFd /\ t.open[old[i].fd] = old[i].user /\ t.conn[old[i].user] = "open"
      /\ \A i, j \in DOMAIN old :
           old[i].fd # None /\ old[j].fd # None /\ old[i].user = old[j].user => i = j
  BY <1>1, <1>4, NamesDiffer DEF NodesHeld, None
<1>6. /\ \A fd : fd \in fds <=> \E i \in closed : old[i].fd # None /\ old[i].fd = fd
      /\ \A v : v \in whose <=> \E i \in closed : old[i].fd # None /\ old[i].user = v
      /\ still # {} <=> \E i \in closed : old[i].fd # None
      /\ closed \subseteq DOMAIN old
  BY DEF Whose
<1>7. /\ Cut(t.open, fds, Free) \in [1..MaxFd -> Sources \cup Users \cup {Free}]
      /\ \A fd \in 1..MaxFd : Cut(t.open, fds, Free)[fd] = IF fd \in fds THEN Free ELSE t.open[fd]
  <2>1. Free \in Sources \cup Users \cup {Free}
    OBVIOUS
  <2> HIDE DEF fds
  <2> QED
    BY <1>4, <2>1 DEF Cut
<1>8. /\ Cut(t.conn, whose, "none") \in [Users -> {"none", "queued", "open"}]
      /\ \A v \in Users : Cut(t.conn, whose, "none")[v] = IF v \in whose THEN "none" ELSE t.conn[v]
  <2>1. "none" \in {"none", "queued", "open"}
    OBVIOUS
  <2> HIDE DEF whose
  <2> QED
    BY <1>4, <2>1 DEF Cut
<1>9. /\ Cut(t.sent, whose, "nothing") \in [Users -> Sent]
      /\ \A v \in Users : Cut(t.sent, whose, "nothing")[v] = IF v \in whose THEN "nothing" ELSE t.sent[v]
  <2>1. "nothing" \in Sent
    BY DEF Sent
  <2> HIDE DEF whose
  <2> QED
    BY <1>4, <2>1 DEF Cut
<1>10. u = [t EXCEPT !.open = Cut(t.open, fds, Free), !.conn = Cut(t.conn, whose, "none"),
                     !.sent = Cut(t.sent, whose, "nothing"), !.changed = t.changed \/ still # {},
                     !.nodes = ns]
  <2> DEFINE d == Dropped(t, closed)
  <2>1. d = [t EXCEPT !.open = Cut(t.open, fds, Free), !.conn = Cut(t.conn, whose, "none"),
                      !.sent = Cut(t.sent, whose, "nothing"), !.changed = t.changed \/ still # {}]
    BY DEF Dropped, Whose
  <2>2. u = [d EXCEPT !.nodes = ns]
    BY DEF SetNodes
  <2> HIDE DEF d, u, fds, whose, still
  <2> QED
    BY <2>1, <2>2
<1> HIDE DEF u, fds, whose, still
<1>11. /\ u \in Table
       /\ u.open = Cut(t.open, fds, Free) /\ u.conn = Cut(t.conn, whose, "none")
       /\ u.sent = Cut(t.sent, whose, "nothing") /\ (u.changed <=> t.changed \/ still # {})
       /\ u.nodes = ns /\ u.fdOf = t.fdOf /\ u.hooks = t.hooks /\ u.tasks = t.tasks
  BY <1>1, <1>3, <1>4, <1>7, <1>8, <1>9, <1>10 DEF Table
<1>12. /\ \A fd \in 1..MaxFd : u.open[fd] = IF fd \in fds THEN Free ELSE t.open[fd]
       /\ \A v \in Users : u.conn[v] = IF v \in whose THEN "none" ELSE t.conn[v]
       /\ \A v \in Users : u.sent[v] = IF v \in whose THEN "nothing" ELSE t.sent[v]
  BY <1>7, <1>8, <1>9, <1>11
<1>13. \A fd \in fds : fd \in 1..MaxFd /\ t.open[fd] \in Users
  BY <1>4, <1>5, <1>6
<1>14. SourcesHeld(u)
  <2>1. ASSUME NEW s \in Sources, t.fdOf[s] # None PROVE u.open[t.fdOf[s]] = s
    <3>1. t.fdOf[s] \in 1..MaxFd /\ t.open[t.fdOf[s]] = s
      BY <1>1, <1>4, <2>1, NamesDiffer DEF SourcesHeld, None
    <3>2. t.fdOf[s] \notin fds
      BY <1>13, <3>1, NamesDiffer
    <3> QED
      BY <1>12, <3>1, <3>2
  <2>2. ASSUME NEW f \in 1..MaxFd, u.open[f] \in Sources PROVE t.fdOf[u.open[f]] = f
    BY <1>1, <1>12, <2>2, NamesDiffer DEF SourcesHeld
  <2> QED
    BY <1>11, <2>1, <2>2 DEF SourcesHeld
<1>15. NodesHeld(u)
  <2>1. ASSUME NEW k \in DOMAIN ns, ns[k].fd # None
        PROVE  u.open[ns[k].fd] = ns[k].user /\ u.conn[ns[k].user] = "open"
    <3>1. e[k] \in DOMAIN old /\ e[k] \notin closed /\ ns[k] = old[e[k]]
      BY <1>3, <2>1
    <3>2. ns[k].fd \in 1..MaxFd /\ t.open[ns[k].fd] = ns[k].user /\ t.conn[ns[k].user] = "open"
          /\ ns[k].user \in Users
      BY <1>4, <1>5, <2>1, <3>1
    <3>3. ASSUME NEW j \in closed, old[j].fd # None
          PROVE  old[j].fd # ns[k].fd /\ old[j].user # ns[k].user
      <4>1. j \in DOMAIN old /\ j # e[k]
        BY <1>6, <3>1
      <4>2. old[j].user # old[e[k]].user
        BY <1>5, <2>1, <3>1, <3>3, <4>1
      <4> QED
        BY <1>5, <3>1, <3>2, <3>3, <4>1, <4>2
    <3>4. ns[k].fd \notin fds /\ ns[k].user \notin whose
      BY <1>6, <3>3
    <3> QED
      BY <1>12, <3>2, <3>4
  <2>2. ASSUME NEW f \in 1..MaxFd, u.open[f] \in Users
        PROVE  \E k \in DOMAIN ns : ns[k].fd = f
    <3>1. f \notin fds /\ t.open[f] \in Users
      BY <1>12, <2>2, NamesDiffer
    <3>2. PICK i \in DOMAIN old : old[i].fd = f
      BY <1>1, <3>1 DEF NodesHeld
    <3>3. i \notin closed
      BY <1>6, <3>1, <3>2 DEF None
    <3> QED
      BY <1>3, <3>2, <3>3
  <2>3. ASSUME NEW k \in DOMAIN ns, NEW l \in DOMAIN ns,
               ns[k].fd # None, ns[l].fd # None, ns[k].user = ns[l].user
        PROVE  k = l
    <3>1. e[k] \in DOMAIN old /\ e[l] \in DOMAIN old /\ ns[k] = old[e[k]] /\ ns[l] = old[e[l]]
      BY <1>3, <2>3
    <3>2. e[k] = e[l]
      BY <1>5, <2>3, <3>1
    <3> QED
      BY <1>3, <3>2
  <2> QED
    BY <1>11, <2>1, <2>2, <2>3 DEF NodesHeld
<1>16. Room(u)
  <2>1. Waiting(u.conn) = Waiting(t.conn)
    <3>1. \A v \in whose : t.conn[v] = "open"
      BY <1>5, <1>6
    <3>2. \A v \in Users : u.conn[v] = "queued" <=> t.conn[v] = "queued"
      BY <1>12, <3>1
    <3> QED
      BY <3>2 DEF Waiting
  <2> DEFINE c == Cardinality(Waiting(t.conn))
  <2>2. Len(old) + c <= MaxNodes
    BY <1>1 DEF Room
  <2>3. c \in Nat /\ MaxNodes \in Nat
    <3>1. Waiting(t.conn) \in SUBSET Users
      BY DEF Waiting
    <3>2. IsFiniteSet(Waiting(t.conn))
      BY <3>1, NamesDiffer, FS_Subset
    <3> QED
      BY <3>2, FS_CardinalityType, LoopAssumption DEF LoopAssumption
  <2>4. Len(ns) + c <= MaxNodes
    <3> HIDE DEF c
    <3> QED
      BY <1>3, <1>4, <2>2, <2>3
  <2> QED
    BY <1>11, <2>1, <2>4 DEF Room
<1>17. UsersKept(u)
  <2>1. ASSUME NEW k \in DOMAIN ns, ns[k].fd # None, ns[k].user \in Clients
        PROVE  ns[k].closing = -1
    BY <1>1, <1>3, <2>1 DEF UsersKept
  <2>2. \A v \in Browsers : u.sent[v] \in {"nothing", "line"}
    BY <1>1, <1>12 DEF UsersKept, Users
  <2> QED
    BY <1>11, <2>1, <2>2 DEF UsersKept
<1>18. Held(u)
  BY <1>11, <1>14, <1>15, <1>16, <1>17 DEF Held
<1>19. IsDropped(u, t, closed)
  BY <1>11 DEF IsDropped, whose
<1>20. Noticed(u, t)
  <2>1. ASSUME ~ u.changed PROVE Wanted(u) = Wanted(t)
    <3>1. \A i \in closed : old[i].fd = None
      BY <1>6, <1>11, <2>1
    <3> DEFINE wu == {ns[i].fd : i \in {j \in DOMAIN ns : ns[j].fd > 0}}
               wt == {old[i].fd : i \in {j \in DOMAIN old : old[j].fd > 0}}
    <3>2. ASSUME NEW k \in DOMAIN ns, ns[k].fd > 0 PROVE ns[k].fd \in wt
      <4>1. e[k] \in DOMAIN old /\ ns[k] = old[e[k]]
        BY <1>3, <3>2 DEF None
      <4> QED
        BY <3>2, <4>1
    <3>3. ASSUME NEW i \in DOMAIN old, old[i].fd > 0 PROVE old[i].fd \in wu
      <4>1. i \notin closed
        BY <3>1, <3>3 DEF None
      <4>2. PICK k \in DOMAIN ns : ns[k] = old[i]
        BY <1>3, <4>1
      <4> QED
        BY <3>3, <4>2
    <3>4. wu = wt
      BY <3>2, <3>3
    <3> HIDE DEF wu, wt
    <3>5. Wanted(u) = {t.fdOf["ifevent"], t.fdOf["unix"]} \cup wu
                      \cup {fd \in {t.fdOf["dev"]} : fd # None} \cup {t.fdOf[t.hooks[i]] : i \in DOMAIN t.hooks}
      BY <1>11 DEF Wanted, wu
    <3>6. Wanted(t) = {t.fdOf["ifevent"], t.fdOf["unix"]} \cup wt
                      \cup {fd \in {t.fdOf["dev"]} : fd # None} \cup {t.fdOf[t.hooks[i]] : i \in DOMAIN t.hooks}
      BY DEF Wanted, wt
    <3> QED
      BY <3>4, <3>5, <3>6
  <2> QED
    BY <1>11, <2>1 DEF Noticed
<1> QED
  BY <1>11, <1>18, <1>19, <1>20 DEF u

(* What is left of a list follows the list.                                  *)
LEMMA LeftFollows ==
  ASSUME NEW old \in Seq(Node), NEW closed
  PROVE  Follows(Left(old, closed), old, closed)
<1> DEFINE ns == Left(old, closed)
<1>1. ns \in Seq(Node) /\ \E e : LeftOf(ns, old, Len(old), closed, e)
  BY LeftEntries
<1> HIDE DEF ns
<1>2. PICK e : LeftOf(ns, old, Len(old), closed, e)
  BY <1>1
<1>3. /\ DOMAIN ns = 1..Len(ns) /\ DOMAIN old = 1..Len(old) /\ Len(ns) \in Nat /\ Len(old) \in Nat
      /\ e \in [1..Len(ns) -> 1..Len(old)]
      /\ \A m \in 1..Len(ns) : ns[m] = old[e[m]] /\ e[m] \notin closed
      /\ \A m, o \in 1..Len(ns) : m < o => e[m] < e[o]
      /\ \A p \in 1..Len(old) : p \notin closed => \E m \in 1..Len(ns) : e[m] = p
      /\ Len(ns) <= Len(old)
  BY <1>1, <1>2 DEF LeftOf
<1>4. ASSUME NEW k \in DOMAIN ns, NEW l \in DOMAIN ns, e[k] = e[l] PROVE k = l
  <2>1. e[k] \in 1..Len(old) /\ e[l] \in 1..Len(old)
    BY <1>3
  <2>2. ~ (k < l) /\ ~ (l < k)
    BY <1>3, <1>4, <2>1
  <2> QED
    BY <1>3, <2>2
<1>5. ASSUME NEW i \in DOMAIN old, i \notin closed PROVE \E k \in DOMAIN ns : ns[k] = old[i]
  <2>1. PICK m \in 1..Len(ns) : e[m] = i
    BY <1>3, <1>5
  <2>2. m \in DOMAIN ns /\ ns[m] = old[i]
    BY <1>3, <2>1
  <2> QED
    BY <2>2
<1>6. FollowsAt(ns, old, closed, e)
  BY <1>1, <1>3, <1>4, <1>5 DEF FollowsAt
<1> QED
  BY <1>6 DEF Follows, ns

(* close_ctrl_node() at once.                                                *)
LEMMA CloseStraightHeld ==
  ASSUME NEW t, Held(t), NEW i \in DOMAIN t.nodes
  PROVE  /\ Held(CloseStraight(t, i)) /\ IsDropped(CloseStraight(t, i), t, {i})
         /\ CloseStraight(t, i).nodes = Left(t.nodes, {i}) /\ Noticed(CloseStraight(t, i), t)
<1> DEFINE closed == {i}
           ns == Left(t.nodes, closed)
<1>1. t.nodes \in Seq(Node)
  BY TableFields DEF Held
<1>2. CloseStraight(t, i) = SetNodes(Dropped(t, closed), ns)
  <2>1. Dropped(t, closed).nodes = t.nodes
    BY DEF Dropped, Held, Table
  <2> QED
    BY <2>1 DEF CloseStraight, SetNodes
<1>3. closed \in SUBSET DOMAIN t.nodes
  OBVIOUS
<1>4. Follows(ns, t.nodes, closed)
  <2> HIDE DEF closed
  <2> QED
    BY <1>1, LeftFollows
<1> HIDE DEF ns
<1>5. Held(SetNodes(Dropped(t, closed), ns)) /\ IsDropped(SetNodes(Dropped(t, closed), ns), t, closed)
      /\ SetNodes(Dropped(t, closed), ns).nodes = ns /\ Noticed(SetNodes(Dropped(t, closed), ns), t)
  <2> HIDE DEF closed
  <2> QED
    BY <1>3, <1>4, DroppedHeld
<1> QED
  BY <1>2, <1>5 DEF ns

(* The same for all that are overdue.                                        *)
LEMMA CleanupHeld ==
  ASSUME NEW t, Held(t)
  PROVE  LET old == {i \in DOMAIN t.nodes : Overdue(t.nodes[i])}
         IN  /\ Held(Cleanup(t)) /\ IsDropped(Cleanup(t), t, old)
             /\ Cleanup(t).nodes = Left(t.nodes, old) /\ Noticed(Cleanup(t), t)
<1> DEFINE closed == {i \in DOMAIN t.nodes : Overdue(t.nodes[i])}
           ns == Left(t.nodes, closed)
<1>1. t.nodes \in Seq(Node)
  BY TableFields DEF Held
<1>2. Cleanup(t) = SetNodes(Dropped(t, closed), ns)
  <2>1. Dropped(t, closed).nodes = t.nodes
    BY DEF Dropped, Held, Table
  <2> QED
    BY <2>1 DEF Cleanup, SetNodes
<1>3. closed \in SUBSET DOMAIN t.nodes
  OBVIOUS
<1>4. Follows(ns, t.nodes, closed)
  <2> HIDE DEF closed
  <2> QED
    BY <1>1, LeftFollows
<1> HIDE DEF ns
<1>5. Held(SetNodes(Dropped(t, closed), ns)) /\ IsDropped(SetNodes(Dropped(t, closed), ns), t, closed)
      /\ SetNodes(Dropped(t, closed), ns).nodes = ns /\ Noticed(SetNodes(Dropped(t, closed), ns), t)
  <2> HIDE DEF closed
  <2> QED
    BY <1>3, <1>4, DroppedHeld
<1> QED
  BY <1>2, <1>5 DEF ns

(* A connection that was ended: its node is kept, without the descriptor.    *)
LEMMA CloseEndedHeld ==
  ASSUME NEW t, Held(t), NEW i \in DOMAIN t.nodes
  PROVE  /\ Held(CloseEnded(t, i)) /\ IsDropped(CloseEnded(t, i), t, {i})
         /\ Follows(CloseEnded(t, i).nodes, t.nodes, {i}) /\ Noticed(CloseEnded(t, i), t)
<1> DEFINE closed == {i}
           old == t.nodes
           none == [old[i] EXCEPT !.fd = None, !.closing = 0]
           ns == [old EXCEPT ![i] = none]
<1>1. old \in Seq(Node) /\ Len(old) \in Nat /\ DOMAIN old = 1..Len(old)
  BY TableFields DEF Held
<1>2. CloseEnded(t, i) = SetNodes(Dropped(t, closed), ns)
  <2> DEFINE d == Dropped(t, closed)
  <2>1. d.nodes = old
    BY DEF Dropped, Held, Table
  <2>2. CloseEnded(t, i) = [d EXCEPT !.nodes[i] = [d.nodes[i] EXCEPT !.fd = None, !.closing = 0]]
    BY DEF CloseEnded
  <2>3. [d EXCEPT !.nodes[i] = none] = [d EXCEPT !.nodes = [d.nodes EXCEPT ![i] = none]]
    OBVIOUS
  <2>4. CloseEnded(t, i) = [d EXCEPT !.nodes = ns]
    BY <2>1, <2>2, <2>3, Zenon
  <2> QED
    BY <2>4 DEF SetNodes
<1>3. closed \in SUBSET DOMAIN old
  OBVIOUS
<1>4. none \in Node /\ none.fd = None
  <2>1. old[i] \in Node
    BY <1>1
  <2>2. None \in 0..MaxFd
    BY NamesDiffer DEF None
  <2>3. \A x \in Node, n \in 0..MaxFd, m \in Int :
          [x EXCEPT !.fd = n, !.closing = m] \in Node /\ [x EXCEPT !.fd = n, !.closing = m].fd = n
    BY DEF Node
  <2> DEFINE zero == 0
             x == old[i]
  <2>4. zero \in Int
    OBVIOUS
  <2> HIDE DEF zero, x
  <2>5. [x EXCEPT !.fd = None, !.closing = zero] \in Node
        /\ [x EXCEPT !.fd = None, !.closing = zero].fd = None
    BY <2>1, <2>2, <2>3, <2>4 DEF x
  <2> QED
    BY <2>5 DEF zero, x
<1> HIDE DEF none
<1>5. ns \in Seq(Node) /\ Len(ns) = Len(old) /\ DOMAIN ns = DOMAIN old
      /\ ns[i] = none /\ \A k \in DOMAIN old : k # i => ns[k] = old[k]
  BY <1>1, <1>4
<1> HIDE DEF ns
<1>6. Follows(ns, old, closed)
  <2> DEFINE e == [k \in DOMAIN ns |-> k]
  <2>1. e \in [DOMAIN ns -> DOMAIN old] /\ \A k \in DOMAIN ns : e[k] = k
    BY <1>5
  <2> HIDE DEF e
  <2>2. \A k \in DOMAIN ns : ns[k].fd # None => e[k] \notin closed /\ ns[k] = old[e[k]]
    BY <1>4, <1>5, <2>1
  <2>3. \A k, l \in DOMAIN ns : e[k] = e[l] => k = l
    BY <2>1
  <2>4. \A k \in DOMAIN old : k \notin closed => \E l \in DOMAIN ns : ns[l] = old[k]
    BY <1>5
  <2>5. Len(ns) <= Len(old)
    BY <1>1, <1>5
  <2>6. FollowsAt(ns, old, closed, e)
    BY <1>5, <2>1, <2>2, <2>3, <2>4, <2>5 DEF FollowsAt
  <2> QED
    BY <2>6 DEF Follows
<1>7. Held(SetNodes(Dropped(t, closed), ns)) /\ IsDropped(SetNodes(Dropped(t, closed), ns), t, closed)
      /\ SetNodes(Dropped(t, closed), ns).nodes = ns /\ Noticed(SetNodes(Dropped(t, closed), ns), t)
  <2> HIDE DEF closed
  <2> QED
    BY <1>3, <1>6, DroppedHeld
<1> QED
  BY <1>2, <1>6, <1>7

-----------------------------------------------------------------------------
(* What the users do, and time.                                              *)
SetSent(t, u, what) == [t EXCEPT !.sent[u] = what]
SetQueued(t, u) == [t EXCEPT !.conn[u] = "queued"]
SetUnchanged(t) == [t EXCEPT !.changed = FALSE]

SameTable(u, t) == u.open = t.open /\ u.fdOf = t.fdOf /\ u.hooks = t.hooks

LEMMA SetSentHeld ==
  ASSUME NEW t, Held(t), NEW u \in Users, NEW what \in Sent,
         u \in Browsers => what \in {"nothing", "line"}
  PROVE  /\ Held(SetSent(t, u, what)) /\ SameTable(SetSent(t, u, what), t)
         /\ SetSent(t, u, what).nodes = t.nodes /\ SetSent(t, u, what).conn = t.conn
         /\ SetSent(t, u, what).sent = [t.sent EXCEPT ![u] = what]
         /\ SetSent(t, u, what).tasks = t.tasks
         /\ (SetSent(t, u, what).changed <=> t.changed)
<1> DEFINE v == SetSent(t, u, what)
<1>1. t \in Table /\ SourcesHeld(t) /\ NodesHeld(t) /\ Room(t) /\ UsersKept(t)
  BY DEF Held
<1>2. t.sent \in [Users -> Sent]
  BY <1>1, TableFields
<1>3. [t.sent EXCEPT ![u] = what] \in [Users -> Sent]
  BY <1>2
<1>4. /\ v \in Table /\ v.open = t.open /\ v.fdOf = t.fdOf /\ v.hooks = t.hooks
      /\ v.nodes = t.nodes /\ v.conn = t.conn /\ v.sent = [t.sent EXCEPT ![u] = what]
      /\ v.tasks = t.tasks /\ (v.changed <=> t.changed)
  BY <1>1, <1>3 DEF SetSent, Table
<1> HIDE DEF v
<1>5. SourcesHeld(v) /\ NodesHeld(v) /\ Room(v)
  BY <1>1, <1>4 DEF SourcesHeld, NodesHeld, Room
<1>6. UsersKept(v)
  <2>1. \A b \in Browsers : v.sent[b] \in {"nothing", "line"}
    <3>1. \A b \in Users : v.sent[b] = IF b = u THEN what ELSE t.sent[b]
      BY <1>2, <1>4
    <3> QED
      BY <1>1, <3>1 DEF UsersKept, Users
  <2> QED
    BY <1>1, <1>4, <2>1 DEF UsersKept
<1>7. Held(v)
  BY <1>4, <1>5, <1>6 DEF Held
<1> QED
  BY <1>4, <1>7 DEF v, SameTable

LEMMA SetQueuedHeld ==
  ASSUME NEW t, Held(t), NEW u \in Users, t.conn[u] = "none",
         Len(t.nodes) + Cardinality(Waiting(t.conn)) < MaxNodes
  PROVE  /\ Held(SetQueued(t, u)) /\ SameTable(SetQueued(t, u), t)
         /\ SetQueued(t, u).nodes = t.nodes /\ SetQueued(t, u).sent = t.sent
         /\ SetQueued(t, u).conn = [t.conn EXCEPT ![u] = "queued"]
         /\ SetQueued(t, u).tasks = t.tasks
         /\ (SetQueued(t, u).changed <=> t.changed)
<1> DEFINE v == SetQueued(t, u)
           W == Waiting(t.conn)
           n == Len(t.nodes)
<1>1. t \in Table /\ SourcesHeld(t) /\ NodesHeld(t) /\ Room(t) /\ UsersKept(t)
  BY DEF Held
<1>2. t.conn \in [Users -> {"none", "queued", "open"}] /\ n \in Nat
  BY <1>1, TableFields
<1>3. [t.conn EXCEPT ![u] = "queued"] \in [Users -> {"none", "queued", "open"}]
  BY <1>2
<1>4. /\ v \in Table /\ v.open = t.open /\ v.fdOf = t.fdOf /\ v.hooks = t.hooks
      /\ v.nodes = t.nodes /\ v.sent = t.sent /\ v.conn = [t.conn EXCEPT ![u] = "queued"]
      /\ v.tasks = t.tasks /\ (v.changed <=> t.changed)
  BY <1>1, <1>3 DEF SetQueued, Table
<1> HIDE DEF v
<1>5. \A x \in Users : v.conn[x] = IF x = u THEN "queued" ELSE t.conn[x]
  BY <1>2, <1>4
<1>6. SourcesHeld(v) /\ UsersKept(v)
  BY <1>1, <1>4 DEF SourcesHeld, UsersKept
<1>7. NodesHeld(v)
  <2>1. \A i \in DOMAIN t.nodes : t.nodes[i].fd # None =>
          t.open[t.nodes[i].fd] = t.nodes[i].user /\ t.conn[t.nodes[i].user] = "open"
    BY <1>1 DEF NodesHeld
  <2>2. \A i \in DOMAIN t.nodes : t.nodes[i].user \in Users
    BY <1>1, TableFields
  <2>3. \A i \in DOMAIN t.nodes : t.nodes[i].fd # None =>
          t.open[t.nodes[i].fd] = t.nodes[i].user /\ v.conn[t.nodes[i].user] = "open"
    BY <1>5, <2>1, <2>2
  <2> QED
    BY <1>1, <1>4, <2>3 DEF NodesHeld
<1>8. Room(v)
  <2>1. Waiting(v.conn) = W \cup {u} /\ u \notin W
    BY <1>5 DEF Waiting
  <2>2. W \in SUBSET Users
    BY DEF Waiting
  <2> HIDE DEF W, n
  <2>3. IsFiniteSet(W)
    BY <2>2, NamesDiffer, FS_Subset
  <2>4. Cardinality(W) \in Nat /\ Cardinality(W \cup {u}) = Cardinality(W) + 1
    BY <2>1, <2>3, FS_CardinalityType, FS_AddElement
  <2>5. MaxNodes \in Nat
    BY LoopAssumption DEF LoopAssumption
  <2>6. n + (Cardinality(W) + 1) <= MaxNodes
    BY <1>2, <2>4, <2>5 DEF W, n
  <2> QED
    BY <1>4, <2>1, <2>4, <2>6 DEF Room, n
<1>9. Held(v)
  BY <1>4, <1>6, <1>7, <1>8 DEF Held
<1> QED
  BY <1>4, <1>9 DEF v, SameTable

LEMMA SetUnchangedHeld ==
  ASSUME NEW t, Held(t)
  PROVE  /\ Held(SetUnchanged(t)) /\ SameTable(SetUnchanged(t), t) /\ Beside(SetUnchanged(t), t)
         /\ SetUnchanged(t).tasks = t.tasks /\ ~ SetUnchanged(t).changed
<1> DEFINE v == SetUnchanged(t)
<1>1. t \in Table /\ SourcesHeld(t)
  BY DEF Held
<1>2. /\ v \in Table /\ v.open = t.open /\ v.fdOf = t.fdOf /\ v.hooks = t.hooks
      /\ v.nodes = t.nodes /\ v.conn = t.conn /\ v.sent = t.sent /\ v.tasks = t.tasks
      /\ v.changed = FALSE
  BY <1>1 DEF SetUnchanged, Table
<1> HIDE DEF v
<1>3. SourcesHeld(v)
  BY <1>1, <1>2 DEF SourcesHeld
<1>4. Beside(v, t)
  BY <1>2 DEF Beside
<1>5. Held(v)
  BY <1>2, <1>3, <1>4, BesideHeld
<1> QED
  BY <1>2, <1>4, <1>5 DEF v, SameTable

(* A connection that is to be closed gets older; no other does.              *)
LEMMA OlderIs ==
  ASSUME NEW ns \in Seq(Node)
  PROVE  /\ Older(ns) \in Seq(Node) /\ Len(Older(ns)) = Len(ns) /\ DOMAIN Older(ns) = DOMAIN ns
         /\ \A i \in DOMAIN ns : /\ Older(ns)[i].user = ns[i].user /\ Older(ns)[i].fd = ns[i].fd
                                 /\ ns[i].closing = -1 => Older(ns)[i].closing = -1
<1> DEFINE One(x) == [x EXCEPT !.closing = IF @ \in 0..ClosingTimeout THEN @ + 1 ELSE @]
           v == Older(ns)
           n == Len(ns)
<1>1. n \in Nat /\ DOMAIN ns = 1..n /\ \A i \in 1..n : ns[i] \in Node
  OBVIOUS
<1>2. v = [i \in 1..n |-> One(ns[i])]
  BY <1>1 DEF Older
<1>3. ASSUME NEW x \in Node
      PROVE  /\ One(x) \in Node /\ One(x).user = x.user /\ One(x).fd = x.fd
             /\ x.closing = -1 => One(x).closing = -1
  <2> DEFINE m == IF x.closing \in 0..ClosingTimeout THEN x.closing + 1 ELSE x.closing
  <2>1. x.closing \in Int
    BY DEF Node
  <2>2. m \in Int /\ (x.closing = -1 => m = -1)
    BY <2>1
  <2>3. One(x) = [x EXCEPT !.closing = m]
    OBVIOUS
  <2> HIDE DEF m
  <2>4. [x EXCEPT !.closing = m] \in Node /\ [x EXCEPT !.closing = m].user = x.user
        /\ [x EXCEPT !.closing = m].fd = x.fd /\ [x EXCEPT !.closing = m].closing = m
    BY <2>2 DEF Node
  <2> QED
    BY <2>2, <2>3, <2>4
<1> HIDE DEF One, v, n
<1>4. \A i \in 1..n : v[i] \in Node /\ v[i].user = ns[i].user /\ v[i].fd = ns[i].fd
                      /\ (ns[i].closing = -1 => v[i].closing = -1)
  BY <1>1, <1>2, <1>3
<1>5. v \in Seq(Node) /\ Len(v) = n /\ DOMAIN v = 1..n
  BY <1>1, <1>2, <1>4
<1> QED
  BY <1>1, <1>4, <1>5 DEF v, n

LEMMA OlderHeld ==
  ASSUME NEW t, Held(t)
  PROVE  LET v == SetTasks(SetNodes(t, Older(t.nodes)), Later(t.tasks))
         IN  TasksFit(t.tasks, {}) =>
               /\ Held(v) /\ SameTable(v, t) /\ v.conn = t.conn /\ v.sent = t.sent
               /\ TasksFit(v.tasks, {}) /\ (v.changed <=> t.changed) /\ Wanted(v) = Wanted(t)
<1> DEFINE a == SetNodes(t, Older(t.nodes))
           v == SetTasks(a, Later(t.tasks))
<1> SUFFICES ASSUME TasksFit(t.tasks, {})
             PROVE  /\ Held(v) /\ SameTable(v, t) /\ v.conn = t.conn /\ v.sent = t.sent
                    /\ TasksFit(v.tasks, {}) /\ (v.changed <=> t.changed) /\ Wanted(v) = Wanted(t)
  OBVIOUS
<1>1. t \in Table /\ SourcesHeld(t) /\ NodesHeld(t) /\ Room(t) /\ UsersKept(t)
  BY DEF Held
<1> DEFINE old == t.nodes
           ns == Older(old)
<1>2. /\ ns \in Seq(Node) /\ Len(ns) = Len(old) /\ DOMAIN ns = DOMAIN old
      /\ \A i \in DOMAIN old : /\ ns[i].user = old[i].user /\ ns[i].fd = old[i].fd
                               /\ old[i].closing = -1 => ns[i].closing = -1
  <2>1. old \in Seq(Node)
    BY <1>1, TableFields
  <2> HIDE DEF old
  <2> QED
    BY <2>1, OlderIs
<1> HIDE DEF ns
<1>3. /\ a \in Table /\ a.open = t.open /\ a.fdOf = t.fdOf /\ a.hooks = t.hooks
      /\ a.nodes = ns /\ a.conn = t.conn /\ a.sent = t.sent /\ a.tasks = t.tasks
      /\ (a.changed <=> t.changed)
  BY <1>1, <1>2 DEF SetNodes, Table, ns
<1> HIDE DEF a
<1>4. SourcesHeld(a)
  BY <1>1, <1>3 DEF SourcesHeld
<1>5. NodesHeld(a)
  <2>1. \A i \in DOMAIN old : old[i].fd # None =>
          t.open[old[i].fd] = old[i].user /\ t.conn[old[i].user] = "open"
    BY <1>1 DEF NodesHeld
  <2>2. \A fd \in 1..MaxFd : t.open[fd] \in Users => \E i \in DOMAIN old : old[i].fd = fd
    BY <1>1 DEF NodesHeld
  <2>3. \A i, j \in DOMAIN old :
          old[i].fd # None /\ old[j].fd # None /\ old[i].user = old[j].user => i = j
    BY <1>1 DEF NodesHeld
  <2> HIDE DEF old
  <2>4. \A i \in DOMAIN ns : ns[i].fd # None =>
          a.open[ns[i].fd] = ns[i].user /\ a.conn[ns[i].user] = "open"
    BY <1>2, <1>3, <2>1
  <2>5. \A fd \in 1..MaxFd : a.open[fd] \in Users => \E i \in DOMAIN ns : ns[i].fd = fd
    BY <1>2, <1>3, <2>2
  <2>6. \A i, j \in DOMAIN ns :
          ns[i].fd # None /\ ns[j].fd # None /\ ns[i].user = ns[j].user => i = j
    BY <1>2, <2>3
  <2> QED
    BY <1>3, <2>4, <2>5, <2>6 DEF NodesHeld
<1>6. Room(a)
  BY <1>1, <1>2, <1>3 DEF Room
<1>7. UsersKept(a)
  BY <1>1, <1>2, <1>3 DEF UsersKept
<1>8. Held(a)
  BY <1>3, <1>4, <1>5, <1>6, <1>7 DEF Held
<1>9. TasksFit(Later(t.tasks), {})
  BY LaterFits
<1>10. Later(t.tasks) \in Seq(Task)
  BY <1>9 DEF TasksFit
<1>11. Held(v) /\ Beside(v, a) /\ SameFds(v, a) /\ v.hooks = a.hooks /\ v.tasks = Later(t.tasks)
  BY <1>8, <1>10, SetTasksHeld
<1> HIDE DEF v
<1>12. v.fdOf = t.fdOf /\ v.hooks = t.hooks /\ v.nodes = ns /\ v.open = t.open
       /\ v.conn = t.conn /\ v.sent = t.sent /\ (v.changed <=> t.changed)
  BY <1>3, <1>11 DEF Beside, SameFds
<1>13. Wanted(v) = Wanted(t)
  <2>1. {ns[i].fd : i \in {j \in DOMAIN ns : ns[j].fd > 0}}
        = {old[i].fd : i \in {j \in DOMAIN old : old[j].fd > 0}}
    <3> HIDE DEF old
    <3> QED
      BY <1>2
  <2> QED
    BY <1>12, <2>1 DEF Wanted
<1> QED
  BY <1>9, <1>11, <1>12, <1>13 DEF SameTable

-----------------------------------------------------------------------------
(* The invariant.  The tables agree with each other.                         *)
Agreeing(t) == Held(t) /\ HooksHeld(t) /\ TasksFit(t.tasks, {})

(* What select() was given is still what is wanted, unless it was noted that *)
(* it is not.                                                                *)
Watching(w, t) == ~ t.changed => w = Wanted(t)

(* During a pass: descriptors that select() found readable and that were     *)
(* closed since then are not given out again before the pass is over, for    *)
(* a lower one is free.  That is why no node is served for what somebody     *)
(* else had sent.                                                            *)
Stale(r, t) == {fd \in r : t.open[fd] = Free}
Spared(r, t) ==
  /\ t.hooks = <<"http">> /\ t.fdOf["http"] \notin r
  /\ \E f \in 1..MaxFd : t.open[f] = Free /\ f \notin r /\ \A g \in Stale(r, t) : f < g
SentFor(r, t) == \A i \in DOMAIN t.nodes : t.nodes[i].fd \in r => t.sent[t.nodes[i].user] # "nothing"

Passing(p, r, t) ==
  /\ r \subseteq 1..MaxFd /\ SentFor(r, t)
  /\ p \in {"main", "select", "regular"} => r = {}
  /\ p = "packets" => Stale(r, t) = {}
  /\ p \in {"hooks", "accept"} => Stale(r, t) = {} \/ Spared(r, t)

LoopInv == Agreeing(Tables) /\ Watching(watched, Tables) /\ Passing(pc, ready, Tables)

(* What may have ended a connection.                                         *)
Reason(u) ==
  \/ sent[u] \in {"bad", "gone"}
  \/ u \in Browsers /\ (sent[u] = "line" \/ \E i \in DOMAIN nodes :
       nodes[i].user = u /\ nodes[i].closing > ClosingTimeout)
Ended == \A u \in Users : conn[u] = "open" /\ conn'[u] # "open" => Reason(u)

LEMMA TablesAre ==
  /\ Tables.open = open /\ Tables.fdOf = fdOf /\ Tables.hooks = hooks /\ Tables.nodes = nodes
  /\ Tables.changed = changed /\ Tables.tasks = tasks /\ Tables.conn = conn /\ Tables.sent = sent
BY DEF Tables

(* Handlers leave the tables as they have made them.                         *)
LEMMA StoreIs ==
  ASSUME NEW t \in Table, StoreTables(t)
  PROVE  Tables' = t
<1>1. Tables' = [open |-> t.open, fdOf |-> t.fdOf, hooks |-> t.hooks, nodes |-> t.nodes,
                 changed |-> t.changed, tasks |-> t.tasks, conn |-> t.conn, sent |-> t.sent]
  BY DEF StoreTables, Tables
<1>2. t = [open |-> t.open, fdOf |-> t.fdOf, hooks |-> t.hooks, nodes |-> t.nodes,
           changed |-> t.changed, tasks |-> t.tasks, conn |-> t.conn, sent |-> t.sent]
  BY DEF Table
<1> QED
  BY <1>1, <1>2, Zenon

LEMMA InvFrom ==
  ASSUME NEW t, Tables' = t, Agreeing(t), Watching(watched', t), Passing(pc', ready', t)
  PROVE  LoopInv'
BY DEF LoopInv

(* Nothing is to be handled.                                                 *)
LEMMA NothingReady ==
  ASSUME NEW p, NEW t
  PROVE  Passing(p, {}, t)
BY DEF Passing, Stale, SentFor

LEMMA KeepsWatching ==
  ASSUME NEW w, NEW t, Watching(w, t), NEW u, Noticed(u, t)
  PROVE  Watching(w, u)
BY DEF Watching, Noticed

LEMMA NoticedOn ==
  ASSUME NEW t, NEW u, Noticed(u, t), NEW v, Noticed(v, u)
  PROVE  Noticed(v, t)
BY DEF Noticed

LEMMA NoticedSame ==
  ASSUME NEW t, NEW u, SameFds(u, t), Beside(u, t), u.hooks = t.hooks
  PROVE  Noticed(u, t)
<1>1. Wanted(u) = Wanted(t)
  BY SameWanted DEF SameFds, Beside
<1> QED
  BY <1>1 DEF Noticed, SameFds

LEMMA NoticedLike ==
  ASSUME NEW t, NEW u, SameTable(u, t), u.nodes = t.nodes, u.changed <=> t.changed
  PROVE  Noticed(u, t)
<1>1. Wanted(u) = Wanted(t)
  BY DEF SameTable, Wanted
<1> QED
  BY <1>1 DEF Noticed

LEMMA SameHooks ==
  ASSUME NEW t, HooksHeld(t), NEW u, u.fdOf = t.fdOf, u.hooks = t.hooks
  PROVE  HooksHeld(u)
BY DEF HooksHeld

(* A handler that leaves the tables t behind.                                *)
LEMMA Handling ==
  ASSUME LoopInv, NEW t, Agreeing(t), Noticed(t, Tables), StoreTables(t), watched' = watched,
         Passing(pc', ready', t)
  PROVE  LoopInv'
<1>1. Tables' = t
  <2>1. t \in Table
    BY DEF Agreeing, Held
  <2> QED
    BY <2>1, StoreIs
<1>2. Watching(watched, t)
  BY KeepsWatching DEF LoopInv
<1> QED
  BY <1>1, <1>2, InvFrom

LEMMA Resting ==
  ASSUME LoopInv, UNCHANGED <<tasks, table, users>>, Passing(pc', ready', Tables)
  PROVE  LoopInv' /\ Ended
<1>1. Tables' = Tables /\ watched' = watched /\ conn' = conn
  BY DEF Tables, table, users
<1>2. Agreeing(Tables) /\ Watching(watched, Tables)
  BY DEF LoopInv
<1> QED
  BY <1>1, <1>2, InvFrom DEF Ended

LEMMA RunTaskKeeps ==
  ASSUME LoopInv, RunTask
  PROVE  LoopInv' /\ Ended
<1> DEFINE t == SetTasks(Tables, Tail(tasks))
<1>1. Held(Tables) /\ HooksHeld(Tables) /\ TasksFit(tasks, {})
  BY TablesAre DEF LoopInv, Agreeing
<1>2. pc = "main" /\ tasks # <<>> /\ pc' = "regular" /\ watched' = watched /\ ready' = ready
  BY DEF RunTask
<1>3. ready' = {}
  BY <1>2 DEF LoopInv, Passing
<1>4. TasksFit(Tail(tasks), {Head(tasks).task}) /\ Head(tasks).task \in Periodic
  BY <1>1, <1>2, TailFits
<1>5. Held(t) /\ Beside(t, Tables) /\ SameFds(t, Tables) /\ t.hooks = Tables.hooks /\ t.tasks = Tail(tasks)
  <2>1. Tail(tasks) \in Seq(Task)
    BY <1>4 DEF TasksFit
  <2> QED
    BY <1>1, <2>1, SetTasksHeld
<1>6. \/ /\ Head(tasks).task = "check_interfaces" /\ \E up \in Up : StoreTables(CheckedIfs(t, up))
      \/ /\ Head(tasks).task = "choose_gw"
         /\ LET u == SetTasks(t, Register(t.tasks, "choose_gw", Period["choose_gw"]))
            IN  StoreTables(u) \/ StoreTables(InitTunnel(u))
  BY DEF RunTask, SetTasks
<1> HIDE DEF t
<1>7. HooksHeld(t) /\ Noticed(t, Tables)
  BY <1>1, <1>5, SameHooks, NoticedSame DEF SameFds
<1>8. CASE Head(tasks).task = "check_interfaces" /\ \E up \in Up : StoreTables(CheckedIfs(t, up))
  <2>1. PICK up : StoreTables(CheckedIfs(t, up))
    BY <1>8
  <2> DEFINE u == CheckedIfs(t, up)
             missing == {"check_interfaces"}
  <2>2. TasksFit(t.tasks, missing) /\ missing \in SUBSET {"check_interfaces"}
    BY <1>4, <1>5, <1>8
  <2> HIDE DEF missing
  <2>3. Held(u) /\ HooksHeld(u) /\ TasksFit(u.tasks, {}) /\ Beside(u, t) /\ Noticed(u, t)
    BY <1>5, <1>7, <2>2, CheckedIfsHeld
  <2>4. StoreTables(u)
    BY <2>1
  <2> HIDE DEF u
  <2>5. Agreeing(u) /\ Noticed(u, Tables)
    BY <1>7, <2>3, NoticedOn DEF Agreeing
  <2>6. Passing(pc', ready', u)
    BY <1>3, NothingReady
  <2>7. LoopInv'
    BY <1>2, <2>4, <2>5, <2>6, Handling
  <2>8. conn' = conn
    BY <1>5, <2>3, <2>4, TablesAre DEF Beside, StoreTables
  <2> QED
    BY <2>7, <2>8 DEF Ended
<1>9. CASE Head(tasks).task = "choose_gw"
           /\ LET u == SetTasks(t, Register(t.tasks, "choose_gw", Period["choose_gw"]))
              IN  StoreTables(u) \/ StoreTables(InitTunnel(u))
  <2> DEFINE due == Period["choose_gw"]
             ts == Register(t.tasks, "choose_gw", due)
             u == SetTasks(t, ts)
  <2>1. StoreTables(u) \/ StoreTables(InitTunnel(u))
    BY <1>9
  <2>2. TasksFit(ts, {})
    <3> DEFINE missing == {"choose_gw"}
    <3>1. TasksFit(t.tasks, missing) /\ "choose_gw" \in missing /\ "choose_gw" \in Periodic
          /\ missing \ {"choose_gw"} = {}
      BY <1>4, <1>5, <1>9 DEF Periodic
    <3>2. due \in Int
      BY LoopAssumption DEF LoopAssumption
    <3> HIDE DEF missing, due
    <3>3. TasksFit(ts, missing \ {"choose_gw"})
      BY <3>1, <3>2, RegisterFits
    <3> QED
      BY <3>1, <3>3
  <2>3. ts \in Seq(Task)
    BY <2>2 DEF TasksFit
  <2> HIDE DEF ts
  <2>4. Held(u) /\ Beside(u, t) /\ SameFds(u, t) /\ u.hooks = t.hooks /\ u.tasks = ts
    BY <1>5, <2>3, SetTasksHeld
  <2> HIDE DEF u
  <2>5. HooksHeld(u) /\ Noticed(u, t)
    BY <1>7, <2>4, SameHooks, NoticedSame DEF SameFds
  <2>6. Agreeing(u) /\ Noticed(u, Tables) /\ u.conn = conn
    BY <1>5, <1>7, <2>2, <2>4, <2>5, NoticedOn, TablesAre DEF Agreeing, Beside
  <2>7. CASE StoreTables(u)
    <3>1. Passing(pc', ready', u)
      BY <1>3, NothingReady
    <3>2. LoopInv'
      BY <1>2, <2>6, <2>7, <3>1, Handling
    <3>3. conn' = conn
      BY <2>6, <2>7 DEF StoreTables
    <3> QED
      BY <3>2, <3>3 DEF Ended
  <2>8. CASE StoreTables(InitTunnel(u))
    <3> DEFINE v == InitTunnel(u)
    <3>1. Held(v) /\ HooksHeld(v) /\ v.tasks = u.tasks /\ Beside(v, u) /\ v.changed
      BY <2>4, <2>5, InitTunnelHeld
    <3> HIDE DEF v
    <3>2. Agreeing(v) /\ Noticed(v, Tables)
      BY <2>6, <3>1 DEF Agreeing, Noticed
    <3>3. Passing(pc', ready', v)
      BY <1>3, NothingReady
    <3>4. LoopInv'
      BY <1>2, <2>8, <3>2, <3>3, Handling DEF v
    <3>5. conn' = conn
      BY <2>6, <2>8, <3>1 DEF StoreTables, Beside, v
    <3> QED
      BY <3>4, <3>5 DEF Ended
  <2> QED
    BY <2>1, <2>7, <2>8
<1> QED
  BY <1>6, <1>8, <1>9

(* The steps that change no table.                                           *)
LEMMA WaitsKeep ==
  ASSUME LoopInv, Wait4Event \/ TimeOver \/ PassEnds \/ NoHook \/ Packets
  PROVE  LoopInv' /\ Ended
<1>1. UNCHANGED <<tasks, table, users>>
  BY DEF Wait4Event, TimeOver, PassEnds, NoHook, Packets
<1>2. Passing(pc, ready, Tables)
  BY DEF LoopInv
<1>3. Passing(pc', ready', Tables)
  <2>1. CASE Wait4Event
    BY <1>2, <2>1 DEF Wait4Event, Passing
  <2>2. CASE TimeOver
    BY <1>2, <2>2 DEF TimeOver, Passing
  <2>3. CASE PassEnds
    BY <2>3, NothingReady DEF PassEnds
  <2>4. CASE NoHook
    BY <1>2, <2>4 DEF NoHook, Passing
  <2>5. CASE Packets
    <3>1. CASE selected = 1 /\ fdOf["dev"] \in ready /\ Handled(ready, "hooks")
      <4>1. ready' = {}
        BY <3>1 DEF Handled
      <4> QED
        BY <4>1, NothingReady
    <3>2. CASE pc' = "hooks" /\ ready' = ready
      BY <1>2, <2>5, <3>2 DEF Packets, Passing
    <3> QED
      BY <2>5, <3>1, <3>2 DEF Packets, Handled
  <2> QED
    BY <2>1, <2>2, <2>3, <2>4, <2>5
<1> QED
  BY <1>1, <1>3, Resting

(* Connections end with the nodes that are closed.                           *)
LEMMA DroppedEnded ==
  ASSUME LoopInv, NEW u, NEW closed, IsDropped(u, Tables, closed), conn' = u.conn,
         NEW v \in Users, conn[v] = "open", conn'[v] # "open"
  PROVE  \E i \in closed : nodes[i].fd # None /\ nodes[i].user = v
<1> DEFINE whose == Whose(Tables, closed)
<1>1. conn' = Cut(conn, whose, "none")
  BY TablesAre DEF IsDropped
<1>2. v \in DOMAIN conn
  BY TablesAre, TableFields DEF LoopInv, Agreeing, Held
<1>3. v \in whose
  <2> HIDE DEF whose
  <2> QED
    BY <1>1, <1>2 DEF Cut
<1> QED
  BY <1>3, TablesAre DEF Whose

LEMMA RegularKeeps ==
  ASSUME LoopInv, Regular
  PROVE  LoopInv' /\ Ended
<1>1. Agreeing(Tables) /\ ready = {} /\ ready' = {} /\ watched' = watched
  BY DEF LoopInv, Passing, Regular
<1>2. CASE regular > RegularTimeout
  <2> DEFINE old == {i \in DOMAIN Tables.nodes : Overdue(Tables.nodes[i])}
             u == Cleanup(Tables)
  <2>1. StoreTables(u)
    BY <1>2 DEF Regular
  <2>2. Held(u) /\ IsDropped(u, Tables, old) /\ Noticed(u, Tables)
    BY <1>1, CleanupHeld DEF Agreeing
  <2>3. \A i \in old : i \in DOMAIN nodes /\ nodes[i].closing > ClosingTimeout
    BY TablesAre DEF Overdue
  <2> HIDE DEF old, u
  <2>4. Agreeing(u)
    BY <1>1, <2>2, SameHooks DEF Agreeing, IsDropped
  <2>5. Passing(pc', ready', u)
    BY <1>1, NothingReady
  <2>6. LoopInv'
    BY <1>1, <2>1, <2>2, <2>4, <2>5, Handling
  <2>7. ASSUME NEW v \in Users, conn[v] = "open", conn'[v] # "open"
        PROVE  Reason(v)
    <3>1. conn' = u.conn
      BY <2>1 DEF StoreTables
    <3>2. PICK i \in old : nodes[i].fd # None /\ nodes[i].user = v
      BY <2>2, <2>7, <3>1, DroppedEnded
    <3>3. v \in Clients => nodes[i].closing = -1
      BY <1>1, <2>3, <3>2, TablesAre DEF Agreeing, Held, UsersKept
    <3>4. ClosingTimeout \in Nat
      BY LoopAssumption DEF LoopAssumption
    <3>5. v \in Browsers
      BY <2>3, <3>3, <3>4 DEF Users
    <3> QED
      BY <2>3, <3>2, <3>5 DEF Reason
  <2> QED
    BY <2>6, <2>7 DEF Ended
<1>3. CASE ~ (regular > RegularTimeout)
  <2>1. UNCHANGED <<open, fdOf, hooks, nodes, changed, tasks, conn, sent>>
    BY <1>3 DEF Regular
  <2>2. UNCHANGED <<scene, events>>
    BY DEF Regular
  <2>3. Passing(pc', ready', Tables)
    BY <1>1, NothingReady
  <2> QED
    BY <1>1, <2>1, <2>2, <2>3, Resting DEF table, users
<1> QED
  BY <1>2, <1>3

-----------------------------------------------------------------------------
(* What select() waits for.                                                  *)
LEMMA SelectsAre ==
  ASSUME LoopInv
  PROVE  Selects = Wanted(Tables)
BY TablesAre DEF LoopInv, Watching, Selects

LEMMA WantedRange ==
  ASSUME NEW t, Held(t)
  PROVE  Wanted(t) \subseteq 0..MaxFd
<1>1. /\ t.fdOf \in [Sources -> 0..MaxFd] /\ t.hooks \in Seq(Sources)
      /\ \A i \in DOMAIN t.nodes : t.nodes[i].fd \in 0..MaxFd
  BY TableFields DEF Held
<1>2. \A i \in DOMAIN t.hooks : t.hooks[i] \in Sources
  BY <1>1
<1>3. "ifevent" \in Sources /\ "unix" \in Sources /\ "dev" \in Sources
  BY DEF Sources
<1> QED
  BY <1>1, <1>2, <1>3 DEF Wanted

LEMMA UnchangedAgrees ==
  ASSUME NEW t, Agreeing(t)
  PROVE  Agreeing(SetUnchanged(t)) /\ Watching(Wanted(t), SetUnchanged(t))
<1> DEFINE u == SetUnchanged(t)
<1>1. Held(u) /\ SameTable(u, t) /\ Beside(u, t) /\ u.tasks = t.tasks
  BY SetUnchangedHeld DEF Agreeing
<1> HIDE DEF u
<1>2. Agreeing(u)
  BY <1>1, SameHooks DEF Agreeing, SameTable
<1>3. Wanted(u) = Wanted(t)
  BY <1>1, SameWanted DEF SameTable, Beside
<1> QED
  BY <1>2, <1>3 DEF Watching, u

(* check_selects() takes note of the change.                                 *)
LEMMA TakesNote ==
  ASSUME Agreeing(Tables), changed' = FALSE,
         UNCHANGED <<open, fdOf, hooks, nodes, tasks, conn, sent>>
  PROVE  Tables' = SetUnchanged(Tables)
<1> DEFINE u == SetUnchanged(Tables)
<1>1. Held(u) /\ SameTable(u, Tables) /\ Beside(u, Tables) /\ u.tasks = Tables.tasks /\ ~ u.changed
  BY SetUnchangedHeld DEF Agreeing
<1>2. u \in Table /\ u.changed \in BOOLEAN
  BY <1>1, TableFields DEF Held
<1> HIDE DEF u
<1>3. u.changed = FALSE
  BY <1>1, <1>2
<1>4. StoreTables(u)
  BY <1>1, <1>3, TablesAre DEF StoreTables, SameTable, Beside
<1> QED
  BY <1>2, <1>4, StoreIs DEF u

LEMMA SelectFailsKeeps ==
  ASSUME LoopInv, SelectFails
  PROVE  LoopInv' /\ Ended
<1>1. Agreeing(Tables) /\ ready' = {} /\ watched' = Wanted(Tables) /\ conn' = conn
  BY SelectsAre DEF LoopInv, Passing, SelectFails, users
<1>2. Tables' = SetUnchanged(Tables)
  BY <1>1, TakesNote DEF SelectFails, users
<1>3. Passing(pc', ready', SetUnchanged(Tables))
  BY <1>1, NothingReady
<1> QED
  BY <1>1, <1>2, <1>3, UnchangedAgrees, InvFrom DEF Ended

(* What is found readable: whoever owns the descriptor has sent something.   *)
LEMMA ReadableSent ==
  ASSUME LoopInv, NEW net, \A fd \in Selects : fd # None /\ open[fd] # Free
  PROVE  Passing("packets", {fd \in Selects : Readable(fd, net)}, SetUnchanged(Tables))
<1> DEFINE r == {fd \in Selects : Readable(fd, net)}
           u == SetUnchanged(Tables)
<1>1. Held(Tables) /\ Selects = Wanted(Tables)
  BY SelectsAre DEF LoopInv, Agreeing
<1>2. r \subseteq 0..MaxFd /\ \A fd \in r : fd # 0 /\ open[fd] # Free /\ Readable(fd, net)
  BY <1>1, WantedRange DEF None
<1> HIDE DEF r
<1>3. r \subseteq 1..MaxFd
  BY <1>2, NamesDiffer
<1>4. u.open = open /\ u.nodes = nodes /\ u.sent = sent
  BY <1>1, TablesAre, SetUnchangedHeld DEF SameTable, Beside
<1> HIDE DEF u
<1>5. Stale(r, u) = {}
  BY <1>2, <1>4 DEF Stale
<1>6. SentFor(r, u)
  <2> SUFFICES ASSUME NEW i \in DOMAIN nodes, nodes[i].fd \in r
               PROVE  sent[nodes[i].user] # "nothing"
    BY <1>4 DEF SentFor
  <2>1. nodes[i].fd # None
    BY <1>2 DEF None
  <2>2. open[nodes[i].fd] = nodes[i].user /\ nodes[i].user \in Users
    BY <1>1, <2>1, TablesAre, TableFields DEF Held, NodesHeld
  <2>3. Readable(nodes[i].fd, net)
    BY <1>2
  <2>4. "unix" \in Sources /\ "http" \in Sources
    BY DEF Sources
  <2>5. open[nodes[i].fd] # "unix" /\ open[nodes[i].fd] # "http"
    BY <2>2, <2>4, NamesDiffer
  <2> QED
    BY <2>2, <2>3, <2>5 DEF Readable
<1> QED
  BY <1>3, <1>5, <1>6 DEF Passing, r, u

LEMMA SelectKeeps ==
  ASSUME LoopInv, Select
  PROVE  LoopInv' /\ Ended
<1>1. Agreeing(Tables) /\ ready = {} /\ Selects = Wanted(Tables)
  BY SelectsAre DEF LoopInv, Passing, Select
<1> DEFINE t == SetUnchanged(Tables)
<1>2. Agreeing(t) /\ Watching(Selects, t)
  BY <1>1, UnchangedAgrees
<1>3. t.conn = conn
  BY <1>1, SetUnchangedHeld, TablesAre DEF Agreeing, Beside
<1>4. PICK net \in SUBSET Network :
        \E r \in {{fd \in Selects : Readable(fd, net)}} :
          /\ watched' = Selects
          /\ IF "ifevent" \in net
             THEN /\ pc' = "regular"
                  /\ \E up \in Up : StoreTables(CheckedIfs([Tables EXCEPT !.changed = FALSE], up))
                  /\ UNCHANGED <<ready, selected>>
             ELSE /\ pc' = "packets" /\ ready' = r /\ changed' = FALSE
                  /\ UNCHANGED <<open, fdOf, hooks, nodes, tasks, conn, sent, events>>
  BY DEF Select
<1>5. watched' = Selects
  BY <1>4
<1>6. CASE "ifevent" \in net
  <2>1. ready' = {} /\ \E up \in Up : StoreTables(CheckedIfs(t, up))
    BY <1>1, <1>4, <1>6 DEF SetUnchanged
  <2>2. PICK up : StoreTables(CheckedIfs(t, up))
    BY <2>1
  <2> DEFINE u == CheckedIfs(t, up)
  <2> HIDE DEF t
  <2>3. Held(u) /\ HooksHeld(u) /\ TasksFit(u.tasks, {}) /\ Beside(u, t) /\ Noticed(u, t)
    <3> DEFINE missing == {}
    <3>1. TasksFit(t.tasks, missing) /\ missing \in SUBSET {"check_interfaces"}
      BY <1>2 DEF Agreeing
    <3> HIDE DEF missing
    <3> QED
      BY <1>2, <3>1, CheckedIfsHeld DEF Agreeing
  <2>4. StoreTables(u)
    BY <2>2
  <2> HIDE DEF u
  <2>5. Agreeing(u) /\ Watching(Selects, u)
    BY <1>2, <2>3, KeepsWatching DEF Agreeing
  <2>6. Tables' = u
    BY <2>3, <2>4, StoreIs DEF Held
  <2>7. Passing(pc', ready', u)
    BY <2>1, NothingReady
  <2>8. LoopInv'
    BY <1>5, <2>5, <2>6, <2>7, InvFrom
  <2>9. conn' = conn
    BY <1>3, <2>3, <2>4 DEF StoreTables, Beside
  <2> QED
    BY <2>8, <2>9 DEF Ended
<1>7. CASE "ifevent" \notin net
  <2> DEFINE r == {fd \in Selects : Readable(fd, net)}
  <2>1. /\ pc' = "packets" /\ ready' = r /\ changed' = FALSE
        /\ UNCHANGED <<open, fdOf, hooks, nodes, tasks, conn, sent, events>>
    BY <1>4, <1>7
  <2>2. Tables' = t
    BY <1>1, <2>1, TakesNote
  <2>3. Passing("packets", r, t)
    <3>1. \A fd \in Selects : fd # None /\ open[fd] # Free
      BY DEF Select
    <3> QED
      BY <3>1, ReadableSent
  <2> HIDE DEF r, t
  <2>4. LoopInv'
    BY <1>2, <1>5, <2>1, <2>2, <2>3, InvFrom
  <2> QED
    BY <2>1, <2>4 DEF Ended
<1> QED
  BY <1>6, <1>7

-----------------------------------------------------------------------------
(* A pass: descriptors are opened and closed while some are still ready.     *)

(* The lowest free descriptor is not one that is still ready.                *)
LEMMA LowestSpared ==
  ASSUME NEW t, NEW r, r \subseteq 1..MaxFd, Stale(r, t) = {} \/ Spared(r, t),
         NEW fd, IsLowest(fd, t)
  PROVE  fd \notin r
<1> SUFFICES ASSUME fd \in r PROVE FALSE
  OBVIOUS
<1>1. fd \in Stale(r, t) /\ fd \in 1..MaxFd /\ \A f \in 1..MaxFd : t.open[f] = Free => fd <= f
  BY DEF IsLowest, Stale
<1>2. PICK f \in 1..MaxFd : t.open[f] = Free /\ f < fd
  BY <1>1 DEF Spared
<1> QED
  BY <1>1, <1>2

LEMMA SentForLess ==
  ASSUME NEW t, NEW r, SentFor(r, t), NEW q \in SUBSET r, NEW u, u.nodes = t.nodes, u.sent = t.sent
  PROVE  SentFor(q, u)
BY DEF SentFor

LEMMA AcceptSent ==
  ASSUME NEW t, Held(t), NEW r, SentFor(r, t), NEW q \in SUBSET r,
         NEW u \in Users, t.conn[u] = "queued", Lowest(t) \notin q
  PROVE  SentFor(q, Accept(t, u))
<1> DEFINE a == Accept(t, u)
           n == Len(t.nodes)
<1>1. /\ Held(a) /\ Len(a.nodes) = n + 1 /\ a.nodes[n + 1].fd = Lowest(t) /\ a.sent = t.sent
      /\ \A i \in DOMAIN t.nodes : a.nodes[i] = t.nodes[i]
  <2>1. Held(a) /\ Len(a.nodes) = n + 1 /\ a.sent = t.sent
    BY AcceptHeld
  <2>2. a.nodes[n + 1].fd = Lowest(t)
    BY AcceptHeld
  <2>3. Stay(a.nodes, t.nodes)
    BY AcceptHeld
  <2> QED
    BY <2>1, <2>2, <2>3, Zenon DEF Stay
<1> HIDE DEF a
<1>2. DOMAIN a.nodes = 1..(n + 1) /\ DOMAIN t.nodes = 1..n /\ n \in Nat
  BY <1>1, TableFields DEF Held
<1>3. ASSUME NEW i \in 1..(n + 1), a.nodes[i].fd \in q
      PROVE  t.sent[a.nodes[i].user] # "nothing"
  <2>1. i # n + 1
    BY <1>1, <1>3
  <2>2. i \in DOMAIN t.nodes /\ a.nodes[i] = t.nodes[i]
    BY <1>1, <1>2, <2>1
  <2> QED
    BY <1>3, <2>2 DEF SentFor
<1>4. SentFor(q, a)
  BY <1>1, <1>2, <1>3 DEF SentFor
<1> QED
  BY <1>4 DEF a

LEMMA AcceptAgrees ==
  ASSUME Agreeing(Tables), NEW u \in Users, conn[u] = "queued"
  PROVE  /\ Agreeing(Accept(Tables, u)) /\ Noticed(Accept(Tables, u), Tables)
         /\ IsLowest(Lowest(Tables), Tables)
         /\ StoreTables(Accept(Tables, u)) => Ended
<1> DEFINE a == Accept(Tables, u)
<1>1. /\ Held(a) /\ a.changed /\ a.conn = [conn EXCEPT ![u] = "open"] /\ a.fdOf = fdOf
      /\ a.hooks = hooks /\ a.tasks = tasks /\ IsLowest(Lowest(Tables), Tables)
  BY AcceptHeld, TablesAre DEF Agreeing
<1> HIDE DEF a
<1>2. Agreeing(a)
  BY <1>1, SameHooks, TablesAre DEF Agreeing
<1>3. Noticed(a, Tables)
  BY <1>1 DEF Noticed
<1>4. ASSUME StoreTables(a) PROVE Ended
  <2>1. conn' = [conn EXCEPT ![u] = "open"]
    BY <1>1, <1>4 DEF StoreTables
  <2>2. conn \in [Users -> {"none", "queued", "open"}]
    BY TablesAre, TableFields DEF Agreeing, Held
  <2>3. \A v \in Users : conn[v] = "open" => conn'[v] = "open"
    BY <2>1, <2>2
  <2> QED
    BY <2>3 DEF Ended
<1> QED
  BY <1>1, <1>2, <1>3, <1>4 DEF a

(* http_info takes a connection.                                             *)
LEMMA BrowserAccepted ==
  ASSUME LoopInv, pc = "hooks", fdOf["http"] \in ready, NEW u \in Users, conn[u] = "queued",
         StoreTables(Accept(Tables, u)), watched' = watched,
         Handled(ready \ {fdOf["http"]}, "hooks")
  PROVE  LoopInv' /\ Ended
<1> DEFINE a == Accept(Tables, u)
           rest == ready \ {fdOf["http"]}
<1>1. Agreeing(Tables) /\ ready \subseteq 1..MaxFd /\ SentFor(ready, Tables)
      /\ (Stale(ready, Tables) = {} \/ Spared(ready, Tables))
  BY DEF LoopInv, Passing
<1>2. Stale(ready, Tables) = {}
  BY <1>1, TablesAre DEF Spared
<1>3. Agreeing(a) /\ Noticed(a, Tables) /\ IsLowest(Lowest(Tables), Tables) /\ Ended
  BY <1>1, AcceptAgrees
<1>4. Lowest(Tables) \notin ready
  BY <1>1, <1>3, LowestSpared
<1>5. SentFor(rest, a)
  <2>1. rest \in SUBSET ready /\ Lowest(Tables) \notin rest
    BY <1>4
  <2> HIDE DEF rest
  <2> QED
    BY <1>1, <2>1, AcceptSent, TablesAre DEF Agreeing
<1>6. Stale(rest, a) = {}
  <2>1. a.open = [open EXCEPT ![Lowest(Tables)] = u]
    <3>1. Held(Tables) /\ Tables.conn[u] = "queued" /\ Tables.open = open
      BY <1>1, TablesAre DEF Agreeing
    <3>2. a.open = [Tables.open EXCEPT ![Lowest(Tables)] = u]
      BY <3>1, AcceptHeld
    <3> QED
      BY <3>1, <3>2, Zenon
  <2>2. open \in [1..MaxFd -> Sources \cup Users \cup {Free}]
    BY <1>1, TablesAre, TableFields DEF Agreeing, Held
  <2> HIDE DEF a
  <2>3. \A fd \in ready : fd \in 1..MaxFd /\ open[fd] # Free
    BY <1>1, <1>2, TablesAre DEF Stale
  <2>4. \A fd \in ready : a.open[fd] # Free
    BY <2>1, <2>2, <2>3, NamesDiffer
  <2> QED
    BY <2>4 DEF Stale
<1>7. Passing("hooks", rest, a)
  BY <1>1, <1>5, <1>6 DEF Passing
<1>8. (pc' = "select" /\ ready' = {}) \/ (pc' = "hooks" /\ ready' = rest)
  BY DEF Handled
<1> HIDE DEF a, rest
<1>9. Passing(pc', ready', a)
  BY <1>7, <1>8, NothingReady
<1> QED
  BY <1>3, <1>9, Handling DEF a

(* The tunnel's descriptors are read; what comes may end it.                 *)
LEMMA TunnelRead ==
  ASSUME LoopInv, pc = "hooks", NEW s \in {"udp", "tun"}, hooks = <<"http", "udp", "tun">>,
         fdOf["http"] \notin ready, fdOf[s] \in ready, s = "tun" => fdOf["udp"] \notin ready,
         StoreTables(Tables) \/ StoreTables(CleanupTunnel(Tables)), watched' = watched,
         Handled(ready \ {fdOf[s]}, "hooks")
  PROVE  LoopInv' /\ Ended
<1> DEFINE rest == ready \ {fdOf[s]}
<1>1. Agreeing(Tables) /\ ready \subseteq 1..MaxFd /\ SentFor(ready, Tables)
      /\ (Stale(ready, Tables) = {} \/ Spared(ready, Tables))
  BY DEF LoopInv, Passing
<1>2. hooks # <<"http">>
  OBVIOUS
<1>3. Stale(ready, Tables) = {}
  BY <1>1, <1>2, TablesAre DEF Spared
<1>4. \A fd \in ready : open[fd] # Free
  BY <1>3, TablesAre DEF Stale
<1>5. rest \in SUBSET ready /\ rest \subseteq 1..MaxFd
  BY <1>1
<1>6. (pc' = "select" /\ ready' = {}) \/ (pc' = "hooks" /\ ready' = rest)
  BY DEF Handled
<1>7. CASE StoreTables(Tables)
  <2>1. Noticed(Tables, Tables)
    BY DEF Noticed
  <2>2. Stale(rest, Tables) = {}
    BY <1>4, <1>5, TablesAre DEF Stale
  <2> HIDE DEF rest
  <2>3. SentFor(rest, Tables)
    BY <1>1, <1>5, SentForLess
  <2>4. Passing("hooks", rest, Tables)
    BY <1>5, <2>2, <2>3 DEF Passing
  <2>5. Passing(pc', ready', Tables)
    BY <1>6, <2>4, NothingReady
  <2>6. conn' = conn
    BY <1>7, TablesAre DEF StoreTables
  <2> QED
    BY <1>1, <1>7, <2>1, <2>5, <2>6, Handling DEF Ended
<1>8. CASE StoreTables(CleanupTunnel(Tables))
  <2> DEFINE c == CleanupTunnel(Tables)
             uf == fdOf["udp"]
             tf == fdOf["tun"]
  <2>1. Held(c) /\ HooksHeld(c) /\ IsWithoutTunnel(c, Tables) /\ Beside(c, Tables) /\ Noticed(c, Tables)
    BY <1>1, CleanupTunnelHeld DEF Agreeing
  <2> HIDE DEF c
  <2>2. /\ \A fd \in 1..MaxFd : c.open[fd] = IF fd \in {uf, tf} THEN Free ELSE open[fd]
        /\ c.fdOf["http"] = fdOf["http"] /\ c.hooks = <<"http">> /\ c.tasks = tasks
        /\ c.nodes = nodes /\ c.sent = sent /\ c.conn = conn
    BY <2>1, TablesAre DEF IsWithoutTunnel, Beside, Sources
  <2>3. uf \in 1..MaxFd /\ tf \in 1..MaxFd /\ uf < tf
    <3>1. uf \in 0..MaxFd /\ tf \in 0..MaxFd
      BY <1>1, TablesAre, TableFields DEF Agreeing, Held, Sources
    <3>2. uf # 0 /\ uf < tf
      BY <1>1, <1>2, TablesAre DEF Agreeing, HooksHeld, None
    <3> HIDE DEF uf, tf
    <3> QED
      BY <3>1, <3>2, NamesDiffer
  <2>4. Agreeing(c)
    BY <1>1, <2>1, <2>2, TablesAre DEF Agreeing
  <2>5. \A fd \in Stale(rest, c) : fd \in rest /\ fd \in {uf, tf}
    BY <1>4, <1>5, <2>2 DEF Stale
  <2>6. Stale(rest, c) = {} \/ Spared(rest, c)
    <3>1. CASE s = "udp"
      <4>1. uf \notin rest /\ c.open[uf] = Free
        BY <2>2, <2>3, <3>1
      <4>2. \A g \in Stale(rest, c) : uf < g
        BY <2>3, <2>5, <4>1
      <4>3. c.fdOf["http"] \notin rest
        BY <1>5, <2>2
      <4> QED
        BY <2>2, <2>3, <4>1, <4>2, <4>3 DEF Spared
    <3>2. CASE s = "tun"
      <4>1. uf \notin rest /\ tf \notin rest
        BY <1>5, <3>2
      <4> QED
        BY <2>5, <4>1
    <3> QED
      BY <3>1, <3>2
  <2>7. SentFor(rest, c)
    BY <1>1, <1>5, <2>2, SentForLess, TablesAre
  <2>8. Passing("hooks", rest, c)
    BY <1>5, <2>6, <2>7 DEF Passing
  <2> HIDE DEF rest
  <2>9. Passing(pc', ready', c)
    BY <1>6, <2>8, NothingReady
  <2>10. conn' = conn
    BY <1>8, <2>2 DEF StoreTables, c
  <2> QED
    BY <1>8, <2>1, <2>4, <2>9, <2>10, Handling DEF Ended, c
<1> QED
  BY <1>7, <1>8

LEMMA HooksKeep ==
  ASSUME LoopInv, Hooks
  PROVE  LoopInv' /\ Ended
<1> DEFINE m == Min(DueHooks)
           s == hooks[m]
<1>1. pc = "hooks" /\ DueHooks # {} /\ watched' = watched
  BY DEF Hooks
<1>2. /\ Handled(ready \ {fdOf[s]}, "hooks")
      /\ \/ s \in {"udp", "tun"} /\ (StoreTables(Tables) \/ StoreTables(CleanupTunnel(Tables)))
         \/ s = "http" /\ \E u \in Queued(Browsers) : StoreTables(Accept(Tables, u))
  BY DEF Hooks
<1>3. Agreeing(Tables)
  BY DEF LoopInv
<1>4. m \in DueHooks /\ \A k \in DueHooks : m <= k
  <2>1. DueHooks \in SUBSET Nat
    <3>1. hooks \in Seq(Sources)
      BY <1>3, TablesAre, TableFields DEF Agreeing, Held
    <3> QED
      BY <3>1 DEF DueHooks
  <2> QED
    BY <1>1, <2>1, MinIs
<1> HIDE DEF m
<1>5. m \in DOMAIN hooks /\ fdOf[s] \in ready
      /\ \A k \in DOMAIN hooks : fdOf[hooks[k]] \in ready => m <= k
  BY <1>4 DEF DueHooks
<1>6. CASE s = "http"
  <2>1. PICK u \in Queued(Browsers) : StoreTables(Accept(Tables, u))
    BY <1>2, <1>6
  <2>2. u \in Users /\ conn[u] = "queued"
    BY DEF Queued, Users
  <2>3. fdOf["http"] \in ready /\ Handled(ready \ {fdOf["http"]}, "hooks")
    BY <1>2, <1>5, <1>6
  <2> QED
    BY <1>1, <2>1, <2>2, <2>3, BrowserAccepted
<1>7. CASE s \in {"udp", "tun"}
  <2>1. hooks = <<"http", "udp", "tun">>
    <3>1. hooks = <<"http">> => s = "http"
      BY <1>5
    <3> QED
      BY <1>3, <1>7, <3>1, TablesAre DEF Agreeing, HooksHeld
  <2>2. m \in 1..3 /\ (m = 1 => s = "http") /\ (m = 2 => s = "udp") /\ (m = 3 => s = "tun")
    BY <1>5, <2>1
  <2>3. 1 \in DOMAIN hooks /\ 2 \in DOMAIN hooks /\ hooks[1] = "http" /\ hooks[2] = "udp"
    BY <2>1
  <2>4. fdOf["http"] \notin ready /\ (s = "tun" => fdOf["udp"] \notin ready)
    <3>1. ~ (m <= 1) /\ (s = "tun" => ~ (m <= 2))
      BY <1>7, <2>2
    <3> QED
      BY <1>5, <2>3, <3>1
  <2>5. StoreTables(Tables) \/ StoreTables(CleanupTunnel(Tables))
    BY <1>2, <1>7
  <2> HIDE DEF s
  <2> QED
    BY <1>1, <1>2, <1>5, <1>7, <2>1, <2>4, <2>5, TunnelRead
<1> QED
  BY <1>2, <1>6, <1>7

(* accept_ctrl_node() does not give out a descriptor of this pass either.    *)
LEMMA AcceptClientKeeps ==
  ASSUME LoopInv, AcceptClient
  PROVE  LoopInv' /\ Ended
<1>1. /\ Agreeing(Tables) /\ ready \subseteq 1..MaxFd /\ SentFor(ready, Tables)
      /\ (Stale(ready, Tables) = {} \/ Spared(ready, Tables))
  BY DEF LoopInv, Passing, AcceptClient
<1>2. CASE fdOf["unix"] \in ready
  <2>1. watched' = watched /\ ((pc' = "select" /\ ready' = {}) \/ (pc' = "clients" /\ ready' = ready))
    BY <1>2 DEF AcceptClient, Handled
  <2>2. PICK u \in Queued(Clients) : StoreTables(Accept(Tables, u))
    BY <1>2 DEF AcceptClient
  <2>3. u \in Users /\ conn[u] = "queued" /\ Tables.conn[u] = "queued"
    BY TablesAre DEF Queued, Users
  <2> DEFINE a == Accept(Tables, u)
  <2>4. Agreeing(a) /\ Noticed(a, Tables) /\ IsLowest(Lowest(Tables), Tables) /\ Ended
    BY <1>1, <2>2, <2>3, AcceptAgrees
  <2>5. Lowest(Tables) \notin ready
    BY <1>1, <2>4, LowestSpared
  <2>6. SentFor(ready, a)
    <3>1. Held(Tables) /\ ready \in SUBSET ready
      BY <1>1 DEF Agreeing
    <3> QED
      BY <1>1, <2>3, <2>5, <3>1, AcceptSent
  <2>7. StoreTables(a)
    BY <2>2
  <2> HIDE DEF a
  <2>8. Passing("clients", ready, a)
    BY <1>1, <2>6 DEF Passing
  <2>9. Passing(pc', ready', a)
    BY <2>1, <2>8, NothingReady
  <2> QED
    BY <2>1, <2>4, <2>7, <2>9, Handling
<1>3. CASE fdOf["unix"] \notin ready
  <2>1. pc' = "clients" /\ ready' = ready /\ UNCHANGED <<tasks, table, users>>
    BY <1>3 DEF AcceptClient, table, users
  <2>2. Passing(pc', ready', Tables)
    BY <1>1, <2>1 DEF Passing
  <2> QED
    BY <2>1, <2>2, Resting
<1> QED
  BY <1>2, <1>3

-----------------------------------------------------------------------------
(* The control clients are served, the nodes of ready descriptors in turn.   *)

(* The users of nodes that remain open are not those whose nodes close.      *)
LEMMA DroppedSent ==
  ASSUME NEW t, Held(t), NEW r, SentFor(r, t), NEW closed \in SUBSET DOMAIN t.nodes,
         NEW q \in SUBSET r, None \notin q, NEW u, IsDropped(u, t, closed),
         Follows(u.nodes, t.nodes, closed)
  PROVE  SentFor(q, u)
<1> DEFINE ns == u.nodes
           old == t.nodes
           whose == Whose(t, closed)
<1>1. PICK e : FollowsAt(ns, old, closed, e)
  BY DEF Follows
<1>2. /\ e \in [DOMAIN ns -> DOMAIN old]
      /\ \A k \in DOMAIN ns : ns[k].fd # None => e[k] \notin closed /\ ns[k] = old[e[k]]
  BY <1>1 DEF FollowsAt
<1>3. u.sent = Cut(t.sent, whose, "nothing") /\ t.sent \in [Users -> Sent]
  BY TableFields DEF IsDropped, Held
<1>4. \A i, j \in DOMAIN old :
        old[i].fd # None /\ old[j].fd # None /\ old[i].user = old[j].user => i = j
  BY DEF Held, NodesHeld
<1>5. \A i \in DOMAIN old : old[i].user \in Users
  BY TableFields DEF Held
<1>6. \A i \in DOMAIN old : old[i].fd \in q => t.sent[old[i].user] # "nothing"
  BY DEF SentFor
<1>7. \A v \in whose : \E i \in closed : old[i].fd # None /\ old[i].user = v
  BY DEF Whose
<1>8. ASSUME NEW k \in DOMAIN ns, ns[k].fd \in q
      PROVE  u.sent[ns[k].user] # "nothing"
  <2>1. ns[k].fd # None
    BY <1>8
  <2>2. e[k] \in DOMAIN old /\ e[k] \notin closed /\ ns[k] = old[e[k]]
    BY <1>2, <2>1
  <2>3. ns[k].user \notin whose
    <3> SUFFICES ASSUME ns[k].user \in whose PROVE FALSE
      OBVIOUS
    <3> HIDE DEF whose
    <3>1. PICK i \in closed : old[i].fd # None /\ old[i].user = ns[k].user
      BY <1>7
    <3>2. i \in DOMAIN old
      OBVIOUS
    <3>3. i = e[k]
      BY <1>4, <2>1, <2>2, <3>1, <3>2
    <3> QED
      BY <2>2, <3>3
  <2>4. ns[k].user \in Users /\ t.sent[ns[k].user] # "nothing"
    BY <1>5, <1>6, <1>8, <2>2
  <2> HIDE DEF whose, ns, old
  <2>5. u.sent[ns[k].user] = t.sent[ns[k].user]
    BY <1>3, <2>3, <2>4 DEF Cut
  <2> QED
    BY <2>4, <2>5
<1> QED
  BY <1>8 DEF SentFor

(* A connection whose node is served and closed.                             *)
LEMMA ClosedKeeps ==
  ASSUME LoopInv, pc = "clients", NEW i \in DOMAIN nodes, nodes[i].fd \in ready,
         NEW u, Held(u), IsDropped(u, Tables, {i}), Follows(u.nodes, nodes, {i}),
         Noticed(u, Tables), StoreTables(u), pc' = pc, watched' = watched,
         ready' = ready \ {nodes[i].fd},
         \/ sent[nodes[i].user] \in {"bad", "gone"}
         \/ nodes[i].user \in Browsers /\ sent[nodes[i].user] = "line"
  PROVE  LoopInv' /\ Ended
<1> DEFINE closed == {i}
           q == ready \ {nodes[i].fd}
<1>1. Agreeing(Tables) /\ ready \subseteq 1..MaxFd /\ SentFor(ready, Tables)
  BY DEF LoopInv, Passing
<1>2. closed \in SUBSET DOMAIN nodes /\ IsDropped(u, Tables, closed) /\ Follows(u.nodes, nodes, closed)
  OBVIOUS
<1>3. q \in SUBSET ready /\ None \notin q /\ q \subseteq 1..MaxFd /\ ready' = q
  <2>1. ready' = q
    OBVIOUS
  <2>2. None \notin ready
    BY <1>1 DEF None
  <2> QED
    BY <1>1, <2>1, <2>2
<1>4. \A j \in closed : j = i
  OBVIOUS
<1> HIDE DEF closed, q
<1>5. SentFor(q, u)
  BY <1>1, <1>2, <1>3, DroppedSent, TablesAre DEF Agreeing
<1>6. Agreeing(u)
  BY <1>1, <1>2, SameHooks DEF Agreeing, IsDropped
<1>7. Passing(pc', ready', u)
  BY <1>3, <1>5 DEF Passing
<1>8. LoopInv'
  BY <1>6, <1>7, Handling
<1>9. ASSUME NEW v \in Users, conn[v] = "open", conn'[v] # "open"
      PROVE  Reason(v)
  <2>1. conn' = u.conn
    BY DEF StoreTables
  <2>2. PICK j \in closed : nodes[j].fd # None /\ nodes[j].user = v
    BY <1>2, <1>9, <2>1, DroppedEnded
  <2>3. nodes[i].user = v
    BY <1>4, <2>2
  <2> QED
    BY <2>3 DEF Reason
<1> QED
  BY <1>8, <1>9 DEF Ended

(* A line is answered; the other ready nodes are those of other users.       *)
LEMMA LineKeeps ==
  ASSUME LoopInv, pc = "clients", NEW i \in DOMAIN nodes, nodes[i].fd \in ready,
         nodes[i].user \in Clients, Line(SetSent(Tables, nodes[i].user, "nothing")),
         pc' = pc, watched' = watched, ready' = ready \ {nodes[i].fd}
  PROVE  LoopInv' /\ Ended
<1> DEFINE who == nodes[i].user
           what == "nothing"
           t == SetSent(Tables, who, what)
           q == ready \ {nodes[i].fd}
<1>1. Agreeing(Tables) /\ ready \subseteq 1..MaxFd /\ SentFor(ready, Tables)
  BY DEF LoopInv, Passing
<1>2. q \in SUBSET ready /\ None \notin q /\ q \subseteq 1..MaxFd /\ ready' = q
  BY <1>1 DEF None
<1>3. who \in Users /\ what \in Sent
  BY DEF Users, Sent
<1>4. who \in Browsers => what \in {"nothing", "line"}
  OBVIOUS
<1> HIDE DEF what
<1>5. /\ Held(t) /\ SameTable(t, Tables) /\ t.nodes = nodes /\ t.conn = conn
      /\ t.sent = [sent EXCEPT ![who] = what] /\ t.tasks = tasks /\ (t.changed <=> changed)
  <2> HIDE DEF who
  <2>1. Held(Tables)
    BY <1>1 DEF Agreeing
  <2> QED
    BY <1>3, <1>4, <2>1, SetSentHeld, TablesAre
<1>6. Line(t)
  BY DEF what
<1> HIDE DEF t
<1>7. SentFor(q, t)
  <2>1. /\ \A j \in DOMAIN nodes : nodes[j].user \in Users
        /\ \A j \in DOMAIN nodes :
             nodes[j].fd # None /\ nodes[i].fd # None /\ nodes[j].user = nodes[i].user => j = i
    BY <1>1, TablesAre, TableFields DEF Agreeing, Held, NodesHeld
  <2>2. nodes[i].fd # None
    BY <1>1 DEF None
  <2>3. \A j \in DOMAIN nodes : nodes[j].fd \in q => nodes[j].user # who
    BY <1>2, <2>1, <2>2
  <2>4. \A j \in DOMAIN nodes : nodes[j].fd \in q => sent[nodes[j].user] # "nothing"
    BY <1>1, <1>2, TablesAre DEF SentFor
  <2>5. sent \in [Users -> Sent]
    BY <1>1, TablesAre, TableFields DEF Agreeing, Held
  <2> HIDE DEF who, q
  <2>6. \A j \in DOMAIN nodes : nodes[j].fd \in q => t.sent[nodes[j].user] # "nothing"
    BY <1>5, <2>1, <2>3, <2>4, <2>5
  <2> QED
    BY <1>5, <2>6 DEF SentFor
<1> HIDE DEF q, who
<1>8. HooksHeld(t) /\ TasksFit(t.tasks, {})
  BY <1>1, <1>5, SameHooks, TablesAre DEF Agreeing, SameTable
<1>9. Noticed(t, Tables)
  BY <1>5, NoticedLike, TablesAre DEF SameTable
<1>10. ASSUME NEW u, Held(u), HooksHeld(u), TasksFit(u.tasks, {}), Beside(u, t), Noticed(u, t),
              StoreTables(u)
       PROVE  LoopInv' /\ Ended
  <2>1. Agreeing(u) /\ Noticed(u, Tables)
    BY <1>9, <1>10, NoticedOn DEF Agreeing
  <2>2. SentFor(q, u)
    <3>1. q \in SUBSET q
      OBVIOUS
    <3> QED
      BY <1>7, <1>10, <3>1, SentForLess DEF Beside
  <2>3. Passing(pc', ready', u)
    BY <1>2, <2>2 DEF Passing
  <2>4. LoopInv'
    BY <1>10, <2>1, <2>3, Handling
  <2>5. conn' = conn
    BY <1>5, <1>10 DEF StoreTables, Beside
  <2> QED
    BY <2>4, <2>5 DEF Ended
<1>11. CASE StoreTables(t)
  <2>1. Beside(t, t) /\ Noticed(t, t)
    BY DEF Beside, Noticed
  <2> QED
    BY <1>5, <1>8, <1>10, <1>11, <2>1
<1>12. CASE \E up \in Up : StoreTables(CheckedIfs(t, up))
  <2>1. PICK up : StoreTables(CheckedIfs(t, up))
    BY <1>12
  <2> DEFINE missing == {}
             u == CheckedIfs(t, up)
  <2>2. TasksFit(t.tasks, missing) /\ missing \in SUBSET {"check_interfaces"}
    BY <1>8
  <2> HIDE DEF missing
  <2>3. Held(u) /\ HooksHeld(u) /\ TasksFit(u.tasks, {}) /\ Beside(u, t) /\ Noticed(u, t)
    BY <1>5, <1>8, <2>2, CheckedIfsHeld
  <2>4. StoreTables(u)
    BY <2>1
  <2> HIDE DEF u
  <2> QED
    BY <1>10, <2>3, <2>4
<1>13. CASE StoreTables(CleanupTunnel(t))
  <2> DEFINE u == CleanupTunnel(t)
  <2>1. Held(u) /\ HooksHeld(u) /\ IsWithoutTunnel(u, t) /\ Beside(u, t) /\ Noticed(u, t)
    BY <1>5, <1>8, CleanupTunnelHeld
  <2>2. StoreTables(u)
    BY <1>13
  <2> HIDE DEF u
  <2>3. TasksFit(u.tasks, {})
    BY <1>8, <2>1 DEF IsWithoutTunnel
  <2> QED
    BY <1>10, <2>1, <2>2, <2>3
<1> QED
  BY <1>6, <1>11, <1>12, <1>13 DEF Line

LEMMA HandleClientKeeps ==
  ASSUME LoopInv, HandleClient
  PROVE  LoopInv' /\ Ended
<1> DEFINE i == Min(DueNodes)
           who == nodes[i].user
           closed == {i}
<1>1. pc = "clients" /\ DueNodes # {} /\ pc' = pc /\ watched' = watched
  BY DEF HandleClient
<1>2. Served(Tables, i) /\ ready' = ready \ {nodes[i].fd}
  BY DEF HandleClient
<1>3. Agreeing(Tables) /\ SentFor(ready, Tables) /\ Held(Tables)
  BY DEF LoopInv, Passing, Agreeing
<1>4. /\ nodes \in Seq(Node) /\ DOMAIN nodes = 1..Len(nodes) /\ sent \in [Users -> Sent]
      /\ \A j \in DOMAIN nodes : nodes[j].user \in Users
  BY <1>3, TablesAre, TableFields DEF Held
<1>5. i \in DOMAIN nodes /\ nodes[i].fd \in ready
  <2>1. DueNodes \in SUBSET Nat
    BY <1>4 DEF DueNodes
  <2>2. i \in DueNodes
    BY <1>1, <2>1, MinIs
  <2> QED
    BY <2>2 DEF DueNodes
<1> HIDE DEF i
<1>6. who \in Users /\ sent[who] \in {"line", "bad", "gone"}
  <2>1. who \in Users /\ sent[who] # "nothing"
    BY <1>3, <1>4, <1>5, TablesAre DEF SentFor
  <2>2. sent[who] \in Sent
    BY <1>4, <2>1
  <2> QED
    BY <2>1, <2>2 DEF Sent
<1>7. who \in Browsers => sent[who] = "line"
  <2>1. who \in Browsers => sent[who] \in {"nothing", "line"}
    BY <1>3, TablesAre DEF Held, UsersKept
  <2> QED
    BY <1>6, <2>1
<1>8. CASE who \in Clients /\ who \notin Browsers /\ sent[who] = "line"
  <2>1. Line([Tables EXCEPT !.sent[who] = "nothing"])
    BY <1>2, <1>8, TablesAre DEF Served
  <2>2. Line(SetSent(Tables, who, "nothing"))
    BY <2>1 DEF SetSent
  <2> QED
    BY <1>1, <1>2, <1>5, <1>8, <2>2, LineKeeps
<1>9. CASE who \in Clients /\ who \notin Browsers /\ sent[who] = "bad"
  <2> DEFINE u == CloseEnded(Tables, i)
  <2>1. StoreTables(u)
    BY <1>2, <1>9, TablesAre DEF Served
  <2>2. Held(u) /\ IsDropped(u, Tables, {i}) /\ Follows(u.nodes, nodes, {i}) /\ Noticed(u, Tables)
    BY <1>3, <1>5, CloseEndedHeld, TablesAre
  <2> HIDE DEF u
  <2> QED
    BY <1>1, <1>2, <1>5, <1>9, <2>1, <2>2, ClosedKeeps
<1>10. CASE who \in Browsers \/ (who \in Clients /\ who \notin Browsers /\ sent[who] = "gone")
  <2> DEFINE u == CloseStraight(Tables, i)
  <2>1. StoreTables(u)
    <3>1. Tables.nodes[i].user = who
      BY TablesAre
    <3>2. CASE who \in Browsers
      <4>1. who \notin Clients
        BY <3>2, LoopAssumption DEF LoopAssumption
      <4> HIDE DEF who, u
      <4> QED
        BY <1>2, <3>1, <3>2, <4>1 DEF Served, u
    <3>3. CASE who \notin Browsers /\ sent[who] = "gone"
      <4>1. sent[who] # "line" /\ sent[who] # "bad"
        BY <3>3
      <4> HIDE DEF who, u
      <4> QED
        BY <1>2, <3>1, <3>3, <4>1 DEF Served, u
    <3> QED
      BY <1>10, <3>2, <3>3
  <2>2. Held(u) /\ IsDropped(u, Tables, {i}) /\ u.nodes = Left(nodes, {i}) /\ Noticed(u, Tables)
    BY <1>3, <1>5, CloseStraightHeld, TablesAre
  <2>3. Follows(u.nodes, nodes, {i})
    BY <1>4, <2>2, LeftFollows
  <2> HIDE DEF u
  <2> QED
    BY <1>1, <1>2, <1>5, <1>7, <1>10, <2>1, <2>2, <2>3, ClosedKeeps
<1> QED
  BY <1>6, <1>8, <1>9, <1>10 DEF Users

-----------------------------------------------------------------------------
(* Time and the users.                                                       *)
LEMMA TickKeeps ==
  ASSUME LoopInv, Tick
  PROVE  LoopInv' /\ Ended
<1> DEFINE v == SetTasks(SetNodes(Tables, Older(nodes)), Later(tasks))
<1>1. Agreeing(Tables) /\ ready = {}
  BY DEF LoopInv, Passing, Tick
<1>2. /\ Held(v) /\ SameTable(v, Tables) /\ v.conn = conn /\ v.sent = sent
      /\ TasksFit(v.tasks, {}) /\ (v.changed <=> changed) /\ Wanted(v) = Wanted(Tables)
  BY <1>1, OlderHeld, TablesAre DEF Agreeing
<1>3. v.nodes = Older(nodes) /\ v.tasks = Later(tasks)
  BY <1>2 DEF SetTasks, SetNodes, Held, Table, Tables
<1>4. v \in Table /\ v.changed \in BOOLEAN /\ changed \in BOOLEAN
  BY <1>1, <1>2, TablesAre, TableFields DEF Agreeing, Held
<1> HIDE DEF v
<1>5. /\ tasks' = Later(tasks) /\ nodes' = Older(nodes) /\ ready' = {}
      /\ UNCHANGED <<open, fdOf, hooks, watched, changed, conn, sent>>
  BY <1>1 DEF Tick, users
<1>6. StoreTables(v)
  BY <1>2, <1>3, <1>4, <1>5, TablesAre DEF StoreTables, SameTable
<1>7. Tables' = v
  BY <1>4, <1>6, StoreIs
<1>8. Agreeing(v)
  BY <1>1, <1>2, SameHooks DEF Agreeing, SameTable
<1>9. Watching(watched', v)
  BY <1>2, <1>5, TablesAre DEF LoopInv, Watching
<1>10. Passing(pc', ready', v)
  BY <1>5, NothingReady
<1>11. LoopInv'
  BY <1>7, <1>8, <1>9, <1>10, InvFrom
<1> QED
  BY <1>5, <1>11 DEF Ended

LEMMA ConnectKeeps ==
  ASSUME LoopInv, NEW w \in Users, Connect(w)
  PROVE  LoopInv' /\ Ended
<1> DEFINE u == SetQueued(Tables, w)
<1>1. Agreeing(Tables) /\ ready = {} /\ Held(Tables)
  BY DEF LoopInv, Passing, Connect, Agreeing
<1>2. conn[w] = "none" /\ Len(nodes) + Cardinality(Waiting(conn)) < MaxNodes
  BY DEF Connect, Queued, Waiting
<1>3. /\ Held(u) /\ SameTable(u, Tables) /\ u.nodes = nodes /\ u.sent = sent
      /\ u.conn = [conn EXCEPT ![w] = "queued"] /\ u.tasks = tasks /\ (u.changed <=> changed)
  BY <1>1, <1>2, SetQueuedHeld, TablesAre
<1>4. u \in Table /\ u.changed \in BOOLEAN /\ changed \in BOOLEAN /\ conn \in [Users -> {"none", "queued", "open"}]
  BY <1>1, <1>3, TablesAre, TableFields DEF Held
<1> HIDE DEF u
<1>5. conn' = [conn EXCEPT ![w] = "queued"] /\ ready' = {}
      /\ UNCHANGED <<open, fdOf, hooks, nodes, tasks, watched, changed, sent>>
  BY <1>1 DEF Connect, loop, table
<1>6. StoreTables(u)
  BY <1>3, <1>4, <1>5, TablesAre DEF StoreTables, SameTable
<1>7. Agreeing(u)
  BY <1>1, <1>3, SameHooks, TablesAre DEF Agreeing, SameTable
<1>8. Noticed(u, Tables)
  BY <1>3, NoticedLike, TablesAre
<1>9. Passing(pc', ready', u)
  BY <1>5, NothingReady
<1>10. LoopInv'
  BY <1>5, <1>6, <1>7, <1>8, <1>9, Handling
<1>11. \A v \in Users : conn[v] = "open" => conn'[v] = "open"
  BY <1>2, <1>4, <1>5
<1> QED
  BY <1>10, <1>11 DEF Ended

LEMMA SendKeeps ==
  ASSUME LoopInv, NEW w \in Users, Send(w)
  PROVE  LoopInv' /\ Ended
<1>1. Agreeing(Tables) /\ ready = {} /\ Held(Tables)
  BY DEF LoopInv, Passing, Send, Agreeing
<1>2. PICK what \in IF w \in Clients THEN Sent \ {"nothing"} ELSE {"line"} :
        sent' = [sent EXCEPT ![w] = what]
  BY DEF Send
<1>3. what \in Sent /\ (w \in Browsers => what \in {"nothing", "line"})
  BY <1>2, LoopAssumption DEF LoopAssumption, Sent
<1> DEFINE u == SetSent(Tables, w, what)
<1>4. /\ Held(u) /\ SameTable(u, Tables) /\ u.nodes = nodes /\ u.conn = conn
      /\ u.sent = [sent EXCEPT ![w] = what] /\ u.tasks = tasks /\ (u.changed <=> changed)
  BY <1>1, <1>3, SetSentHeld, TablesAre
<1>5. u \in Table /\ u.changed \in BOOLEAN /\ changed \in BOOLEAN
  BY <1>1, <1>4, TablesAre, TableFields DEF Held
<1> HIDE DEF u
<1>6. ready' = {} /\ UNCHANGED <<open, fdOf, hooks, nodes, tasks, watched, changed, conn>>
  BY <1>1 DEF Send, loop, table
<1>7. StoreTables(u)
  BY <1>2, <1>4, <1>5, <1>6, TablesAre DEF StoreTables, SameTable
<1>8. Agreeing(u)
  BY <1>1, <1>4, SameHooks, TablesAre DEF Agreeing, SameTable
<1>9. Noticed(u, Tables)
  BY <1>4, NoticedLike, TablesAre
<1>10. Passing(pc', ready', u)
  BY <1>6, NothingReady
<1>11. LoopInv'
  BY <1>6, <1>7, <1>8, <1>9, <1>10, Handling
<1> QED
  BY <1>6, <1>11 DEF Ended

-----------------------------------------------------------------------------
(* The invariant holds, and with it what the runs check.                     *)
LEMMA InitHolds ==
  ASSUME LoopInit
  PROVE  LoopInv
<1> DEFINE s == Start
<1>1. /\ open = s.open /\ fdOf = s.fdOf /\ hooks = s.hooks /\ nodes = s.nodes
      /\ changed = s.changed /\ tasks = s.tasks /\ conn = s.conn /\ sent = s.sent /\ ready = {}
  BY DEF LoopInit
<1>2. Held(s) /\ HooksHeld(s) /\ TasksFit(s.tasks, {}) /\ s.changed
  BY StartHeld
<1>3. s \in Table
  BY <1>2 DEF Held
<1> HIDE DEF s
<1>4. Tables = s
  <2>1. s = [open |-> s.open, fdOf |-> s.fdOf, hooks |-> s.hooks, nodes |-> s.nodes,
             changed |-> s.changed, tasks |-> s.tasks, conn |-> s.conn, sent |-> s.sent]
    BY <1>3 DEF Table
  <2> QED
    BY <1>1, <2>1, Zenon DEF Tables
<1>5. Passing(pc, ready, Tables)
  BY <1>1, NothingReady
<1> QED
  BY <1>2, <1>4, <1>5 DEF LoopInv, Agreeing, Watching

LEMMA StepKeeps ==
  ASSUME LoopInv, [LoopNext]_loopVars
  PROVE  LoopInv' /\ Ended
<1>1. CASE RunTask
  BY <1>1, RunTaskKeeps
<1>2. CASE Wait4Event \/ TimeOver \/ PassEnds \/ NoHook \/ Packets
  BY <1>2, WaitsKeep
<1>3. CASE Regular
  BY <1>3, RegularKeeps
<1>4. CASE SelectFails
  BY <1>4, SelectFailsKeeps
<1>5. CASE Select
  BY <1>5, SelectKeeps
<1>6. CASE Hooks
  BY <1>6, HooksKeep
<1>7. CASE AcceptClient
  BY <1>7, AcceptClientKeeps
<1>8. CASE HandleClient
  BY <1>8, HandleClientKeeps
<1>9. CASE Tick
  BY <1>9, TickKeeps
<1>10. CASE \E u \in Users : Connect(u) \/ Send(u)
  BY <1>10, ConnectKeeps, SendKeeps
<1>11. CASE UNCHANGED loopVars
  <2>1. UNCHANGED <<tasks, table, users>> /\ pc' = pc /\ ready' = ready
    BY <1>11 DEF loopVars, loop
  <2>2. Passing(pc', ready', Tables)
    BY <2>1 DEF LoopInv
  <2> QED
    BY <2>1, <2>2, Resting
<1> QED
  BY <1>1, <1>2, <1>3, <1>4, <1>5, <1>6, <1>7, <1>8, <1>9, <1>10, <1>11 DEF LoopNext, Loop

(* Tables, watched descriptors and those of the pass agree in every state:   *)
(* accept(), close() and the handlers of wait4Event() keep it that way.      *)
THEOREM LoopInvHolds == LoopSpec => []LoopInv
<1>1. LoopInv /\ [LoopNext]_loopVars => LoopInv'
  BY StepKeeps
<1> QED
  BY <1>1, InitHolds, PTL DEF LoopSpec

(* Whenever select() is called it is given exactly the descriptors that are  *)
(* in use, each open and owned by whoever watches it: socket(), close() and  *)
(* the reuse of a number never escape check_selects() of schedule.c.         *)
THEOREM DescriptorsWatched == LoopSpec => []WatchedIsOpen
<1>1. ASSUME LoopInv PROVE WatchedIsOpen
  <2> DEFINE W == Selects
  <2>1. Held(Tables) /\ HooksHeld(Tables) /\ W = Wanted(Tables)
    BY <1>1, SelectsAre DEF LoopInv, Agreeing
  <2>2. /\ W = {fdOf["ifevent"], fdOf["unix"]}
               \cup {nodes[i].fd : i \in {j \in DOMAIN nodes : nodes[j].fd > 0}}
               \cup {fd \in {fdOf["dev"]} : fd # None}
               \cup {fdOf[hooks[i]] : i \in DOMAIN hooks}
    BY <2>1, TablesAre DEF Wanted
  <2> HIDE DEF W
  <2>3. /\ \A s \in Sources : fdOf[s] # None => open[fdOf[s]] = s
        /\ \A fd \in 1..MaxFd : open[fd] \in Sources => fdOf[open[fd]] = fd
        /\ \A i \in DOMAIN nodes : nodes[i].fd # None => open[nodes[i].fd] = nodes[i].user
        /\ \A fd \in 1..MaxFd : open[fd] \in Users => \E i \in DOMAIN nodes : nodes[i].fd = fd
    BY <2>1, TablesAre DEF Held, SourcesHeld, NodesHeld
  <2>4. /\ \A i \in DOMAIN nodes : nodes[i].fd \in 0..MaxFd /\ nodes[i].user \in Users
        /\ fdOf \in [Sources -> 0..MaxFd] /\ open \in [1..MaxFd -> Sources \cup Users \cup {Free}]
    BY <2>1, TablesAre, TableFields DEF Held
  <2>5. ASSUME NEW s \in Sources, fdOf[s] # None PROVE fdOf[s] \in W
    <3>1. CASE s \in {"ifevent", "unix", "dev"}
      BY <2>2, <2>5, <3>1
    <3>2. CASE s \in {"udp", "tun", "http"}
      <4>1. \E i \in DOMAIN hooks : hooks[i] = s
        <5>1. CASE hooks = <<"http">> /\ fdOf["udp"] = None /\ fdOf["tun"] = None
          <6>1. s = "http"
            BY <2>5, <3>2, <5>1
          <6>2. 1 \in DOMAIN hooks /\ hooks[1] = "http"
            BY <5>1
          <6> QED
            BY <6>1, <6>2
        <5>2. CASE hooks = <<"http", "udp", "tun">>
          <6>1. 1 \in DOMAIN hooks /\ 2 \in DOMAIN hooks /\ 3 \in DOMAIN hooks
                /\ hooks[1] = "http" /\ hooks[2] = "udp" /\ hooks[3] = "tun"
            BY <5>2
          <6> QED
            BY <3>2, <6>1
        <5> QED
          BY <2>1, <5>1, <5>2, TablesAre DEF HooksHeld
      <4> QED
        BY <2>2, <4>1
    <3> QED
      BY <3>1, <3>2 DEF Sources
  <2>6. ASSUME NEW i \in DOMAIN nodes, nodes[i].fd # None PROVE nodes[i].fd \in W
    <3>1. nodes[i].fd > 0
      BY <2>4, <2>6, NamesDiffer DEF None
    <3> QED
      BY <2>2, <3>1
  <2>7. ASSUME NEW fd \in 1..MaxFd, open[fd] # Free PROVE fd \in W
    <3>1. fd # None
      BY DEF None
    <3>2. CASE open[fd] \in Sources
      BY <2>3, <2>5, <3>1, <3>2
    <3>3. CASE open[fd] \in Users
      BY <2>3, <2>6, <3>1, <3>3
    <3> QED
      BY <2>4, <2>7, <3>2, <3>3
  <2>8. ASSUME NEW fd \in W PROVE fd # None /\ open[fd] # Free
    <3>1. \A s \in Sources : fdOf[s] # None => open[fdOf[s]] # Free
      BY <2>3, NamesDiffer
    <3>2. \A i \in DOMAIN nodes : nodes[i].fd # None => open[nodes[i].fd] # Free
      BY <2>3, <2>4, NamesDiffer
    <3>3. CASE \E s \in Sources : fd = fdOf[s] /\ fdOf[s] # None
      BY <3>1, <3>3
    <3>4. CASE \E i \in DOMAIN nodes : fd = nodes[i].fd /\ nodes[i].fd # None
      BY <3>2, <3>4
    <3>5. \A i \in DOMAIN hooks : hooks[i] \in Sources /\ fdOf[hooks[i]] # None
      <4>1. CASE hooks = <<"http">>
        BY <2>1, <4>1, TablesAre DEF HooksHeld, Sources
      <4>2. CASE hooks = <<"http", "udp", "tun">>
        <5>1. fdOf["http"] # None /\ fdOf["udp"] # None /\ fdOf["tun"] # None
          <6>1. fdOf["udp"] # None /\ fdOf["udp"] < fdOf["tun"] /\ fdOf["http"] # None
            BY <2>1, <4>2, TablesAre DEF HooksHeld
          <6>2. fdOf["udp"] \in 0..MaxFd /\ fdOf["tun"] \in 0..MaxFd
            BY <2>4 DEF Sources
          <6> QED
            BY <6>1, <6>2, NamesDiffer DEF None
        <5>2. \A i \in DOMAIN hooks : hooks[i] \in {"http", "udp", "tun"}
          BY <4>2
        <5> QED
          BY <5>1, <5>2 DEF Sources
      <4> QED
        BY <2>1, <4>1, <4>2, TablesAre DEF HooksHeld
    <3>6. fdOf["ifevent"] # None /\ fdOf["unix"] # None
      BY <2>1, TablesAre DEF HooksHeld
    <3>7. "ifevent" \in Sources /\ "unix" \in Sources /\ "dev" \in Sources
      BY DEF Sources
    <3>8. \A i \in DOMAIN nodes : nodes[i].fd > 0 => nodes[i].fd # None
      BY <2>4 DEF None
    <3> QED
      BY <2>2, <3>3, <3>4, <3>5, <3>6, <3>7, <3>8
  <2> QED
    BY <2>3, <2>5, <2>6, <2>7, <2>8 DEF WatchedIsOpen, W
<1> QED
  BY <1>1, LoopInvHolds, PTL

(* task_list of schedule.c is in the order its tasks are due in, and each    *)
(* periodic task is in it exactly once: none dies and none multiplies,       *)
(* whoever registers them.                                                   *)
THEOREM TasksKept == LoopSpec => []TasksInOrder
<1>1. ASSUME LoopInv PROVE TasksInOrder
  <2>1. TasksFit(tasks, {})
    BY <1>1, TablesAre DEF LoopInv, Agreeing
  <2> QED
    BY <2>1, FitInOrder
<1> QED
  BY <1>1, LoopInvHolds, PTL

(* close_ctrl_node() closes nobody's connection for what somebody else has   *)
(* sent, though descriptors are reused while those that select() returned    *)
(* are still being served.                                                   *)
THEOREM NobodyCutOff == LoopSpec => ClosedForAReason
<1> DEFINE Act == \A u \in Users :
              conn[u] = "open" /\ conn'[u] # "open" =>
                \/ sent[u] \in {"bad", "gone"}
                \/ u \in Browsers /\ (sent[u] = "line" \/ \E i \in DOMAIN nodes :
                     nodes[i].user = u /\ nodes[i].closing > ClosingTimeout)
<1>1. LoopInv /\ [LoopNext]_loopVars => [Act]_loopVars
  BY StepKeeps DEF Ended, Reason
<1> QED
  BY <1>1, LoopInvHolds, PTL DEF LoopSpec, ClosedForAReason

-----------------------------------------------------------------------------
(* The interfaces: what the functions of check_interfaces() read and write.  *)
Addrs == {k.addr : k \in Kernels} \cup {NoAddr}
If ==
  [active : BOOLEAN, addr : Addrs, mtu : Nat, ttl : Nat, clones : Nat,
   ll : {"lo", "lan", "wlan"}, ttlConf : Nat \cup {Unset}, llConf : {"unset", "lan", "wlan"},
   soft : BOOLEAN, hard : BOOLEAN]
Worlds(D) ==
  [ifs : [D -> If], mtuMin : Nat, primaryAddr : Addrs, announced : Nat, told : BOOLEAN,
   sys : [Files -> Nat], backup : [Devs \cup {All} -> Nat \cup {Unset}], touched : BOOLEAN]

LEMMA WorldFields ==
  ASSUME NEW D, NEW w \in Worlds(D)
  PROVE  /\ w.ifs \in [D -> If] /\ w.mtuMin \in Nat /\ w.primaryAddr \in Addrs
         /\ w.announced \in Nat /\ w.told \in BOOLEAN /\ w.sys \in [Files -> Nat]
         /\ w.backup \in [Devs \cup {All} -> Nat \cup {Unset}] /\ w.touched \in BOOLEAN
BY DEF Worlds

(* Changes of a world.                                                       *)
SetIf(w, d, i) == [w EXCEPT !.ifs[d] = i]
SetSys(w, s, b, t) == [w EXCEPT !.sys = s, !.backup = b, !.touched = t]
SetMtus(w, m, a) == [w EXCEPT !.mtuMin = m, !.announced = a]
SetAddr(w, a) == [w EXCEPT !.primaryAddr = a]
SetTold(w) == [w EXCEPT !.told = TRUE]

SameBut(v, w) ==
  /\ v.ifs = w.ifs /\ v.mtuMin = w.mtuMin /\ v.primaryAddr = w.primaryAddr /\ v.sys = w.sys

LEMMA SetIfIs ==
  ASSUME NEW D, NEW w \in Worlds(D), NEW d \in D, NEW i \in If
  PROVE  /\ SetIf(w, d, i) \in Worlds(D)
         /\ SetIf(w, d, i).ifs = [w.ifs EXCEPT ![d] = i] /\ SetIf(w, d, i).mtuMin = w.mtuMin
         /\ SetIf(w, d, i).primaryAddr = w.primaryAddr /\ SetIf(w, d, i).sys = w.sys
<1>1. [w.ifs EXCEPT ![d] = i] \in [D -> If]
  BY WorldFields
<1> QED
  BY <1>1 DEF SetIf, Worlds

LEMMA SetSysIs ==
  ASSUME NEW D, NEW w \in Worlds(D), NEW s \in [Files -> Nat],
         NEW b \in [Devs \cup {All} -> Nat \cup {Unset}], NEW t \in BOOLEAN
  PROVE  /\ SetSys(w, s, b, t) \in Worlds(D)
         /\ SetSys(w, s, b, t).ifs = w.ifs /\ SetSys(w, s, b, t).mtuMin = w.mtuMin
         /\ SetSys(w, s, b, t).primaryAddr = w.primaryAddr /\ SetSys(w, s, b, t).sys = s
BY DEF SetSys, Worlds

LEMMA SetMtusIs ==
  ASSUME NEW D, NEW w \in Worlds(D), NEW m, NEW a, m \in Nat, a \in Nat
  PROVE  /\ SetMtus(w, m, a) \in Worlds(D)
         /\ SetMtus(w, m, a).ifs = w.ifs /\ SetMtus(w, m, a).mtuMin = m
         /\ SetMtus(w, m, a).primaryAddr = w.primaryAddr /\ SetMtus(w, m, a).sys = w.sys
BY DEF SetMtus, Worlds

LEMMA SetAddrIs ==
  ASSUME NEW D, NEW w \in Worlds(D), NEW a \in Addrs
  PROVE  /\ SetAddr(w, a) \in Worlds(D)
         /\ SetAddr(w, a).ifs = w.ifs /\ SetAddr(w, a).mtuMin = w.mtuMin
         /\ SetAddr(w, a).primaryAddr = a /\ SetAddr(w, a).sys = w.sys
BY DEF SetAddr, Worlds

LEMMA SetToldIs ==
  ASSUME NEW D, NEW w \in Worlds(D)
  PROVE  SetTold(w) \in Worlds(D) /\ SameBut(SetTold(w), w)
BY DEF SetTold, Worlds, SameBut

-----------------------------------------------------------------------------
(* The files of /proc/sys.                                                   *)
LEMMA FileIs ==
  ASSUME NEW key \in Devs \cup {All}
  PROVE  File(key) \in Files
<1>1. DOMAIN Phy = Devs
  BY InterfacesAssumption DEF InterfacesAssumption
<1> QED
  BY <1>1 DEF File, Files, Range

(* Without pedantic cleanup what is zero stays zero.                         *)
Zeros(v, w) == ~ pedantic => \A file \in Files : w.sys[file] = 0 => v.sys[file] = 0
SameIfs(v, w) == v.ifs = w.ifs /\ v.mtuMin = w.mtuMin /\ v.primaryAddr = w.primaryAddr

LEMMA CheckKernelConfigIs ==
  ASSUME NEW D, NEW w \in Worlds(D), NEW key \in Devs \cup {All}
  PROVE  /\ CheckKernelConfig(w, key) \in Worlds(D) /\ SameIfs(CheckKernelConfig(w, key), w)
         /\ Zeros(CheckKernelConfig(w, key), w) /\ CheckKernelConfig(w, key).sys[File(key)] = 0
<1> DEFINE f == File(key)
           s == [w.sys EXCEPT ![f] = 0]
           b == [w.backup EXCEPT ![key] = w.sys[f]]
           t == w.touched \/ w.sys[f] # 0
<1>1. f \in Files
  BY FileIs
<1>2. w.sys \in [Files -> Nat] /\ w.backup \in [Devs \cup {All} -> Nat \cup {Unset}]
      /\ w.touched \in BOOLEAN
  BY WorldFields
<1>3. CheckKernelConfig(w, key) = SetSys(w, s, b, t)
  BY DEF CheckKernelConfig, SetSys
<1>4. s \in [Files -> Nat] /\ t \in BOOLEAN /\ s[f] = 0
      /\ \A file \in Files : w.sys[file] = 0 => s[file] = 0
  BY <1>1, <1>2
<1>5. b \in [Devs \cup {All} -> Nat \cup {Unset}]
  <2>1. w.sys[f] \in Nat
    BY <1>1, <1>2
  <2> QED
    BY <1>2, <2>1
<1> HIDE DEF s, b, t, f
<1>6. /\ SetSys(w, s, b, t) \in Worlds(D)
      /\ SetSys(w, s, b, t).ifs = w.ifs /\ SetSys(w, s, b, t).mtuMin = w.mtuMin
      /\ SetSys(w, s, b, t).primaryAddr = w.primaryAddr /\ SetSys(w, s, b, t).sys = s
  BY <1>4, <1>5, SetSysIs
<1> QED
  BY <1>3, <1>4, <1>6 DEF SameIfs, Zeros, f

LEMMA RestoreIs ==
  ASSUME NEW D, NEW w \in Worlds(D), NEW key \in Devs \cup {All}
  PROVE  /\ Restore(w, key) \in Worlds(D) /\ SameIfs(Restore(w, key), w)
         /\ Zeros(Restore(w, key), w)
<1> DEFINE f == File(key)
           value == IF ~pedantic \/ w.sys[f] = w.backup[key] THEN w.sys[f]
                    ELSE IF w.backup[key] = 0 THEN 0 ELSE 1
           s == [w.sys EXCEPT ![f] = value]
           b == [w.backup EXCEPT ![key] = Unset]
           t == w.touched
           v == SetSys(w, s, b, t)
<1>1. f \in Files
  BY FileIs
<1>2. w.sys \in [Files -> Nat] /\ w.backup \in [Devs \cup {All} -> Nat \cup {Unset}]
      /\ w.touched \in BOOLEAN
  BY WorldFields
<1>3. Restore(w, key) = w \/ Restore(w, key) = v
  <2>1. v = [w EXCEPT !.backup = b, !.sys = s]
    BY DEF SetSys, Worlds
  <2>2. w.touched /\ w.backup[key] # Unset => Restore(w, key) = [w EXCEPT !.backup = b, !.sys = s]
    BY DEF Restore
  <2> QED
    BY <2>1, <2>2 DEF Restore
<1>4. value \in Nat /\ (~ pedantic => value = w.sys[f])
  BY <1>1, <1>2
<1> HIDE DEF value
<1>5. s \in [Files -> Nat] /\ t \in BOOLEAN
      /\ (~ pedantic => \A file \in Files : s[file] = w.sys[file])
  BY <1>1, <1>2, <1>4
<1>6. b \in [Devs \cup {All} -> Nat \cup {Unset}]
  BY <1>2
<1> HIDE DEF s, b, t, f
<1>7. v \in Worlds(D) /\ v.ifs = w.ifs /\ v.mtuMin = w.mtuMin
      /\ v.primaryAddr = w.primaryAddr /\ v.sys = s
  BY <1>5, <1>6, SetSysIs
<1> HIDE DEF v
<1> QED
  BY <1>3, <1>5, <1>7 DEF SameIfs, Zeros

-----------------------------------------------------------------------------
(* One interface.                                                            *)
TtlOf(i, d, ttl) == IF i.ttlConf # Unset THEN i.ttlConf ELSE IF d = Primary THEN ttl ELSE 1
ClonesOf(ll) == IF ll = "wlan" THEN WlanClones ELSE LanClones

(* What an active interface has unless something waits for the next check;   *)
(* addr is the daemon's address, value what is in its file of /proc/sys, and  *)
(* gives whether cleanup is pedantic.                                         *)
KeptAt(i, d, waits, ttl, addr, value, gives) == i.active =>
  /\ ~ waits /\ ~ i.soft => i.ttl = TtlOf(i, d, ttl)
  /\ ~ i.hard => i.ll = LinkLayer(i, d)
  /\ i.ll # "lo" => i.clones = ClonesOf(i.ll)
  /\ d = Primary => addr = i.addr
  /\ ~ gives => value = 0

(* It is as the kernel, k, has it; ok: its sockets can be had.               *)
CurrentAt(i, k, least, ok) ==
  /\ i.active => k.up /\ k.addr # NoAddr /\ i.addr = k.addr /\ i.mtu = k.mtu /\ ~ i.hard /\ least <= i.mtu
  /\ ~ i.active => ~ k.up \/ k.addr = NoAddr \/ ~ ok

Settled(i) == i.active => ~ i.soft

Was(w, d) == KeptAt(w.ifs[d], d, soft, Ttl, w.primaryAddr, w.sys[File(d)], pedantic)
Sees(w, d, ok) ==
  /\ KeptAt(w.ifs[d], d, FALSE, Ttl, w.primaryAddr, w.sys[File(d)], pedantic)
  /\ CurrentAt(w.ifs[d], kernel[d], w.mtuMin, ok)
Good(w, d, ok) == Sees(w, d, ok) /\ Settled(w.ifs[d])

(* v is w after interface d was looked at.                                   *)
Touches(v, w, D, d) ==
  /\ v \in Worlds(D) /\ v.mtuMin <= w.mtuMin /\ Zeros(v, w)
  /\ \A e \in D : e # d => v.ifs[e] = w.ifs[e]
  /\ d # Primary => v.primaryAddr = w.primaryAddr

LEMMA TouchesOn ==
  ASSUME NEW D, NEW d \in D, NEW w \in Worlds(D), NEW v, Touches(v, w, D, d), NEW u, Touches(u, v, D, d)
  PROVE  Touches(u, w, D, d)
<1>1. u.mtuMin \in Nat /\ v.mtuMin \in Nat /\ w.mtuMin \in Nat
  BY WorldFields DEF Touches
<1>2. u.mtuMin <= w.mtuMin
  BY <1>1 DEF Touches
<1>3. Zeros(u, w)
  BY DEF Touches, Zeros
<1> QED
  BY <1>2, <1>3 DEF Touches

(* Others are not affected.                                                  *)
LEMMA TouchesOthers ==
  ASSUME NEW D \in SUBSET Devs, NEW d \in D, NEW w \in Worlds(D), NEW v, Touches(v, w, D, d),
         NEW e \in D, e # d, NEW ok
  PROVE  /\ Was(w, e) => Was(v, e)
         /\ Good(w, e, ok) => Good(v, e, ok)
<1>1. v.ifs[e] = w.ifs[e] /\ (e = Primary => v.primaryAddr = w.primaryAddr)
  BY DEF Touches
<1>2. ~ pedantic /\ w.sys[File(e)] = 0 => v.sys[File(e)] = 0
  <2>1. File(e) \in Files
    BY FileIs
  <2> QED
    BY <2>1 DEF Touches, Zeros
<1>3. v.mtuMin \in Nat /\ w.mtuMin \in Nat /\ v.mtuMin <= w.mtuMin /\ w.ifs[e].mtu \in Nat
  BY WorldFields DEF Touches, If
<1> DEFINE i == w.ifs[e]
<1> HIDE DEF i
<1>4. ASSUME NEW waits, KeptAt(i, e, waits, Ttl, w.primaryAddr, w.sys[File(e)], pedantic)
      PROVE  KeptAt(i, e, waits, Ttl, v.primaryAddr, v.sys[File(e)], pedantic)
  BY <1>1, <1>2, <1>4 DEF KeptAt
<1>5. CurrentAt(i, kernel[e], w.mtuMin, ok) => CurrentAt(i, kernel[e], v.mtuMin, ok)
  BY <1>3 DEF CurrentAt, i
<1> QED
  BY <1>1, <1>4, <1>5 DEF Was, Good, Sees, i

(* What was seen rightly is right whether or not everything waits.           *)
LEMMA GoodWas ==
  ASSUME NEW w, NEW d, NEW ok, Good(w, d, ok), soft \in BOOLEAN
  PROVE  Was(w, d)
BY DEF Good, Sees, Was, KeptAt

LEMMA KernelIs ==
  ASSUME kernel \in [Devs -> Kernels], NEW d \in Devs
  PROVE  kernel[d].addr \in Addrs /\ kernel[d].mtu \in Nat /\ kernel[d].up \in BOOLEAN
<1>1. kernel[d] \in Kernels
  OBVIOUS
<1>2. \A k \in Kernels : k.mtu \in Nat /\ k.up \in BOOLEAN
  BY InterfacesAssumption DEF InterfacesAssumption
<1> QED
  BY <1>1, <1>2 DEF Addrs

LEMMA LinkLayerIs ==
  ASSUME NEW i \in If, NEW d
  PROVE  /\ LinkLayer(i, d) \in {"lo", "lan", "wlan"}
         /\ \A j \in If : j.llConf = i.llConf => LinkLayer(j, d) = LinkLayer(i, d)
<1>1. i.llConf \in {"unset", "lan", "wlan"}
  BY DEF If
<1> QED
  BY <1>1 DEF LinkLayer

(* if_reconfigure_soft() and if_deactivate().                                *)
OnlyIf(v, w, d, i) ==
  v.ifs = [w.ifs EXCEPT ![d] = i] /\ v.mtuMin = w.mtuMin /\ v.primaryAddr = w.primaryAddr

SetRun(i, s, t, c) == [i EXCEPT !.soft = s, !.ttl = t, !.clones = c]

LEMMA SetRunIs ==
  ASSUME NEW i \in If, NEW s \in BOOLEAN, NEW t \in Nat, NEW c \in Nat
  PROVE  LET j == SetRun(i, s, t, c)
         IN  /\ j \in If /\ j.soft = s /\ j.active = i.active /\ j.addr = i.addr /\ j.mtu = i.mtu
             /\ j.ttl = t /\ j.ll = i.ll /\ j.hard = i.hard /\ j.llConf = i.llConf
             /\ j.ttlConf = i.ttlConf /\ j.clones = c
BY DEF SetRun, If

IsSoftened(j, i, d) ==
  /\ j \in If /\ ~ j.soft /\ j.active = i.active /\ j.addr = i.addr /\ j.mtu = i.mtu
  /\ j.ttl = TtlOf(j, d, Ttl) /\ j.ll = i.ll /\ j.hard = i.hard /\ j.llConf = i.llConf
  /\ i.active /\ i.ll # "lo" => j.clones = ClonesOf(i.ll)

LEMMA SoftenedIs ==
  ASSUME NEW i \in If, NEW d, Ttl \in Nat
  PROVE  IsSoftened(Softened(i, d), i, d)
<1> DEFINE clones == CASE ~ i.active \/ i.ll = "lo" -> i.clones
                       [] i.active /\ i.ll = "wlan" -> WlanClones
                       [] i.active /\ i.ll = "lan" -> LanClones
           ttl == TtlOf(i, d, Ttl)
           no == FALSE
           j == SetRun(i, no, ttl, clones)
<1>1. /\ i.active \in BOOLEAN /\ i.clones \in Nat /\ i.ll \in {"lo", "lan", "wlan"}
      /\ i.ttlConf \in Nat \cup {Unset}
  BY DEF If
<1>2. ttl \in Nat
  BY <1>1 DEF TtlOf
<1>3. clones \in Nat /\ (i.active /\ i.ll # "lo" => clones = ClonesOf(i.ll))
  BY <1>1 DEF ClonesOf, WlanClones, LanClones
<1>4. no \in BOOLEAN /\ ~ no
  OBVIOUS
<1>5. Softened(i, d) = j
  BY DEF Softened, TtlOf, SetRun
<1> HIDE DEF clones, ttl, no
<1>6. /\ j \in If /\ j.soft = no /\ j.active = i.active /\ j.addr = i.addr /\ j.mtu = i.mtu
      /\ j.ttl = ttl /\ j.ll = i.ll /\ j.hard = i.hard /\ j.llConf = i.llConf
      /\ j.ttlConf = i.ttlConf /\ j.clones = clones
  BY <1>2, <1>3, <1>4, SetRunIs
<1> HIDE DEF j
<1>7. j.ttl = TtlOf(j, d, Ttl)
  BY <1>6 DEF TtlOf, ttl
<1> QED
  BY <1>3, <1>4, <1>5, <1>6, <1>7 DEF IsSoftened

LEMMA ReconfigureIs ==
  ASSUME NEW D, NEW w \in Worlds(D), NEW d \in D, Ttl \in Nat
  PROVE  /\ Reconfigure(w, d) \in Worlds(D)
         /\ OnlyIf(Reconfigure(w, d), w, d, Softened(w.ifs[d], d)) /\ Reconfigure(w, d).sys = w.sys
<1> DEFINE i == Softened(w.ifs[d], d)
<1>1. Reconfigure(w, d) = SetIf(w, d, i)
  BY DEF Reconfigure, SetIf
<1>2. w.ifs[d] \in If
  BY WorldFields
<1>3. i \in If
  BY <1>2, SoftenedIs DEF IsSoftened
<1> HIDE DEF i
<1> QED
  BY <1>1, <1>3, SetIfIs DEF OnlyIf, i

Off(i) == [i EXCEPT !.active = FALSE]

LEMMA DeactivateIs ==
  ASSUME NEW D \in SUBSET Devs, NEW w \in Worlds(D), NEW d \in D
  PROVE  /\ Deactivate(w, d) \in Worlds(D) /\ OnlyIf(Deactivate(w, d), w, d, Off(w.ifs[d]))
         /\ Zeros(Deactivate(w, d), w) /\ Off(w.ifs[d]) \in If /\ ~ Off(w.ifs[d]).active
<1> DEFINE i == Off(w.ifs[d])
           u == SetIf(w, d, i)
<1>1. Deactivate(w, d) = Restore(u, d)
  BY DEF Deactivate, SetIf, Off
<1>2. w.ifs[d] \in If
  BY WorldFields
<1>3. i \in If /\ ~ i.active
  BY <1>2 DEF Off, If
<1> HIDE DEF i
<1>4. u \in Worlds(D) /\ OnlyIf(u, w, d, i) /\ u.sys = w.sys
  BY <1>3, SetIfIs DEF OnlyIf
<1> HIDE DEF u
<1>5. Restore(u, d) \in Worlds(D) /\ SameIfs(Restore(u, d), u) /\ Zeros(Restore(u, d), u)
  BY <1>4, RestoreIs
<1> QED
  BY <1>1, <1>3, <1>4, <1>5 DEF OnlyIf, SameIfs, Zeros, i

(* A step that changes one interface record touches that interface only.     *)
LEMMA OnlyIfTouches ==
  ASSUME NEW D, NEW w \in Worlds(D), NEW d \in D, NEW v \in Worlds(D), NEW i,
         OnlyIf(v, w, d, i), Zeros(v, w)
  PROVE  Touches(v, w, D, d) /\ v.ifs[d] = i
<1>1. w.ifs \in [D -> If] /\ v.mtuMin \in Nat
  BY WorldFields
<1> QED
  BY <1>1 DEF OnlyIf, Touches

(* What is the same is as good.                                              *)
LEMMA SameIsGood ==
  ASSUME NEW D, NEW w \in Worlds(D), NEW v \in Worlds(D), NEW d \in D, NEW ok, SameBut(v, w)
  PROVE  Touches(v, w, D, d) /\ (Good(w, d, ok) => Good(v, d, ok))
<1>1. v.mtuMin \in Nat
  BY WorldFields
<1>2. v.ifs = w.ifs /\ v.mtuMin = w.mtuMin /\ v.primaryAddr = w.primaryAddr /\ v.sys = w.sys
  BY DEF SameBut
<1>3. v.mtuMin <= w.mtuMin
  BY <1>1, <1>2
<1>4. Touches(v, w, D, d)
  BY <1>2, <1>3 DEF Touches, Zeros
<1>5. Good(w, d, ok) => Good(v, d, ok)
  BY <1>2, Zenon DEF Good, Sees
<1> QED
  BY <1>4, <1>5

(* All that if_reconfigure_soft() does not set.                              *)
Prepared(w, d, ok) ==
  /\ w.ifs[d].active => /\ w.ifs[d].ll = LinkLayer(w.ifs[d], d)
                        /\ d = Primary => w.primaryAddr = w.ifs[d].addr
                        /\ ~ pedantic => w.sys[File(d)] = 0
  /\ CurrentAt(w.ifs[d], kernel[d], w.mtuMin, ok)

LEMMA SeesPrepared ==
  ASSUME NEW w, NEW d, NEW ok, Sees(w, d, ok)
  PROVE  Prepared(w, d, ok)
BY DEF Sees, Prepared, KeptAt, CurrentAt

LEMMA PreparedReconfigured ==
  ASSUME NEW D \in SUBSET Devs, NEW w \in Worlds(D), NEW d \in D, Ttl \in Nat, NEW ok,
         Prepared(w, d, ok)
  PROVE  Touches(Reconfigure(w, d), w, D, d) /\ Good(Reconfigure(w, d), d, ok)
<1> DEFINE v == Reconfigure(w, d)
           i == w.ifs[d]
           j == Softened(i, d)
<1>1. i \in If
  BY WorldFields
<1>2. IsSoftened(j, i, d)
  BY <1>1, SoftenedIs
<1>3. LinkLayer(j, d) = LinkLayer(i, d)
  BY <1>1, <1>2, LinkLayerIs DEF IsSoftened
<1>4. v \in Worlds(D) /\ OnlyIf(v, w, d, j) /\ v.sys = w.sys
  BY ReconfigureIs
<1>5. Prepared(w, d, ok)
  OBVIOUS
<1> HIDE DEF v, j
<1>6. Touches(v, w, D, d) /\ v.ifs[d] = j
  <2>1. Zeros(v, w)
    BY <1>4 DEF Zeros
  <2> QED
    BY <1>4, <2>1, OnlyIfTouches
<1>7. v.mtuMin = w.mtuMin /\ v.primaryAddr = w.primaryAddr
  BY <1>4 DEF OnlyIf
<1>8. CurrentAt(j, kernel[d], v.mtuMin, ok)
  BY <1>2, <1>5, <1>7 DEF Prepared, CurrentAt, IsSoftened
<1>9. KeptAt(j, d, FALSE, Ttl, v.primaryAddr, v.sys[File(d)], pedantic)
  BY <1>2, <1>3, <1>4, <1>5, <1>7 DEF Prepared, KeptAt, IsSoftened
<1>10. Settled(j)
  BY <1>2 DEF IsSoftened, Settled
<1> QED
  BY <1>6, <1>8, <1>9, <1>10 DEF Good, Sees, v

(* What is not active is as good as it can be if there is a reason.          *)
LEMMA InactiveIsGood ==
  ASSUME NEW w, NEW d, NEW ok, ~ w.ifs[d].active, ~ kernel[d].up \/ kernel[d].addr = NoAddr \/ ~ ok
  PROVE  Good(w, d, ok)
BY DEF Good, Sees, KeptAt, CurrentAt, Settled

IsCounted(v, w, D, d) ==
  /\ v \in Worlds(D) /\ v.ifs = w.ifs /\ v.primaryAddr = w.primaryAddr /\ v.sys = w.sys
  /\ v.mtuMin <= w.mtuMin /\ v.mtuMin <= w.ifs[d].mtu

LEMMA CountedIs ==
  ASSUME NEW D, NEW w \in Worlds(D), NEW d \in D
  PROVE  IsCounted(Counted(w, d), w, D, d)
<1> DEFINE both == {w.mtuMin, w.ifs[d].mtu}
           m == Min(both)
           a == w.announced
<1>1. w.mtuMin \in Nat /\ w.ifs[d].mtu \in Nat /\ a \in Nat
  BY WorldFields DEF If
<1>2. both \in SUBSET Nat /\ both # {} /\ w.mtuMin \in both /\ w.ifs[d].mtu \in both
  BY <1>1
<1>3. Counted(w, d) = SetMtus(w, m, a)
  BY DEF Counted, SetMtus, Worlds
<1> HIDE DEF both
<1>4. m \in both /\ \A n \in both : m <= n
  BY <1>2, MinIs
<1>5. m \in Nat /\ m <= w.mtuMin /\ m <= w.ifs[d].mtu
  BY <1>2, <1>4
<1> HIDE DEF m, a
<1>6. /\ SetMtus(w, m, a) \in Worlds(D)
      /\ SetMtus(w, m, a).ifs = w.ifs /\ SetMtus(w, m, a).mtuMin = m
      /\ SetMtus(w, m, a).primaryAddr = w.primaryAddr /\ SetMtus(w, m, a).sys = w.sys
  BY <1>1, <1>5, SetMtusIs
<1> QED
  BY <1>3, <1>5, <1>6 DEF IsCounted

LEMMA KnownIs ==
  ASSUME NEW i \in If, NEW d \in Devs, kernel \in [Devs -> Kernels]
  PROVE  LET j == Known(i, d)
         IN  /\ j \in If /\ j.addr = kernel[d].addr /\ j.mtu = kernel[d].mtu
             /\ j.ll = LinkLayer(i, d) /\ j.llConf = i.llConf /\ j.active = i.active
<1>1. kernel[d].addr \in Addrs /\ kernel[d].mtu \in Nat
  BY KernelIs
<1>2. LinkLayer(i, d) \in {"lo", "lan", "wlan"}
  BY LinkLayerIs
<1> QED
  BY <1>1, <1>2 DEF Known, If

On(i) == [i EXCEPT !.active = TRUE, !.hard = FALSE]
LEMMA OnIs ==
  ASSUME NEW i \in If
  PROVE  LET j == On(i)
         IN  /\ j \in If /\ j.addr = i.addr /\ j.mtu = i.mtu /\ j.ll = i.ll /\ j.llConf = i.llConf
             /\ j.active /\ ~ j.hard
BY DEF On, If

LEMMA ActivatedIs ==
  ASSUME NEW D, NEW w \in Worlds(D), NEW d \in D
  PROVE  /\ Activated(w, d) \in Worlds(D) /\ Activated(w, d).ifs = [w.ifs EXCEPT ![d] = On(w.ifs[d])]
         /\ Activated(w, d).mtuMin = w.mtuMin /\ Activated(w, d).sys = w.sys
         /\ Activated(w, d).primaryAddr = IF d = Primary THEN w.ifs[d].addr ELSE w.primaryAddr
<1> DEFINE i == On(w.ifs[d])
           u == SetIf(w, d, i)
           a == IF d = Primary THEN w.ifs[d].addr ELSE w.primaryAddr
<1>1. w.ifs[d] \in If /\ w.primaryAddr \in Addrs
  BY WorldFields
<1>2. i \in If /\ a \in Addrs
  BY <1>1, OnIs DEF If
<1>3. Activated(w, d) = SetAddr(u, a)
  BY DEF Activated, SetAddr, SetIf, On
<1> HIDE DEF i, a
<1>4. /\ u \in Worlds(D) /\ u.ifs = [w.ifs EXCEPT ![d] = i] /\ u.mtuMin = w.mtuMin
      /\ u.sys = w.sys
  BY <1>2, SetIfIs
<1> HIDE DEF u
<1> QED
  BY <1>2, <1>3, <1>4, SetAddrIs DEF i, a

LEMMA KnownCountedIs ==
  ASSUME NEW D \in SUBSET Devs, NEW w \in Worlds(D), NEW d \in D, kernel \in [Devs -> Kernels]
  PROVE  LET v == Counted([w EXCEPT !.ifs[d] = Known(@, d)], d)
         IN  /\ v \in Worlds(D) /\ Touches(v, w, D, d) /\ v.mtuMin <= kernel[d].mtu
             /\ v.ifs[d] = Known(w.ifs[d], d)
<1> DEFINE i == Known(w.ifs[d], d)
           u == SetIf(w, d, i)
           v == Counted(u, d)
<1>1. w.ifs[d] \in If /\ w.ifs \in [D -> If]
  BY WorldFields
<1>2. i \in If /\ i.mtu = kernel[d].mtu
  BY <1>1, KnownIs
<1>3. u = [w EXCEPT !.ifs[d] = Known(@, d)]
  BY DEF SetIf
<1> HIDE DEF i
<1>4. /\ u \in Worlds(D) /\ u.ifs = [w.ifs EXCEPT ![d] = i] /\ u.mtuMin = w.mtuMin
      /\ u.primaryAddr = w.primaryAddr /\ u.sys = w.sys
  BY <1>2, SetIfIs
<1> HIDE DEF u
<1>5. IsCounted(v, u, D, d)
  BY <1>4, CountedIs
<1> HIDE DEF v
<1>6. u.ifs[d] = i
  BY <1>1, <1>4
<1>7. v.ifs[d] = i /\ v.mtuMin <= w.mtuMin /\ v.mtuMin <= kernel[d].mtu
  BY <1>2, <1>4, <1>5, <1>6 DEF IsCounted
<1>8. Touches(v, w, D, d)
  <2>1. \A e \in D : e # d => v.ifs[e] = w.ifs[e]
    BY <1>1, <1>4, <1>5 DEF IsCounted
  <2> QED
    BY <1>4, <1>5, <1>7, <2>1 DEF Touches, Zeros, IsCounted
<1> QED
  BY <1>3, <1>5, <1>7, <1>8 DEF v, i, IsCounted

(* What is deactivated touches only itself.                                  *)
LEMMA DeactivateTouches ==
  ASSUME NEW D \in SUBSET Devs, NEW w \in Worlds(D), NEW d \in D
  PROVE  Touches(Deactivate(w, d), w, D, d) /\ ~ Deactivate(w, d).ifs[d].active
<1> DEFINE v == Deactivate(w, d)
           i == Off(w.ifs[d])
<1>1. v \in Worlds(D) /\ OnlyIf(v, w, d, i) /\ Zeros(v, w) /\ ~ i.active
  BY DeactivateIs
<1> HIDE DEF v, i
<1>2. Touches(v, w, D, d) /\ v.ifs[d] = i
  BY <1>1, OnlyIfTouches
<1> QED
  BY <1>1, <1>2 DEF v

SetIfAddr(i, a) == [i EXCEPT !.addr = a]

LEMMA IfAddrTouches ==
  ASSUME NEW D, NEW w \in Worlds(D), NEW d \in D, NEW a \in Addrs
  PROVE  LET v == [w EXCEPT !.ifs[d].addr = a]
         IN  v \in Worlds(D) /\ Touches(v, w, D, d) /\ v.ifs[d].active = w.ifs[d].active
<1> DEFINE i == SetIfAddr(w.ifs[d], a)
           v == SetIf(w, d, i)
<1>1. w.ifs[d] \in If
  BY WorldFields
<1>2. i \in If /\ i.active = w.ifs[d].active
  BY <1>1 DEF SetIfAddr, If
<1>3. v = [w EXCEPT !.ifs[d].addr = a]
  BY DEF SetIf, SetIfAddr
<1> HIDE DEF i
<1>4. v \in Worlds(D) /\ OnlyIf(v, w, d, i) /\ v.sys = w.sys
  BY <1>2, SetIfIs DEF OnlyIf
<1> HIDE DEF v
<1>5. Zeros(v, w)
  BY <1>4 DEF Zeros
<1>6. Touches(v, w, D, d) /\ v.ifs[d] = i
  BY <1>4, <1>5, OnlyIfTouches
<1> QED
  BY <1>2, <1>3, <1>4, <1>6

(* if_activate() leaves an interface active that is as it should be, or      *)
(* inactive for a reason.                                                    *)
LEMMA ActivateIs ==
  ASSUME NEW D \in SUBSET Devs, NEW w \in Worlds(D), NEW d \in D, NEW ok \in BOOLEAN, Ttl \in Nat,
         kernel \in [Devs -> Kernels], kernel[d].up
  PROVE  Touches(Activate(w, d, ok), w, D, d) /\ Good(Activate(w, d, ok), d, ok)
<1> DEFINE known == Counted([w EXCEPT !.ifs[d] = Known(@, d)], d)
           zeroed == CheckKernelConfig(known, d)
           active == Activated(zeroed, d)
           run == Reconfigure(active, d)
           m == active.mtuMin
           end == SetMtus(run, run.mtuMin, m)
           none == [w EXCEPT !.ifs[d].addr = NoAddr]
           v == Activate(w, d, ok)
<1>1. kernel[d].addr \in Addrs /\ kernel[d].mtu \in Nat
  BY KernelIs
<1>2. known \in Worlds(D) /\ Touches(known, w, D, d) /\ known.mtuMin <= kernel[d].mtu
      /\ known.ifs[d] = Known(w.ifs[d], d)
  BY KnownCountedIs
<1>3. CASE kernel[d].addr = NoAddr
  <2>1. none \in Worlds(D) /\ Touches(none, w, D, d)
    <3>1. NoAddr \in Addrs
      BY DEF Addrs
    <3> QED
      BY <3>1, IfAddrTouches
  <2>2. v = Deactivate(none, d)
    BY <1>3 DEF Activate
  <2> HIDE DEF none, v
  <2>3. Touches(v, none, D, d) /\ ~ v.ifs[d].active
    BY <2>1, <2>2, DeactivateTouches
  <2>4. Touches(v, w, D, d)
    BY <2>1, <2>3, TouchesOn
  <2>5. Good(v, d, ok)
    BY <1>3, <2>3, InactiveIsGood
  <2> QED
    BY <2>4, <2>5 DEF v
<1>4. CASE kernel[d].addr # NoAddr /\ ~ ok
  <2>1. v = Deactivate(known, d)
    BY <1>4 DEF Activate
  <2> HIDE DEF known, v
  <2>2. Touches(v, known, D, d) /\ ~ v.ifs[d].active
    BY <1>2, <2>1, DeactivateTouches
  <2>3. Touches(v, w, D, d)
    BY <1>2, <2>2, TouchesOn
  <2>4. Good(v, d, ok)
    BY <1>4, <2>2, InactiveIsGood
  <2> QED
    BY <2>3, <2>4 DEF v
<1>5. CASE kernel[d].addr # NoAddr /\ ok
  <2>1. v = [run EXCEPT !.announced = m]
    BY <1>5 DEF Activate
  <2> DEFINE i == Known(w.ifs[d], d)
             j == On(i)
  <2>2. /\ i \in If /\ i.addr = kernel[d].addr /\ i.mtu = kernel[d].mtu
        /\ i.ll = LinkLayer(w.ifs[d], d) /\ i.llConf = w.ifs[d].llConf
    <3>1. w.ifs[d] \in If
      BY WorldFields
    <3> QED
      BY <3>1, KnownIs
  <2>3. i.ll = LinkLayer(i, d)
    <3>1. w.ifs[d] \in If
      BY WorldFields
    <3> HIDE DEF i
    <3> QED
      BY <2>2, <3>1, LinkLayerIs
  <2>4. known.ifs[d] = i
    BY <1>2
  <2> HIDE DEF known, v, i
  <2>5. /\ j \in If /\ j.addr = i.addr /\ j.mtu = i.mtu /\ j.ll = i.ll /\ j.llConf = i.llConf
        /\ j.active /\ ~ j.hard
    BY <2>2, OnIs
  <2>6. LinkLayer(j, d) = LinkLayer(i, d)
    BY <2>2, <2>5, LinkLayerIs
  <2>7. /\ zeroed \in Worlds(D) /\ SameIfs(zeroed, known) /\ Zeros(zeroed, known)
        /\ zeroed.sys[File(d)] = 0
    BY <1>2, CheckKernelConfigIs
  <2> HIDE DEF zeroed
  <2>8. zeroed.ifs[d] = i /\ zeroed.ifs \in [D -> If] /\ known.mtuMin \in Nat
        /\ zeroed.mtuMin = known.mtuMin
    BY <1>2, <2>4, <2>7, WorldFields DEF SameIfs
  <2>9. Touches(zeroed, known, D, d)
    <3>1. zeroed.mtuMin <= known.mtuMin
      BY <2>8
    <3> QED
      BY <2>7, <3>1 DEF SameIfs, Touches
  <2>10. /\ active \in Worlds(D) /\ active.ifs = [zeroed.ifs EXCEPT ![d] = j]
         /\ active.mtuMin = zeroed.mtuMin /\ active.sys = zeroed.sys
         /\ active.primaryAddr = IF d = Primary THEN i.addr ELSE zeroed.primaryAddr
    BY <2>7, <2>8, ActivatedIs
  <2> HIDE DEF active, j
  <2>11. active.ifs[d] = j
    BY <2>8, <2>10
  <2>12. Touches(active, zeroed, D, d)
    <3>1. active.mtuMin <= zeroed.mtuMin
      BY <2>8, <2>10
    <3>2. \A e \in D : e # d => active.ifs[e] = zeroed.ifs[e]
      BY <2>8, <2>10
    <3> QED
      BY <2>10, <3>1, <3>2 DEF Touches, Zeros
  <2>13. Prepared(active, d, ok)
    <3>1. CurrentAt(j, kernel[d], active.mtuMin, ok)
      <4>1. active.mtuMin <= j.mtu
        BY <1>2, <2>2, <2>5, <2>8, <2>10
      <4> QED
        BY <1>5, <2>2, <2>5, <4>1 DEF CurrentAt
    <3> QED
      BY <2>3, <2>5, <2>6, <2>7, <2>10, <2>11, <3>1 DEF Prepared
  <2>14. Touches(run, active, D, d) /\ Good(run, d, ok)
    BY <2>10, <2>13, PreparedReconfigured
  <2>15. run \in Worlds(D) /\ run.mtuMin \in Nat /\ m \in Nat
    BY <2>10, <2>14, WorldFields DEF Touches
  <2>16. v = end
    BY <2>1, <2>15 DEF SetMtus, Worlds
  <2> HIDE DEF run, m
  <2>17. end \in Worlds(D) /\ SameBut(end, run)
    BY <2>15, SetMtusIs DEF SameBut
  <2> HIDE DEF end
  <2>18. Touches(end, run, D, d) /\ Good(end, d, ok)
    BY <2>14, <2>15, <2>17, SameIsGood
  <2>19. Touches(zeroed, w, D, d)
    BY <1>2, <2>9, TouchesOn
  <2>20. Touches(active, w, D, d)
    BY <2>12, <2>19, TouchesOn
  <2>21. Touches(run, w, D, d)
    BY <2>14, <2>20, TouchesOn
  <2>22. Touches(end, w, D, d)
    BY <2>18, <2>21, TouchesOn
  <2> QED
    BY <2>16, <2>18, <2>22 DEF v
<1> QED
  BY <1>3, <1>4, <1>5

-----------------------------------------------------------------------------
(* One interface in check_interfaces().                                      *)

(* It was as it should be, and is now, or it is inactive.                    *)
LEMMA SeenIs ==
  ASSUME NEW D \in SUBSET Devs, NEW w \in Worlds(D), NEW d \in D, NEW ok, Was(w, d)
  PROVE  LET v == Seen(w, d)
         IN  /\ Touches(v, w, D, d)
             /\ v.ifs[d].active => Was(v, d) /\ CurrentAt(v.ifs[d], kernel[d], v.mtuMin, ok)
<1> DEFINE i == w.ifs[d]
           v == Seen(w, d)
           bad == i.active /\ kernel[d].up /\ ~i.hard /\ ~Validates(i, d)
<1>0. Was(w, d) /\ i \in If /\ w.mtuMin \in Nat
  BY WorldFields
<1>1. CASE i.active /\ kernel[d].up /\ ~i.hard /\ Validates(i, d)
  <2>1. v = Counted(w, d)
    BY <1>1 DEF Seen
  <2>2. IsCounted(v, w, D, d)
    BY <2>1, CountedIs
  <2> HIDE DEF v
  <2>3. Touches(v, w, D, d)
    BY <2>2 DEF IsCounted, Touches, Zeros
  <2>4. Was(v, d)
    BY <1>0, <2>2 DEF IsCounted, Was
  <2>5. CurrentAt(v.ifs[d], kernel[d], v.mtuMin, ok)
    BY <1>1, <2>2 DEF IsCounted, CurrentAt, Validates
  <2> QED
    BY <2>3, <2>4, <2>5 DEF v
<1>2. CASE i.active /\ ~ (kernel[d].up /\ ~i.hard /\ Validates(i, d))
  <2> DEFINE a == IF bad THEN NoAddr ELSE i.addr
             u == [w EXCEPT !.ifs[d].addr = a]
             x == Deactivate(u, d)
  <2>1. v = SetTold(x)
    BY <1>2 DEF Seen, SetTold
  <2>2. a \in Addrs
    BY <1>0 DEF Addrs, If
  <2> HIDE DEF a, v
  <2>3. u \in Worlds(D) /\ Touches(u, w, D, d)
    BY <2>2, IfAddrTouches
  <2> HIDE DEF u
  <2>4. Touches(x, u, D, d) /\ ~ x.ifs[d].active
    BY <2>3, DeactivateTouches
  <2> HIDE DEF x
  <2>5. Touches(x, w, D, d) /\ x \in Worlds(D)
    BY <2>3, <2>4, TouchesOn DEF Touches
  <2>6. v \in Worlds(D) /\ SameBut(v, x)
    BY <2>1, <2>5, SetToldIs
  <2>7. Touches(v, x, D, d)
    BY <2>5, <2>6, SameIsGood
  <2>8. Touches(v, w, D, d)
    BY <2>5, <2>7, TouchesOn
  <2>9. ~ v.ifs[d].active
    BY <2>4, <2>6 DEF SameBut
  <2> QED
    BY <2>8, <2>9 DEF v
<1>3. CASE ~ i.active
  <2>1. v = w
    BY <1>3 DEF Seen
  <2>2. Touches(v, w, D, d)
    BY <1>0, <2>1 DEF Touches, Zeros
  <2> QED
    BY <1>3, <2>1, <2>2
<1> QED
  BY <1>1, <1>2, <1>3

SetSoft(i, s) == [i EXCEPT !.soft = s]

LEMMA MarkedIs ==
  ASSUME NEW D \in SUBSET Devs, NEW w \in Worlds(D), NEW d \in D, NEW ok, soft \in BOOLEAN,
         w.ifs[d].active => Was(w, d) /\ CurrentAt(w.ifs[d], kernel[d], w.mtuMin, ok)
  PROVE  LET v == Marked(w, d)
         IN  /\ Touches(v, w, D, d) /\ v.ifs[d].active = w.ifs[d].active
             /\ v.ifs[d].active => Sees(v, d, ok)
<1> DEFINE i == w.ifs[d]
           j == SetSoft(i, i.soft \/ soft)
           v == SetIf(w, d, j)
<1>1. i \in If
  BY WorldFields
<1>2. /\ j \in If /\ j.active = i.active /\ j.addr = i.addr /\ j.mtu = i.mtu /\ j.ttl = i.ttl
      /\ j.clones = i.clones /\ j.ll = i.ll /\ j.hard = i.hard /\ j.llConf = i.llConf
      /\ j.ttlConf = i.ttlConf
  BY <1>1 DEF SetSoft, If
<1>3. ~ j.soft => ~ i.soft /\ ~ soft
  BY <1>1 DEF SetSoft, If
<1>4. v = Marked(w, d)
  BY DEF Marked, SetIf, SetSoft
<1>5. i.active => Was(w, d) /\ CurrentAt(i, kernel[d], w.mtuMin, ok)
  OBVIOUS
<1>6. LinkLayer(j, d) = LinkLayer(i, d)
  BY <1>1, <1>2, LinkLayerIs
<1> HIDE DEF j
<1>7. v \in Worlds(D) /\ OnlyIf(v, w, d, j) /\ v.sys = w.sys
  BY <1>2, SetIfIs DEF OnlyIf
<1> HIDE DEF v
<1>8. Touches(v, w, D, d) /\ v.ifs[d] = j
  <2>1. Zeros(v, w)
    BY <1>7 DEF Zeros
  <2> QED
    BY <1>7, <2>1, OnlyIfTouches
<1>9. j.active => KeptAt(j, d, FALSE, Ttl, v.primaryAddr, v.sys[File(d)], pedantic)
  BY <1>2, <1>3, <1>5, <1>6, <1>7 DEF Was, KeptAt, OnlyIf, TtlOf
<1>10. j.active => CurrentAt(j, kernel[d], v.mtuMin, ok)
  BY <1>2, <1>5, <1>7 DEF CurrentAt, OnlyIf
<1> QED
  BY <1>2, <1>4, <1>8, <1>9, <1>10 DEF Sees

LEMMA CheckedIs ==
  ASSUME NEW D \in SUBSET Devs, NEW w \in Worlds(D), NEW d \in D, NEW ok \in BOOLEAN, Ttl \in Nat,
         soft \in BOOLEAN, kernel \in [Devs -> Kernels], Was(w, d)
  PROVE  Touches(Checked(w, d, ok), w, D, d) /\ Good(Checked(w, d, ok), d, ok)
<1> DEFINE seen == Seen(w, d)
           marked == Marked(seen, d)
           up == IF ~ marked.ifs[d].active /\ kernel[d].up THEN Activate(marked, d, ok) ELSE marked
           end == IF up.ifs[d].soft THEN Reconfigure(up, d) ELSE up
           v == Checked(w, d, ok)
<1>1. v = end
  BY DEF Checked
<1>2. /\ Touches(seen, w, D, d) /\ seen \in Worlds(D)
      /\ seen.ifs[d].active => Was(seen, d) /\ CurrentAt(seen.ifs[d], kernel[d], seen.mtuMin, ok)
  BY SeenIs DEF Touches
<1> HIDE DEF seen
<1>3. Touches(marked, seen, D, d) /\ (marked.ifs[d].active => Sees(marked, d, ok))
  BY <1>2, MarkedIs
<1> HIDE DEF marked
<1>4. Touches(marked, w, D, d) /\ marked \in Worlds(D)
  BY <1>2, <1>3, TouchesOn DEF Touches
<1>5. Touches(up, w, D, d) /\ Sees(up, d, ok)
  <2>1. CASE ~ marked.ifs[d].active /\ kernel[d].up
    <3>1. up = Activate(marked, d, ok)
      BY <2>1
    <3> HIDE DEF up
    <3>2. Touches(up, marked, D, d) /\ Good(up, d, ok)
      BY <1>4, <2>1, <3>1, ActivateIs
    <3> QED
      BY <1>4, <3>2, TouchesOn DEF Good
  <2>2. CASE ~ marked.ifs[d].active /\ ~ kernel[d].up
    <3>1. up = marked
      BY <2>2
    <3> QED
      BY <1>4, <2>2, <3>1, InactiveIsGood DEF Good
  <2>3. CASE marked.ifs[d].active
    <3>1. up = marked
      BY <2>3
    <3> QED
      BY <1>3, <1>4, <2>3, <3>1
  <2>4. marked.ifs[d].active \in BOOLEAN /\ kernel[d].up \in BOOLEAN
    BY <1>4, WorldFields, KernelIs DEF If
  <2> QED
    BY <2>1, <2>2, <2>3
<1> HIDE DEF up
<1>6. up \in Worlds(D)
  BY <1>5 DEF Touches
<1>7. CASE up.ifs[d].soft
  <2>1. end = Reconfigure(up, d)
    BY <1>7
  <2>2. Prepared(up, d, ok)
    BY <1>5, SeesPrepared
  <2> HIDE DEF end
  <2>3. Touches(end, up, D, d) /\ Good(end, d, ok)
    BY <1>6, <2>1, <2>2, PreparedReconfigured
  <2>4. Touches(end, w, D, d)
    BY <1>5, <2>3, TouchesOn
  <2> QED
    BY <1>1, <2>3, <2>4
<1>8. CASE ~ up.ifs[d].soft
  <2>1. end = up
    BY <1>8
  <2>2. Good(up, d, ok)
    BY <1>5, <1>8 DEF Good, Settled
  <2> QED
    BY <1>1, <1>5, <2>1, <2>2
<1> QED
  BY <1>7, <1>8

-----------------------------------------------------------------------------
(* All of them.                                                              *)
TypedIfs ==
  /\ DOMAIN ifs \subseteq Devs /\ Primary \in DOMAIN ifs /\ ifs \in [DOMAIN ifs -> If]
  /\ mtuMin \in Nat /\ primaryAddr \in Addrs /\ announced \in Nat
  /\ sys \in [Files -> Nat] /\ backup \in [Devs \cup {All} -> Nat \cup {Unset}]
  /\ touched \in BOOLEAN /\ kernel \in [Devs -> Kernels] /\ Ttl \in Nat /\ soft \in BOOLEAN

AllKept == \A d \in DOMAIN ifs : KeptAt(ifs[d], d, soft, Ttl, primaryAddr, sys[File(d)], pedantic)
AllCurrent ==
  ~ soft /\ \A d \in DOMAIN ifs : CurrentAt(ifs[d], kernel[d], mtuMin, d \notin failed) /\ Settled(ifs[d])

IfsInv == phase # "ended" => TypedIfs /\ AllKept /\ (checked => AllCurrent)

WorldIn(D) ==
  /\ World \in Worlds(D) /\ World.ifs = ifs /\ World.mtuMin = mtuMin
  /\ World.primaryAddr = primaryAddr /\ World.sys = sys

LEMMA WorldIs ==
  ASSUME TypedIfs
  PROVE  WorldIn(DOMAIN ifs)
BY DEF TypedIfs, WorldIn, World, Worlds

Fit(D) == {w \in Worlds(D) : \A d \in D : Was(w, d)}
FirstWorld == SetMtus(World, MaxMtu, World.announced)

LEMMA StartFits ==
  ASSUME TypedIfs, AllKept
  PROVE  FirstWorld \in Fit(DOMAIN ifs) /\ FirstWorld = [World EXCEPT !.mtuMin = MaxMtu]
<1> DEFINE D == DOMAIN ifs
<1>1. WorldIn(D)
  BY WorldIs
<1>3. World \in Worlds(D)
  BY <1>1 DEF WorldIn
<1>2. MaxMtu \in Nat /\ World.announced \in Nat
  BY <1>3, WorldFields, InterfacesAssumption DEF InterfacesAssumption
<1>4. /\ FirstWorld \in Worlds(D)
      /\ FirstWorld.ifs = World.ifs /\ FirstWorld.primaryAddr = World.primaryAddr /\ FirstWorld.sys = World.sys
  BY <1>2, <1>3, SetMtusIs DEF FirstWorld
<1>5. FirstWorld.ifs = ifs /\ FirstWorld.primaryAddr = primaryAddr /\ FirstWorld.sys = sys
  BY <1>1, <1>4 DEF WorldIn
<1>6. ASSUME NEW d \in D PROVE Was(FirstWorld, d)
  <2>1. KeptAt(ifs[d], d, soft, Ttl, primaryAddr, sys[File(d)], pedantic)
    BY DEF AllKept
  <2> QED
    BY <1>5, <2>1 DEF Was
<1>7. FirstWorld = [World EXCEPT !.mtuMin = MaxMtu]
  BY <1>3 DEF FirstWorld, SetMtus, Worlds
<1> QED
  BY <1>4, <1>6, <1>7 DEF Fit

Ordered(order, D) == order \in Seq(D) /\ \A d \in D : \E i \in 1..Len(order) : order[i] = d

(* An element in front of the others in any order.                           *)
LEMMA FirstThenRest ==
  ASSUME NEW e, NEW R, IsFiniteSet(R)
  PROVE  Ordered(<<e>> \o SetToSeq(R), {e} \cup R)
<1> DEFINE D == {e} \cup R
           a == <<e>>
           b == SetToSeq(R)
           o == a \o b
<1>1. b \in Seq(R) /\ \A x \in R : \E i \in DOMAIN b : b[i] = x
  BY SetToSeqIs
<1>2. a \in Seq(D) /\ Len(a) = 1 /\ a[1] = e
  OBVIOUS
<1> HIDE DEF a, b
<1>3. Len(b) \in Nat /\ DOMAIN b = 1..Len(b)
  BY <1>1
<1>4. b \in Seq(D)
  <2>1. \A i \in 1..Len(b) : b[i] \in D
    BY <1>1, <1>3
  <2> QED
    BY <1>1, <1>3, <2>1
<1>5. /\ o \in Seq(D) /\ Len(o) = Len(a) + Len(b)
      /\ \A i \in 1..(Len(a) + Len(b)) : o[i] = IF i <= Len(a) THEN a[i] ELSE b[i - Len(a)]
  <2> HIDE DEF D
  <2> QED
    BY <1>2, <1>4, ConcatProperties
<1> HIDE DEF o
<1>6. ASSUME NEW d \in D PROVE \E i \in 1..Len(o) : o[i] = d
  <2>1. CASE d = e
    <3>1. 1 \in 1..Len(o) /\ o[1] = e
      BY <1>2, <1>3, <1>5
    <3> QED
      BY <2>1, <3>1
  <2>2. CASE d \in R
    <3>1. PICK i \in 1..Len(b) : b[i] = d
      BY <1>1, <1>3, <2>2
    <3>2. i + 1 \in 1..Len(o) /\ o[i + 1] = b[i]
      BY <1>2, <1>3, <1>5
    <3> QED
      BY <3>1, <3>2
  <2> QED
    BY <2>1, <2>2
<1> QED
  BY <1>5, <1>6 DEF Ordered, o, a, b

IfOrder == <<Primary>> \o SetToSeq(DOMAIN ifs \ {Primary})

LEMMA IfOrderIs ==
  ASSUME TypedIfs
  PROVE  Ordered(IfOrder, DOMAIN ifs)
<1> DEFINE R == DOMAIN ifs \ {Primary}
<1>1. IsFiniteSet(R)
  <2>1. R \subseteq Devs /\ IsFiniteSet(Devs)
    BY InterfacesAssumption DEF InterfacesAssumption, TypedIfs
  <2> QED
    BY <2>1, FS_Subset
<1>2. {Primary} \cup R = DOMAIN ifs
  BY DEF TypedIfs
<1> HIDE DEF R
<1>3. Ordered(<<Primary>> \o SetToSeq(R), DOMAIN ifs)
  BY <1>1, <1>2, FirstThenRest
<1> QED
  BY <1>3 DEF IfOrder, R

(* One step of the walk.                                                     *)
LEMMA CheckedFits ==
  ASSUME TypedIfs, NEW w \in Fit(DOMAIN ifs), NEW d \in DOMAIN ifs, NEW ok \in BOOLEAN
  PROVE  /\ Checked(w, d, ok) \in Fit(DOMAIN ifs) /\ Good(Checked(w, d, ok), d, ok)
         /\ Touches(Checked(w, d, ok), w, DOMAIN ifs, d)
<1> DEFINE D == DOMAIN ifs
           v == Checked(w, d, ok)
<1>1. D \in SUBSET Devs /\ w \in Worlds(D) /\ Was(w, d) /\ Ttl \in Nat /\ soft \in BOOLEAN
      /\ kernel \in [Devs -> Kernels] /\ \A e \in D : Was(w, e)
  BY DEF TypedIfs, Fit
<1>2. Touches(v, w, D, d) /\ Good(v, d, ok)
  BY <1>1, CheckedIs
<1> HIDE DEF v
<1>3. ASSUME NEW e \in D PROVE Was(v, e)
  <2>1. CASE e = d
    BY <1>1, <1>2, <2>1, GoodWas
  <2>2. CASE e # d
    BY <1>1, <1>2, <2>2, TouchesOthers
  <2> QED
    BY <2>1, <2>2
<1>4. v \in Worlds(D)
  BY <1>2 DEF Touches
<1> QED
  BY <1>2, <1>3, <1>4 DEF Fit, v

ChecksAll(f, order, broken) ==
  /\ f \in [0..Len(order) -> Fit(DOMAIN ifs)]
  /\ \A k \in 1..Len(order) : f[k] = Checked(f[k - 1], order[k], order[k] \notin broken)
  /\ AllChecked(broken) = IF f[Len(order)].told
                          THEN [f[Len(order)] EXCEPT !.announced = f[Len(order)].mtuMin]
                          ELSE f[Len(order)]

LEMMA CheckedWalk ==
  ASSUME TypedIfs, AllKept, NEW broken
  PROVE  \E f : ChecksAll(f, IfOrder, broken)
<1> DEFINE order == IfOrder
           n == Len(order)
           T == Fit(DOMAIN ifs)
           base == [World EXCEPT !.mtuMin = MaxMtu]
           After(w, k) == Checked(w, order[k], order[k] \notin broken)
           Val(f, k) == IF k = 0 THEN base ELSE After(f[k - 1], k)
           Whole(f) == [k \in 0..n |-> Val(f, k)]
           step == [x \in T \X (1..n) |-> After(x[1], x[2])]
<1>1. n \in Nat /\ base \in T /\ \A k \in 1..n : order[k] \in DOMAIN ifs
  <2>1. order \in Seq(DOMAIN ifs)
    BY IfOrderIs DEF Ordered
  <2>2. base \in T
    BY StartFits
  <2> HIDE DEF order, base, T
  <2> QED
    BY <2>1, <2>2
<1>2. \A w \in T, k \in 1..n : After(w, k) \in T
  <2> TAKE w \in T, k \in 1..n
  <2>1. order[k] \in DOMAIN ifs /\ (order[k] \notin broken) \in BOOLEAN
    BY <1>1
  <2> QED
    BY <2>1, CheckedFits
<1> HIDE DEF order, base, T
<1>3. step \in [T \X (1..n) -> T]
  <2> HIDE DEF After, n
  <2> QED
    BY <1>2
<1>4. \A w \in T, k \in 1..n : step[<<w, k>>] = After(w, k)
  <2> HIDE DEF After
  <2> QED
    OBVIOUS
<1>5. PICK f : Walks(f, T, base, n, step)
  <2> HIDE DEF step, n, Whole, After
  <2> QED
    BY <1>1, <1>3, WalkExists
<1>6. f \in [0..n -> T] /\ f[0] = base /\ \A k \in 1..n : f[k] = After(f[k - 1], k)
  <2>1. f \in [0..n -> T] /\ f[0] = base /\ \A k \in 1..n : f[k] = step[<<f[k - 1], k>>]
    BY <1>5 DEF Walks
  <2>2. \A k \in 1..n : f[k - 1] \in T
    BY <1>1, <2>1
  <2> HIDE DEF step, After, n
  <2> QED
    BY <1>4, <2>1, <2>2
<1>7. f = Whole(f)
  <2>1. \A k \in 0..n : k # 0 => k \in 1..n
    BY <1>1
  <2>2. \A k \in 0..n : f[k] = Val(f, k)
    <3> HIDE DEF After
    <3> QED
      BY <1>6, <2>1
  <2> HIDE DEF Val, n
  <2> QED
    BY <1>6, <2>2
<1> DEFINE g == CHOOSE h : h = Whole(h)
<1>8. g = Whole(g)
  BY <1>7, Zenon
<1>9. AllChecked(broken) = IF g[n].told THEN [g[n] EXCEPT !.announced = g[n].mtuMin] ELSE g[n]
  BY DEF AllChecked, order, base, IfOrder
<1> HIDE DEF g
<1>10. DOMAIN g = 0..n /\ g[0] = base /\ \A k \in 1..n : g[k] = After(g[k - 1], k)
  <2>1. DOMAIN g = 0..n /\ \A k \in 0..n : g[k] = Val(g, k)
    <3> HIDE DEF Val, n
    <3> QED
      BY <1>8
  <2>2. 0 \in 0..n /\ \A k \in 1..n : k \in 0..n /\ k # 0
    BY <1>1
  <2>3. Val(g, 0) = base /\ \A k \in 1..n : Val(g, k) = After(g[k - 1], k)
    BY <2>2
  <2> HIDE DEF Val, After, n
  <2> QED
    BY <2>1, <2>2, <2>3
<1>11. g[n] = f[n]
  <2>1. g[0] = f[0] /\ \A k \in 1..n : g[k - 1] = f[k - 1] => g[k] = f[k]
    <3> HIDE DEF n
    <3> QED
      BY <1>6, <1>10
  <2> HIDE DEF After, n
  <2> QED
    BY <1>1, <2>1, WalkUnique
<1>12. ChecksAll(f, order, broken)
  <2> HIDE DEF n
  <2>1. AllChecked(broken) = IF f[n].told THEN [f[n] EXCEPT !.announced = f[n].mtuMin] ELSE f[n]
    BY <1>9, <1>11
  <2> QED
    BY <1>6, <2>1 DEF ChecksAll, n, T
<1> QED
  BY <1>12 DEF order

(* All are as they should be when check_interfaces() is through.             *)
LEMMA AllCheckedGood ==
  ASSUME TypedIfs, AllKept, NEW broken
  PROVE  /\ AllChecked(broken) \in Worlds(DOMAIN ifs)
         /\ \A d \in DOMAIN ifs : Good(AllChecked(broken), d, d \notin broken)
<1> DEFINE D == DOMAIN ifs
           order == IfOrder
           n == Len(order)
<1>1. PICK f : ChecksAll(f, order, broken)
  BY CheckedWalk
<1>2. Ordered(order, D)
  BY IfOrderIs
<1> HIDE DEF order
<1>3. n \in Nat /\ \A k \in 1..n : order[k] \in D
  BY <1>2 DEF Ordered
<1> DEFINE S == {k \in 0..n : \A i \in 1..k : Good(f[k], order[i], order[i] \notin broken)}
<1>4. 0 \in S
  BY <1>3
<1>5. ASSUME NEW k \in 1..n, k - 1 \in S PROVE k \in S
  <2> DEFINE w == f[k - 1]
             v == f[k]
             d == order[k]
             ok == d \notin broken
  <2>1. k - 1 \in 0..n /\ k \in 0..n
    BY <1>3
  <2>2. w \in Fit(D)
    BY <1>1, <2>1 DEF ChecksAll
  <2>3. v = Checked(w, d, ok)
    BY <1>1 DEF ChecksAll
  <2>4. d \in D /\ ok \in BOOLEAN
    BY <1>3
  <2>5. \A i \in 1..(k - 1) : Good(w, order[i], order[i] \notin broken)
    BY <1>5
  <2> HIDE DEF w, v, ok
  <2>6. Touches(v, w, D, d) /\ Good(v, d, ok)
    BY <2>2, <2>3, <2>4, CheckedFits
  <2>7. ASSUME NEW i \in 1..k PROVE Good(v, order[i], order[i] \notin broken)
    <3>1. CASE order[i] = d
      BY <2>6, <3>1 DEF ok
    <3>2. CASE order[i] # d
      <4>1. i \in 1..(k - 1) /\ i \in 1..n
        BY <1>3, <3>2
      <4> DEFINE e == order[i]
                 fine == e \notin broken
      <4>2. Good(w, e, fine) /\ e \in D /\ e # d
        BY <1>3, <2>5, <3>2, <4>1
      <4>3. D \in SUBSET Devs /\ w \in Worlds(D)
        BY <2>2 DEF TypedIfs, Fit
      <4> HIDE DEF e, d, fine, D
      <4>4. Good(v, e, fine)
        BY <2>4, <2>6, <4>2, <4>3, TouchesOthers
      <4> QED
        BY <4>4 DEF e, fine
    <3> QED
      BY <3>1, <3>2
  <2> QED
    BY <2>1, <2>7 DEF v
<1>6. n \in S
  <2>1. \A k \in 0..n : k \in S
    <3> HIDE DEF S
    <3> QED
      BY <1>3, <1>4, <1>5, UpTo
  <2> HIDE DEF S
  <2> QED
    BY <1>3, <2>1
<1> DEFINE end == f[n]
           v == AllChecked(broken)
<1>7. end \in Worlds(D) /\ v = IF end.told THEN [end EXCEPT !.announced = end.mtuMin] ELSE end
  <2>1. n \in 0..n
    BY <1>3
  <2> QED
    BY <1>1, <2>1 DEF ChecksAll, Fit
<1>8. ASSUME NEW d \in D PROVE Good(end, d, d \notin broken)
  <2>1. PICK i \in 1..n : order[i] = d
    BY <1>2 DEF Ordered
  <2> QED
    BY <1>6, <2>1
<1> HIDE DEF end, v
<1>9. v \in Worlds(D) /\ SameBut(v, end)
  <2>1. CASE ~ end.told
    BY <1>7, <2>1 DEF SameBut
  <2>2. CASE end.told
    <3> DEFINE m == end.mtuMin
    <3>1. m \in Nat
      BY <1>7, WorldFields
    <3>2. v = SetMtus(end, m, m)
      BY <1>7, <2>2 DEF SetMtus, Worlds
    <3> HIDE DEF m
    <3>3. /\ SetMtus(end, m, m) \in Worlds(D)
          /\ SetMtus(end, m, m).ifs = end.ifs /\ SetMtus(end, m, m).mtuMin = m
          /\ SetMtus(end, m, m).primaryAddr = end.primaryAddr /\ SetMtus(end, m, m).sys = end.sys
      BY <1>7, <3>1, SetMtusIs
    <3> QED
      BY <3>2, <3>3 DEF SameBut, m
  <2> QED
    BY <2>1, <2>2
<1>10. ASSUME NEW d \in D PROVE Good(v, d, d \notin broken)
  <2>1. Good(end, d, d \notin broken)
    BY <1>8
  <2> QED
    BY <1>7, <1>9, <2>1, SameIsGood
<1> QED
  BY <1>9, <1>10 DEF v

-----------------------------------------------------------------------------
(* The actions.                                                              *)
LEMMA StoredTyped ==
  ASSUME NEW D \in SUBSET Devs, Primary \in D, NEW w \in Worlds(D), Store(w),
         kernel' \in [Devs -> Kernels], Ttl' \in Nat, soft' \in BOOLEAN
  PROVE  TypedIfs' /\ ifs' = w.ifs /\ mtuMin' = w.mtuMin /\ primaryAddr' = w.primaryAddr
         /\ sys' = w.sys /\ DOMAIN ifs' = D
<1>1. /\ w.ifs \in [D -> If] /\ w.mtuMin \in Nat /\ w.primaryAddr \in Addrs
      /\ w.announced \in Nat /\ w.sys \in [Files -> Nat]
      /\ w.backup \in [Devs \cup {All} -> Nat \cup {Unset}] /\ w.touched \in BOOLEAN
  BY WorldFields
<1>2. DOMAIN w.ifs = D
  BY <1>1
<1> QED
  BY <1>1, <1>2 DEF Store, TypedIfs

LEMMA CheckInterfacesKeeps ==
  ASSUME IfsInv, CheckInterfaces
  PROVE  IfsInv'
<1> DEFINE D == DOMAIN ifs
<1>1. PICK broken \in SUBSET DOMAIN ifs : \E w \in {AllChecked(broken)} :
         IF phase = "starting" /\ ~w.ifs[Primary].active
         THEN phase' = "ended"
         ELSE /\ Store([w EXCEPT !.announced = IF line THEN w.mtuMin ELSE @])
              /\ soft' = FALSE /\ failed' = broken /\ UNCHANGED <<Ttl, pedantic>>
  BY DEF CheckInterfaces
<1> DEFINE w == AllChecked(broken)
           a == IF line THEN w.mtuMin ELSE w.announced
           m == w.mtuMin
           v == SetMtus(w, m, a)
<1>2. TypedIfs /\ AllKept /\ kernel' = kernel
  BY DEF IfsInv, CheckInterfaces, kernelSide
<1>3. w \in Worlds(D) /\ \A d \in D : Good(w, d, d \notin broken)
  BY <1>2, AllCheckedGood
<1>4. \/ phase' = "ended"
      \/ /\ Store([w EXCEPT !.announced = IF line THEN w.mtuMin ELSE @])
         /\ soft' = FALSE /\ failed' = broken /\ UNCHANGED <<Ttl, pedantic>>
  BY <1>1
<1> HIDE DEF w
<1>5. m \in Nat /\ a \in Nat
  BY <1>3, WorldFields
<1>6. v = [w EXCEPT !.announced = IF line THEN w.mtuMin ELSE @]
  BY <1>3 DEF SetMtus, Worlds
<1> HIDE DEF a
<1>7. v \in Worlds(D) /\ SameBut(v, w)
  <2>1. /\ SetMtus(w, m, a) \in Worlds(D)
        /\ SetMtus(w, m, a).ifs = w.ifs /\ SetMtus(w, m, a).mtuMin = m
        /\ SetMtus(w, m, a).primaryAddr = w.primaryAddr /\ SetMtus(w, m, a).sys = w.sys
    <3> HIDE DEF m
    <3> QED
      BY <1>3, <1>5, SetMtusIs
  <2> QED
    BY <2>1 DEF SameBut
<1> HIDE DEF v
<1>8. CASE phase' = "ended"
  BY <1>8 DEF IfsInv
<1>9. CASE /\ Store(v) /\ soft' = FALSE /\ failed' = broken /\ Ttl' = Ttl /\ pedantic' = pedantic
  <2>1. TypedIfs' /\ ifs' = v.ifs /\ mtuMin' = v.mtuMin /\ primaryAddr' = v.primaryAddr
        /\ sys' = v.sys /\ DOMAIN ifs' = D
    <3>1. D \in SUBSET Devs /\ Primary \in D
      BY <1>2 DEF TypedIfs
    <3>2. kernel' \in [Devs -> Kernels] /\ Ttl' \in Nat /\ soft' \in BOOLEAN
      BY <1>2, <1>9 DEF TypedIfs
    <3> QED
      BY <1>7, <1>9, <3>1, <3>2, StoredTyped
  <2>2. ASSUME NEW d \in D
        PROVE  /\ KeptAt(v.ifs[d], d, FALSE, Ttl, v.primaryAddr, v.sys[File(d)], pedantic)
               /\ CurrentAt(v.ifs[d], kernel[d], v.mtuMin, d \notin broken) /\ Settled(v.ifs[d])
    <3>1. Good(w, d, d \notin broken)
      BY <1>3
    <3>2. Good(v, d, d \notin broken)
      BY <1>3, <1>7, <3>1, SameIsGood
    <3> QED
      BY <3>2 DEF Good, Sees
  <2>3. AllKept'
    <3>1. \A d \in D : KeptAt(ifs'[d], d, soft', Ttl', primaryAddr', sys'[File(d)], pedantic')
      BY <1>9, <2>1, <2>2
    <3> QED
      BY <2>1, <3>1 DEF AllKept
  <2>4. AllCurrent'
    <3>1. \A d \in D : CurrentAt(ifs'[d], kernel'[d], mtuMin', d \notin failed') /\ Settled(ifs'[d])
      BY <1>2, <1>9, <2>1, <2>2
    <3> QED
      BY <1>9, <2>1, <3>1 DEF AllCurrent
  <2> QED
    BY <2>1, <2>3, <2>4 DEF IfsInv
<1> QED
  BY <1>4, <1>6, <1>8, <1>9

ConfigOrder == <<All>> \o SetToSeq({d \in DOMAIN ifs : ifs[d].active})

LEMMA ConfigOrderIs ==
  ASSUME TypedIfs
  PROVE  ConfigOrder \in Seq(Devs \cup {All})
<1> DEFINE R == {d \in DOMAIN ifs : ifs[d].active}
<1>1. R \subseteq Devs
  BY DEF TypedIfs
<1>2. IsFiniteSet(R)
  BY <1>1, FS_Subset, InterfacesAssumption DEF InterfacesAssumption
<1> HIDE DEF R
<1>3. Ordered(<<All>> \o SetToSeq(R), {All} \cup R)
  BY <1>2, FirstThenRest
<1>4. ConfigOrder \in Seq({All} \cup R)
  BY <1>3 DEF Ordered, ConfigOrder, R
<1>5. {All} \cup R \subseteq Devs \cup {All}
  BY <1>1
<1> HIDE DEF ConfigOrder
<1>6. \A k \in 1..Len(ConfigOrder) : ConfigOrder[k] \in Devs \cup {All}
  BY <1>4, <1>5
<1> QED
  BY <1>4, <1>6

(* check_kernel_config() for all: values that are zero stay so.              *)
LEMMA ConfigWalk ==
  ASSUME TypedIfs, CheckConfig
  PROVE  \E w \in Worlds(DOMAIN ifs) : Store(w) /\ SameIfs(w, World) /\ Zeros(w, World)
<1> DEFINE order == ConfigOrder
           n == Len(order)
           base == World
           T == {w \in Worlds(DOMAIN ifs) : SameIfs(w, base) /\ Zeros(w, base)}
           After(w, k) == CheckKernelConfig(w, order[k])
           Val(f, k) == IF k = 0 THEN base ELSE After(f[k - 1], k)
           Whole(f) == [k \in 0..n |-> Val(f, k)]
           step == [x \in T \X (1..n) |-> After(x[1], x[2])]
<1>1. n \in Nat /\ base \in T /\ \A k \in 1..n : order[k] \in Devs \cup {All}
  <2>1. order \in Seq(Devs \cup {All})
    BY ConfigOrderIs
  <2>2. base \in Worlds(DOMAIN ifs)
    BY WorldIs DEF WorldIn
  <2> HIDE DEF order, base
  <2>3. SameIfs(base, base) /\ Zeros(base, base)
    BY DEF SameIfs, Zeros
  <2> QED
    BY <2>1, <2>2, <2>3
<1> HIDE DEF order, base
<1>2. \A w \in T, k \in 1..n : After(w, k) \in T
  <2> TAKE w \in T, k \in 1..n
  <2> DEFINE v == After(w, k)
  <2>1. order[k] \in Devs \cup {All} /\ w \in Worlds(DOMAIN ifs) /\ SameIfs(w, base) /\ Zeros(w, base)
    BY <1>1
  <2>2. v \in Worlds(DOMAIN ifs) /\ SameIfs(v, w) /\ Zeros(v, w)
    BY <2>1, CheckKernelConfigIs
  <2> HIDE DEF v
  <2>3. SameIfs(v, base) /\ Zeros(v, base)
    BY <2>1, <2>2 DEF SameIfs, Zeros
  <2> QED
    BY <2>2, <2>3 DEF v
<1> DEFINE g == CHOOSE h : h = Whole(h)
<1>3. Store(g[n])
  BY DEF CheckConfig, order, base, ConfigOrder
<1>4. T \subseteq Worlds(DOMAIN ifs) /\ \A w \in T : SameIfs(w, base) /\ Zeros(w, base)
  OBVIOUS
<1> HIDE DEF T
<1>5. step \in [T \X (1..n) -> T]
  <2> HIDE DEF After, n
  <2> QED
    BY <1>2
<1>6. \A w \in T, k \in 1..n : step[<<w, k>>] = After(w, k)
  <2> HIDE DEF After
  <2> QED
    OBVIOUS
<1>7. PICK f : Walks(f, T, base, n, step)
  <2> HIDE DEF step, n, Whole, After
  <2> QED
    BY <1>1, <1>5, WalkExists
<1>8. f \in [0..n -> T] /\ f[0] = base /\ \A k \in 1..n : f[k] = After(f[k - 1], k)
  <2>1. f \in [0..n -> T] /\ f[0] = base /\ \A k \in 1..n : f[k] = step[<<f[k - 1], k>>]
    BY <1>7 DEF Walks
  <2>2. \A k \in 1..n : f[k - 1] \in T
    BY <1>1, <2>1
  <2> HIDE DEF step, After, n
  <2> QED
    BY <1>6, <2>1, <2>2
<1>9. f = Whole(f)
  <2>1. \A k \in 0..n : k # 0 => k \in 1..n
    BY <1>1
  <2>2. \A k \in 0..n : f[k] = Val(f, k)
    <3> HIDE DEF After
    <3> QED
      BY <1>8, <2>1
  <2> HIDE DEF Val, n
  <2> QED
    BY <1>8, <2>2
<1>10. g = Whole(g)
  BY <1>9, Zenon
<1> HIDE DEF g
<1>11. DOMAIN g = 0..n /\ g[0] = base /\ \A k \in 1..n : g[k] = After(g[k - 1], k)
  <2>1. DOMAIN g = 0..n /\ \A k \in 0..n : g[k] = Val(g, k)
    <3> HIDE DEF Val, n
    <3> QED
      BY <1>10
  <2>2. 0 \in 0..n /\ \A k \in 1..n : k \in 0..n /\ k # 0
    BY <1>1
  <2>3. Val(g, 0) = base /\ \A k \in 1..n : Val(g, k) = After(g[k - 1], k)
    BY <2>2
  <2> HIDE DEF Val, After, n
  <2> QED
    BY <2>1, <2>2, <2>3
<1>12. g[n] = f[n]
  <2>1. g[0] = f[0] /\ \A k \in 1..n : g[k - 1] = f[k - 1] => g[k] = f[k]
    <3> HIDE DEF n
    <3> QED
      BY <1>8, <1>11
  <2> HIDE DEF After, n
  <2> QED
    BY <1>1, <2>1, WalkUnique
<1>13. g[n] \in T
  <2> HIDE DEF n
  <2>1. n \in 0..n
    BY <1>1
  <2> QED
    BY <1>8, <1>12, <2>1
<1> HIDE DEF n
<1> QED
  BY <1>3, <1>4, <1>13 DEF base

LEMMA CheckConfigKeeps ==
  ASSUME IfsInv, CheckConfig
  PROVE  IfsInv'
<1> DEFINE D == DOMAIN ifs
<1>1. phase = "running" /\ UNCHANGED <<kernel, soft, Ttl, pedantic, phase, failed, checked>>
  BY DEF CheckConfig, kernelSide, config
<1>2. TypedIfs /\ AllKept /\ (checked => AllCurrent)
  BY <1>1 DEF IfsInv
<1>3. PICK w \in Worlds(D) : Store(w) /\ SameIfs(w, World) /\ Zeros(w, World)
  BY <1>2, ConfigWalk
<1>4. TypedIfs' /\ ifs' = w.ifs /\ mtuMin' = w.mtuMin /\ primaryAddr' = w.primaryAddr
      /\ sys' = w.sys /\ DOMAIN ifs' = D
  <2>1. D \in SUBSET Devs /\ Primary \in D
    BY <1>2 DEF TypedIfs
  <2>2. kernel' \in [Devs -> Kernels] /\ Ttl' \in Nat /\ soft' \in BOOLEAN
    BY <1>1, <1>2 DEF TypedIfs
  <2> QED
    BY <1>3, <2>1, <2>2, StoredTyped
<1>5. WorldIn(D)
  BY <1>2, WorldIs
<1>6. /\ ifs' = ifs /\ mtuMin' = mtuMin /\ primaryAddr' = primaryAddr
      /\ ~ pedantic => \A file \in Files : sys[file] = 0 => sys'[file] = 0
  BY <1>3, <1>4, <1>5 DEF SameIfs, Zeros, WorldIn
<1>7. ASSUME NEW d \in D
      PROVE  KeptAt(ifs[d], d, soft, Ttl, primaryAddr, sys'[File(d)], pedantic)
  <2>1. KeptAt(ifs[d], d, soft, Ttl, primaryAddr, sys[File(d)], pedantic)
    BY <1>2 DEF AllKept
  <2>2. File(d) \in Files
    BY <1>2, FileIs DEF TypedIfs
  <2> QED
    BY <1>6, <2>1, <2>2 DEF KeptAt
<1>8. AllKept'
  <2>1. \A d \in D : KeptAt(ifs'[d], d, soft', Ttl', primaryAddr', sys'[File(d)], pedantic')
    BY <1>1, <1>6, <1>7
  <2> QED
    BY <1>4, <2>1 DEF AllKept
<1>9. checked' => AllCurrent'
  BY <1>1, <1>2, <1>6 DEF AllCurrent
<1> QED
  BY <1>4, <1>8, <1>9 DEF IfsInv

LEMMA NewIfIs ==
  NewIf \in If /\ ~ NewIf.active
BY DEF NewIf, If, Addrs

LEMMA AddDevKeeps ==
  ASSUME IfsInv, NEW d \in Devs, AddDev(d)
  PROVE  IfsInv'
<1> DEFINE D == DOMAIN ifs
           E == D \cup {d}
<1>1. /\ phase = "running" /\ checked' = FALSE /\ d \notin D
      /\ ifs' = [e \in E |-> IF e = d THEN NewIf ELSE ifs[e]] /\ backup' = [backup EXCEPT ![d] = 0]
      /\ UNCHANGED <<kernel, soft, Ttl, pedantic, sys, touched, mtuMin, primaryAddr, announced>>
  BY DEF AddDev, Applying, Changing, config
<1>2. TypedIfs /\ AllKept
  BY <1>1 DEF IfsInv
<1> DEFINE new == NewIf
<1>3. new \in If /\ ~ new.active
  BY NewIfIs
<1>4. ifs' = [e \in E |-> IF e = d THEN new ELSE ifs[e]]
  BY <1>1
<1> HIDE DEF new
<1>5. DOMAIN ifs' = E /\ ifs' \in [E -> If] /\ ifs'[d] = new /\ \A e \in D : ifs'[e] = ifs[e]
  BY <1>1, <1>2, <1>3, <1>4 DEF TypedIfs
<1>6. backup' \in [Devs \cup {All} -> Nat \cup {Unset}]
  BY <1>1, <1>2 DEF TypedIfs
<1>7. TypedIfs'
  <2>1. E \subseteq Devs /\ Primary \in E
    BY <1>2 DEF TypedIfs
  <2> HIDE DEF E
  <2> QED
    BY <1>1, <1>2, <1>5, <1>6, <2>1 DEF TypedIfs
<1>8. AllKept'
  <2>1. ASSUME NEW e \in E
        PROVE  KeptAt(ifs'[e], e, soft', Ttl', primaryAddr', sys'[File(e)], pedantic')
    <3>1. CASE e = d
      BY <1>3, <1>5, <3>1 DEF KeptAt
    <3>2. CASE e # d
      <4>1. KeptAt(ifs[e], e, soft, Ttl, primaryAddr, sys[File(e)], pedantic)
        BY <1>2, <3>2 DEF AllKept
      <4> QED
        BY <1>1, <1>5, <3>2, <4>1
    <3> QED
      BY <3>1, <3>2
  <2> QED
    BY <1>5, <2>1 DEF AllKept
<1> QED
  BY <1>1, <1>7, <1>8 DEF IfsInv

LEMMA DelDevKeeps ==
  ASSUME IfsInv, NEW d \in Devs, DelDev(d)
  PROVE  IfsInv'
<1> DEFINE D == DOMAIN ifs
           E == D \ {d}
<1>1. /\ phase = "running" /\ checked' = FALSE /\ d \in D \ {Primary}
      /\ UNCHANGED <<kernel, soft, Ttl, pedantic>>
  BY DEF DelDev, Applying, Changing, config
<1>2. TypedIfs /\ AllKept
  BY <1>1 DEF IfsInv
<1>3. WorldIn(D)
  BY <1>2, WorldIs
<1> DEFINE w == IF ifs[d].active THEN Deactivate(World, d) ELSE World
           v == [w EXCEPT !.ifs = Restrict(w.ifs, E)]
<1>4. Store(v)
  BY DEF DelDev
<1>5. Touches(w, World, D, d)
  <2>1. CASE ifs[d].active
    <3>1. D \in SUBSET Devs
      BY <1>2 DEF TypedIfs
    <3> QED
      BY <1>1, <1>3, <2>1, <3>1, DeactivateTouches DEF WorldIn
  <2>2. CASE ~ ifs[d].active
    <3>1. w = World /\ mtuMin \in Nat
      BY <1>2, <2>2 DEF TypedIfs
    <3> HIDE DEF w
    <3> QED
      BY <1>3, <3>1 DEF Touches, Zeros, WorldIn
  <2> QED
    BY <2>1, <2>2
<1> HIDE DEF w
<1>6. w \in Worlds(D) /\ w.ifs \in [D -> If]
  BY <1>5, WorldFields DEF Touches
<1>7. Restrict(w.ifs, E) \in [E -> If] /\ \A e \in E : Restrict(w.ifs, E)[e] = w.ifs[e]
  BY <1>6 DEF Restrict
<1> DEFINE r == Restrict(w.ifs, E)
<1>8. r \in [E -> If] /\ \A e \in E : r[e] = w.ifs[e]
  BY <1>7
<1> HIDE DEF r
<1>9. v \in Worlds(E) /\ v.ifs = r /\ v.primaryAddr = w.primaryAddr /\ v.sys = w.sys
  <2>1. v = [w EXCEPT !.ifs = r]
    BY DEF r
  <2> HIDE DEF v, E
  <2> QED
    BY <1>6, <1>8, <2>1 DEF Worlds
<1> HIDE DEF v
<1>10. TypedIfs' /\ ifs' = v.ifs /\ primaryAddr' = v.primaryAddr /\ sys' = v.sys /\ DOMAIN ifs' = E
  <2>1. E \in SUBSET Devs /\ Primary \in E
    BY <1>1, <1>2 DEF TypedIfs
  <2>2. kernel' \in [Devs -> Kernels] /\ Ttl' \in Nat /\ soft' \in BOOLEAN
    BY <1>1, <1>2 DEF TypedIfs
  <2> HIDE DEF E
  <2> QED
    BY <1>4, <1>9, <2>1, <2>2, StoredTyped
<1>11. ASSUME NEW e \in E
       PROVE  KeptAt(w.ifs[e], e, soft, Ttl, w.primaryAddr, w.sys[File(e)], pedantic)
  <2>1. Was(World, e)
    BY <1>2, <1>3 DEF AllKept, WorldIn, Was
  <2>2. D \in SUBSET Devs /\ World \in Worlds(D) /\ e \in D /\ e # d
    BY <1>2, <1>3 DEF TypedIfs, WorldIn
  <2> HIDE DEF D
  <2>3. Was(w, e)
    BY <1>1, <1>5, <2>1, <2>2, TouchesOthers
  <2> QED
    BY <2>3 DEF Was
<1>12. AllKept'
  <2>1. \A e \in E : KeptAt(ifs'[e], e, soft', Ttl', primaryAddr', sys'[File(e)], pedantic')
    BY <1>1, <1>8, <1>9, <1>10, <1>11
  <2> QED
    BY <1>10, <2>1 DEF AllKept
<1> QED
  BY <1>1, <1>10, <1>12 DEF IfsInv

(* An option of an interface: nothing is in force before it is looked at.    *)
OptionSet(j, i) ==
  /\ j \in If /\ j.active = i.active /\ j.addr = i.addr /\ j.clones = i.clones /\ j.ll = i.ll /\ j.soft
  /\ j.hard \/ (j.hard = i.hard /\ j.llConf = i.llConf)

LEMMA SetDevKeeps ==
  ASSUME IfsInv, NEW d \in Devs, SetDev(d)
  PROVE  IfsInv'
<1> DEFINE D == DOMAIN ifs
           i == ifs[d]
<1>1. /\ phase = "running" /\ checked' = FALSE /\ d \in D
      /\ UNCHANGED <<kernel, soft, Ttl, pedantic, sys, backup, touched, mtuMin, primaryAddr, announced>>
  BY DEF SetDev, Applying, Changing, config, proc
<1>2. TypedIfs /\ AllKept
  BY <1>1 DEF IfsInv
<1>3. i \in If
  BY <1>1, <1>2 DEF TypedIfs
<1>4. \E j : ifs' = [ifs EXCEPT ![d] = j] /\ OptionSet(j, i)
  <2>1. CASE \E ttl \in Ttls \cup {Unset} :
               ifs' = [ifs EXCEPT ![d] = [@ EXCEPT !.ttlConf = ttl, !.soft = TRUE]]
    <3>1. PICK ttl \in Nat \cup {Unset} : ifs' = [ifs EXCEPT ![d] = [@ EXCEPT !.ttlConf = ttl, !.soft = TRUE]]
      BY <2>1, InterfacesAssumption DEF InterfacesAssumption
    <3> DEFINE j == [i EXCEPT !.ttlConf = ttl, !.soft = TRUE]
    <3>2. ifs' = [ifs EXCEPT ![d] = j]
      BY <3>1
    <3>3. OptionSet(j, i)
      BY <1>3 DEF OptionSet, If
    <3> HIDE DEF j
    <3> QED
      BY <3>2, <3>3
  <2>2. CASE \E ll \in Kinds \cup {"unset"} : ifs' = [ifs EXCEPT ![d] = SetLinkLayer(@, ll)]
    <3>1. PICK ll \in {"unset", "lan", "wlan"} : ifs' = [ifs EXCEPT ![d] = SetLinkLayer(@, ll)]
      BY <2>2 DEF Kinds
    <3> DEFINE j == SetLinkLayer(i, ll)
    <3>2. ifs' = [ifs EXCEPT ![d] = j]
      BY <3>1
    <3>3. OptionSet(j, i)
      <4> DEFINE yes == TRUE
      <4>1. j = [i EXCEPT !.llConf = ll, !.hard = yes, !.soft = yes]
        BY DEF SetLinkLayer
      <4>2. yes \in BOOLEAN /\ yes
        OBVIOUS
      <4> HIDE DEF j, i, yes
      <4>3. /\ j.active = i.active /\ j.addr = i.addr /\ j.clones = i.clones /\ j.ll = i.ll
            /\ j.soft = yes /\ j.hard = yes
        BY <1>3, <4>1 DEF If
      <4>4. j \in If
        BY <1>3, <4>1, <4>2 DEF If
      <4>5. j.soft /\ j.hard
        BY <4>2, <4>3, Zenon
      <4> QED
        BY <4>3, <4>4, <4>5 DEF OptionSet
    <3> HIDE DEF j
    <3> QED
      BY <3>2, <3>3
  <2> QED
    BY <2>1, <2>2 DEF SetDev
<1>5. PICK j : ifs' = [ifs EXCEPT ![d] = j] /\ OptionSet(j, i)
  BY <1>4
<1>6. j \in If
  BY <1>5 DEF OptionSet
<1>7. DOMAIN ifs' = D /\ ifs' \in [D -> If] /\ ifs'[d] = j /\ \A e \in D : e # d => ifs'[e] = ifs[e]
  BY <1>1, <1>2, <1>5, <1>6 DEF TypedIfs
<1>8. TypedIfs'
  <2>1. D \subseteq Devs /\ Primary \in D
    BY <1>2 DEF TypedIfs
  <2> QED
    BY <1>1, <1>2, <1>7, <2>1 DEF TypedIfs
<1>9. AllKept'
  <2>1. ASSUME NEW e \in D
        PROVE  KeptAt(ifs'[e], e, soft, Ttl, primaryAddr, sys[File(e)], pedantic)
    <3>1. KeptAt(ifs[e], e, soft, Ttl, primaryAddr, sys[File(e)], pedantic)
      BY <1>2 DEF AllKept
    <3>2. CASE e = d
      <4>1. KeptAt(i, d, soft, Ttl, primaryAddr, sys[File(d)], pedantic) /\ OptionSet(j, i)
        BY <1>5, <3>1, <3>2
      <4>2. j.llConf = i.llConf => LinkLayer(j, d) = LinkLayer(i, d)
        BY <1>3, <1>6, LinkLayerIs
      <4> HIDE DEF i
      <4>3. KeptAt(j, d, soft, Ttl, primaryAddr, sys[File(d)], pedantic)
        BY <4>1, <4>2 DEF KeptAt, OptionSet
      <4> QED
        BY <1>7, <3>2, <4>3
    <3>3. CASE e # d
      BY <1>7, <3>1, <3>3
    <3> QED
      BY <3>2, <3>3
  <2>2. \A e \in D : KeptAt(ifs'[e], e, soft', Ttl', primaryAddr', sys'[File(e)], pedantic')
    BY <1>1, <2>1
  <2> QED
    BY <1>7, <2>2 DEF AllKept
<1> QED
  BY <1>1, <1>8, <1>9 DEF IfsInv

LEMMA OptTtlKeeps ==
  ASSUME IfsInv, OptTtl
  PROVE  IfsInv'
<1>1. /\ phase = "running" /\ checked' = FALSE /\ soft' = TRUE /\ Ttl' \in Nat
      /\ UNCHANGED <<kernel, pedantic, ifs, sys, backup, touched, mtuMin, primaryAddr, announced>>
  BY InterfacesAssumption DEF OptTtl, Applying, Changing, proc, ours, InterfacesAssumption
<1>2. TypedIfs /\ AllKept
  BY <1>1 DEF IfsInv
<1>3. TypedIfs'
  BY <1>1, <1>2 DEF TypedIfs
<1>4. ASSUME NEW d \in DOMAIN ifs
      PROVE  KeptAt(ifs[d], d, soft', Ttl', primaryAddr, sys[File(d)], pedantic)
  <2>1. KeptAt(ifs[d], d, soft, Ttl, primaryAddr, sys[File(d)], pedantic)
    BY <1>2 DEF AllKept
  <2> QED
    BY <1>1, <2>1 DEF KeptAt
<1>5. AllKept'
  <2>1. \A d \in DOMAIN ifs : KeptAt(ifs'[d], d, soft', Ttl', primaryAddr', sys'[File(d)], pedantic')
    BY <1>1, <1>4
  <2> QED
    BY <1>1, <2>1 DEF AllKept
<1> QED
  BY <1>1, <1>3, <1>5 DEF IfsInv

LEMMA UntouchedKept ==
  ASSUME AllKept, UNCHANGED <<ifs, soft, Ttl, pedantic, primaryAddr, sys>>
  PROVE  AllKept'
<1>1. \A d \in DOMAIN ifs : KeptAt(ifs'[d], d, soft', Ttl', primaryAddr', sys'[File(d)], pedantic')
  BY DEF AllKept
<1> QED
  BY <1>1 DEF AllKept

LEMMA ReconfiguredKeeps ==
  ASSUME IfsInv, NEW d \in Devs, Reconfigured(d)
  PROVE  IfsInv'
<1>1. /\ phase = "running" /\ checked' = FALSE
      /\ UNCHANGED <<soft, Ttl, pedantic, ifs, sys, backup, touched, mtuMin, primaryAddr, announced>>
  BY DEF Reconfigured, Changing, config, proc, ours
<1>2. TypedIfs /\ AllKept
  BY <1>1 DEF IfsInv
<1>3. kernel' \in [Devs -> Kernels]
  BY <1>2 DEF Reconfigured, TypedIfs
<1>4. TypedIfs'
  BY <1>1, <1>2, <1>3 DEF TypedIfs
<1>5. AllKept'
  BY <1>1, <1>2, UntouchedKept
<1> QED
  BY <1>1, <1>4, <1>5 DEF IfsInv

LEMMA IfsInitHolds ==
  ASSUME Init
  PROVE  IfsInv
<1> DEFINE new == NewIf
<1>1. new \in If /\ ~ new.active
  BY NewIfIs
<1>2. ifs = [d \in Devs |-> new]
  BY DEF Init
<1>3. checked = FALSE /\ soft = FALSE /\ kernel \in [Devs -> Kernels] /\ primaryAddr = NoAddr
      /\ mtuMin = MaxMtu /\ announced = MaxMtu
  BY DEF Init
<1> HIDE DEF new
<1>4. ifs \in [Devs -> If] /\ DOMAIN ifs = Devs /\ Primary \in Devs /\ \A d \in Devs : ~ ifs[d].active
  BY <1>1, <1>2, InterfacesAssumption DEF InterfacesAssumption
<1>5. original \in [Files -> Nat] /\ All \in Files
  BY InterfacesAssumption DEF Init, InterfacesAssumption, Files
<1>6. sys \in [Files -> Nat]
  BY <1>5 DEF Init
<1>7. backup \in [Devs \cup {All} -> Nat \cup {Unset}]
  BY <1>5 DEF Init
<1>8. touched \in BOOLEAN
  BY DEF Init
<1>9. Ttl \in Nat
  <2>1. Ttls \in SUBSET Int /\ IsFiniteSet(Ttls) /\ Ttls # {} /\ Ttls \subseteq Nat
    BY InterfacesAssumption DEF InterfacesAssumption
  <2>2. Max(Ttls) \in Ttls
    BY <2>1, MaxOfFinite
  <2> QED
    BY <2>1, <2>2 DEF Init
<1>10. MaxMtu \in Nat /\ NoAddr \in Addrs
  BY InterfacesAssumption DEF InterfacesAssumption, Addrs
<1>11. TypedIfs
  BY <1>3, <1>4, <1>6, <1>7, <1>8, <1>9, <1>10 DEF TypedIfs
<1>12. AllKept
  BY <1>4 DEF AllKept, KeptAt
<1> QED
  BY <1>3, <1>11, <1>12 DEF IfsInv

(* The inductive invariant.                                                  *)
THEOREM InterfacesInv == Spec => []IfsInv
<1>1. Init => IfsInv
  BY IfsInitHolds
<1>2. IfsInv /\ [Next]_vars => IfsInv'
  <2> SUFFICES ASSUME IfsInv, [Next]_vars
               PROVE  IfsInv'
    OBVIOUS
  <2>1. CASE CheckInterfaces
    BY <2>1, CheckInterfacesKeeps
  <2>2. CASE CheckConfig
    BY <2>2, CheckConfigKeeps
  <2>3. ASSUME NEW d \in Devs, AddDev(d)
        PROVE  IfsInv'
    BY <2>3, AddDevKeeps
  <2>4. ASSUME NEW d \in Devs, DelDev(d)
        PROVE  IfsInv'
    BY <2>4, DelDevKeeps
  <2>5. ASSUME NEW d \in Devs, SetDev(d)
        PROVE  IfsInv'
    BY <2>5, SetDevKeeps
  <2>6. ASSUME NEW d \in Devs, Reconfigured(d)
        PROVE  IfsInv'
    BY <2>6, ReconfiguredKeeps
  <2>7. CASE OptTtl
    BY <2>7, OptTtlKeeps
  <2>8. CASE Terminate
    BY <2>8 DEF Terminate, IfsInv
  <2>9. CASE UNCHANGED vars
    <3>1. /\ UNCHANGED <<kernel, soft, Ttl, pedantic, ifs, sys, backup, touched, mtuMin, primaryAddr>>
          /\ UNCHANGED <<announced, phase, failed, checked>>
      BY <2>9 DEF vars, kernelSide, config, proc, ours
    <3>2. TypedIfs => TypedIfs'
      BY <3>1 DEF TypedIfs
    <3>3. AllKept => AllKept'
      BY <3>1, UntouchedKept
    <3>4. AllCurrent => AllCurrent'
      BY <3>1 DEF AllCurrent
    <3> QED
      BY <3>1, <3>2, <3>3, <3>4 DEF IfsInv
  <2> QED
    BY <2>1, <2>2, <2>3, <2>4, <2>5, <2>6, <2>7, <2>8, <2>9 DEF Next
<1> QED
  BY <1>1, <1>2, PTL DEF Spec

(* After a check, what is configured is in force at every active interface,  *)
(* and the settings of the system they need stay as long as they are active. *)
THEOREM SettingsHeld == Spec => []SettingsInForce
<1>1. IfsInv => SettingsInForce
  <2> SUFFICES ASSUME IfsInv PROVE AsConfigured /\ KernelReady
    BY DEF SettingsInForce
  <2>1. phase = "running" => TypedIfs /\ AllKept /\ (checked => AllCurrent)
    BY DEF IfsInv
  <2>2. ASSUME phase = "running", NEW d \in DOMAIN ifs, ifs[d].active, ~ pedantic
        PROVE  sys[File(d)] = 0
    BY <2>1, <2>2 DEF AllKept, KeptAt
  <2>3. ASSUME phase = "running", checked, NEW d \in DOMAIN ifs, ifs[d].active
        PROVE  /\ ifs[d].ttl = TtlOf(ifs[d], d, Ttl) /\ ifs[d].ll = LinkLayer(ifs[d], d)
               /\ ifs[d].ll # "lo" => ifs[d].clones = ClonesOf(ifs[d].ll)
    <3>1. ~ soft /\ ~ ifs[d].soft /\ ~ ifs[d].hard
      BY <2>1, <2>3 DEF AllCurrent, CurrentAt, Settled
    <3>2. KeptAt(ifs[d], d, soft, Ttl, primaryAddr, sys[File(d)], pedantic)
      BY <2>1, <2>3 DEF AllKept
    <3> QED
      BY <2>3, <3>1, <3>2 DEF KeptAt
  <2> QED
    BY <2>2, <2>3 DEF AsConfigured, KernelReady, TtlOf, ClonesOf
<1> QED
  BY <1>1, InterfacesInv, PTL

(* After a check the interfaces are active that can be, as the kernel has    *)
(* them, and the daemon's address and MTU are theirs.                        *)
THEOREM ActiveIsKernels == Spec => []ActiveAsKernel
<1>1. IfsInv => ActiveAsKernel
  <2> SUFFICES ASSUME IfsInv, phase = "running", checked, NEW d \in DOMAIN ifs
               PROVE  /\ CurrentAt(ifs[d], kernel[d], mtuMin, d \notin failed)
                      /\ ifs[d].active /\ d = Primary => primaryAddr = ifs[d].addr
    BY DEF ActiveAsKernel, CurrentAt
  <2>1. AllKept /\ AllCurrent
    BY DEF IfsInv
  <2> QED
    BY <2>1 DEF AllKept, AllCurrent, KeptAt
<1> QED
  BY <1>1, InterfacesInv, PTL

-----------------------------------------------------------------------------
(* The lists of list-batman.c, for any number of entries.                    *)

(* The head is entry 0; the links lead from each entry of s to the next and  *)
(* from the last one to the head, which knows it.                            *)
Link(s, k) == IF k = 0 THEN Anchor ELSE s[k]
Following(s, k) == IF k = Len(s) THEN Anchor ELSE s[k + 1]
Once(s) == \A i, j \in 1..Len(s) : s[i] = s[j] => i = j

Linked(nx, pv, s) ==
  /\ s \in Seq(Entries) /\ Once(s)
  /\ \A k \in 0..Len(s) : nx[Link(s, k)] = Following(s, k)
  /\ pv = Link(s, Len(s))

Links == [Entries \cup {Anchor} -> Entries \cup {Anchor, Null}]

(* s has no more entries than there are.                                     *)
LEMMA NoneTwice ==
  ASSUME IsFiniteSet(Entries), NEW s \in Seq(Entries), Once(s)
  PROVE  Cardinality(Entries) \in Nat /\ Len(s) <= Cardinality(Entries)
<1>1. Len(s) \in Nat /\ Cardinality(Entries) \in Nat
  BY FS_CardinalityType
<1>2. IsFiniteSet(1..Len(s)) /\ Cardinality(1..Len(s)) = Len(s)
  <2> DEFINE n == Len(s)
  <2>1. n \in Nat
    BY <1>1
  <2> HIDE DEF n
  <2>2. IsFiniteSet(1..n) /\ Cardinality(1..n) = n
    BY <2>1, FirstCount
  <2> QED
    BY <2>2 DEF n
<1>3. s \in [1..Len(s) -> Entries]
  OBVIOUS
<1>4. CASE Cardinality(Entries) < Len(s)
  <2>1. \E x, y \in 1..Len(s) : x # y /\ s[x] = s[y]
    BY <1>2, <1>3, <1>4, FS_PigeonHole
  <2> QED
    BY <2>1 DEF Once
<1> QED
  BY <1>1, <1>4

(* list_for_each() comes to the entries of s, in this order.                 *)
LEMMA WalkedIs ==
  ASSUME NEW s, Linked(next, prev, s)
  PROVE  Walked = s
<1> DEFINE N == Cardinality(Entries)
           At(seen) == IF seen = <<>> THEN Anchor ELSE seen[Len(seen)]
           Further(seen) == IF next[At(seen)] \in {Anchor, Null} THEN seen
                       ELSE Append(seen, next[At(seen)])
           Whole(f) == [n \in 0..N |-> IF n = 0 THEN <<>> ELSE Further(f[n - 1])]
           g == [n \in 0..N |-> IF n <= Len(s) THEN SubSeq(s, 1, n) ELSE s]
           w == CHOOSE f : f = Whole(f)
<1>1. /\ s \in Seq(Entries) /\ Once(s) /\ Len(s) \in Nat
      /\ \A k \in 0..Len(s) : next[Link(s, k)] = Following(s, k)
      /\ IsFiniteSet(Entries) /\ Anchor \notin Entries /\ Null \notin Entries
  BY ListAssumption DEF Linked
<1>2. N \in Nat /\ Len(s) <= N
  BY <1>1, NoneTwice
<1>3. \A n \in 0..Len(s) : /\ SubSeq(s, 1, n) \in Seq(Entries) /\ Len(SubSeq(s, 1, n)) = n
                           /\ \A i \in 1..n : SubSeq(s, 1, n)[i] = s[i]
  <2> TAKE n \in 0..Len(s)
  <2>1. 1 \in 1..(Len(s) + 1) /\ n \in 0..Len(s)
    BY <1>1
  <2> QED
    BY <1>1, SubSeqProperties
<1>4. \A n \in 0..Len(s) : At(SubSeq(s, 1, n)) = Link(s, n)
  <2> TAKE n \in 0..Len(s)
  <2> DEFINE u == SubSeq(s, 1, n)
  <2>1. u \in Seq(Entries) /\ Len(u) = n /\ (n # 0 => u[n] = s[n])
    BY <1>1, <1>3
  <2>2. u = <<>> <=> n = 0
    <3> HIDE DEF u
    <3> QED
      BY <2>1
  <2> HIDE DEF u
  <2>3. At(u) = Link(s, n)
    BY <2>1, <2>2 DEF Link
  <2> QED
    BY <2>3 DEF u
<1>5. SubSeq(s, 1, Len(s)) = s
  BY <1>1
<1>6. \A n \in 1..N : Further(g[n - 1]) = g[n]
  <2> TAKE n \in 1..N
  <2>1. CASE n <= Len(s)
    <3>1. n - 1 \in 0..Len(s) /\ n \in 0..Len(s) /\ n - 1 # Len(s) /\ n \in 1..Len(s)
      BY <1>1, <2>1
    <3> DEFINE u == SubSeq(s, 1, n - 1)
    <3>2. g[n - 1] = u /\ g[n] = SubSeq(s, 1, n)
      BY <1>1, <1>2, <2>1, <3>1
    <3>3. next[At(u)] = s[n] /\ s[n] \in Entries
      <4>1. At(u) = Link(s, n - 1)
        BY <1>4, <3>1
      <4>2. next[Link(s, n - 1)] = Following(s, n - 1) /\ s[n] \in Entries
        BY <1>1, <3>1
      <4>3. Following(s, n - 1) = s[n]
        BY <3>1 DEF Following
      <4> HIDE DEF At
      <4> QED
        BY <4>1, <4>2, <4>3
    <3>4. Further(u) = Append(u, s[n])
      BY <1>1, <3>3
    <3>5. Append(u, s[n]) = SubSeq(s, 1, n)
      <4>1. u \in Seq(Entries) /\ Len(u) = n - 1 /\ \A i \in 1..(n - 1) : u[i] = s[i]
        BY <1>3, <3>1
      <4> DEFINE v == SubSeq(s, 1, n)
      <4>2. v \in Seq(Entries) /\ Len(v) = n /\ \A i \in 1..n : v[i] = s[i]
        BY <1>3, <3>1
      <4> HIDE DEF u, v
      <4> DEFINE a == Append(u, s[n])
      <4>3. a \in Seq(Entries) /\ Len(a) = n /\ \A i \in 1..n : a[i] = s[i]
        BY <3>1, <3>3, <4>1
      <4> HIDE DEF a
      <4>4. a = v
        BY <4>2, <4>3
      <4> QED
        BY <4>4 DEF a, v
    <3> QED
      BY <3>2, <3>4, <3>5
  <2>2. CASE n > Len(s)
    <3>1. g[n - 1] = s /\ g[n] = s
      <4>1. n - 1 \in 0..N /\ n \in 0..N /\ ~(n <= Len(s)) /\ (n - 1 <= Len(s) => n - 1 = Len(s))
        BY <1>1, <1>2, <2>2
      <4> QED
        BY <1>5, <4>1
    <3>2. next[At(s)] = Anchor
      <4>1. Len(s) \in 0..Len(s)
        BY <1>1
      <4>2. At(s) = Link(s, Len(s))
        BY <1>4, <1>5, <4>1
      <4>3. next[Link(s, Len(s))] = Following(s, Len(s)) /\ Following(s, Len(s)) = Anchor
        BY <1>1, <4>1 DEF Following
      <4> HIDE DEF At
      <4> QED
        BY <4>2, <4>3
    <3> QED
      BY <3>1, <3>2
  <2>3. n <= Len(s) \/ n > Len(s)
    BY <1>1, <1>2
  <2> HIDE DEF Further, g
  <2> QED
    BY <2>1, <2>2, <2>3
<1>7. g[0] = <<>> /\ g[N] = s
  BY <1>1, <1>2, <1>5
<1>8. g = Whole(g)
  <2>1. \A n \in 0..N : g[n] = IF n = 0 THEN <<>> ELSE Further(g[n - 1])
    <3> TAKE n \in 0..N
    <3>1. n = 0 \/ n \in 1..N
      BY <1>2
    <3>2. n \in 1..N => n # 0
      BY <1>2
    <3> HIDE DEF Further, g
    <3> QED
      BY <1>6, <1>7, <3>1, <3>2
  <2> DEFINE D == 0..N
  <2>2. g = [n \in D |-> g[n]]
    OBVIOUS
  <2> HIDE DEF g, Further
  <2> QED
    BY <2>1, <2>2
<1>9. w = Whole(w)
  <2> HIDE DEF g, Whole
  <2> QED
    BY <1>8
<1>10. Walked = w[N]
  BY DEF Walked
<1> HIDE DEF w
<1>11. w[0] = <<>> /\ \A n \in 1..N : w[n] = Further(w[n - 1])
  <2> HIDE DEF Further
  <2> QED
    BY <1>2, <1>9
<1> HIDE DEF g, Further, Whole
<1>12. w[N] = g[N]
  <2>1. w[0] = g[0] /\ \A n \in 1..N : w[n - 1] = g[n - 1] => w[n] = g[n]
    BY <1>6, <1>7, <1>11
  <2> HIDE DEF N
  <2> QED
    BY <1>2, <2>1, WalkUnique
<1> QED
  BY <1>7, <1>10, <1>12

(* No two links of a list are the same.                                      *)
LEMMA LinksDiffer ==
  ASSUME NEW nx, NEW pv, NEW s, Linked(nx, pv, s)
  PROVE  /\ Len(s) \in Nat /\ \A i \in 1..Len(s) : s[i] \in Entries
         /\ \A i, j \in 0..Len(s) : Link(s, i) = Link(s, j) => i = j
         /\ \A i \in 0..Len(s) : Link(s, i) \in Entries \cup {Anchor}
<1>1. s \in Seq(Entries) /\ Once(s)
  BY DEF Linked
<1>2. Len(s) \in Nat /\ \A i \in 1..Len(s) : s[i] \in Entries
  BY <1>1
<1>3. \A i \in 0..Len(s) : i = 0 \/ i \in 1..Len(s)
  BY <1>2
<1>4. \A i \in 0..Len(s) : Link(s, i) \in Entries \cup {Anchor}
  BY <1>2, <1>3 DEF Link
<1>5. ASSUME NEW i \in 0..Len(s), NEW j \in 0..Len(s), Link(s, i) = Link(s, j)
      PROVE  i = j
  BY <1>1, <1>2, <1>3, <1>5, ListAssumption DEF Link, Once
<1> QED
  BY <1>2, <1>4, <1>5

(* list_for_each_safe() has seen the entry before.                           *)
LEMMA BeforeIs ==
  ASSUME NEW s, Linked(next, prev, s), NEW k \in 1..Len(s)
  PROVE  Before(s[k]) = Link(s, k - 1)
<1>1. /\ Len(s) \in Nat /\ s \in Seq(Entries) /\ \A i \in 1..Len(s) : s[i] \in Entries
      /\ \A i, j \in 0..Len(s) : Link(s, i) = Link(s, j) => i = j
      /\ \A i \in 0..Len(s) : next[Link(s, i)] = Following(s, i)
  BY LinksDiffer DEF Linked
<1>2. Range(Walked) = {s[i] : i \in 1..Len(s)}
  BY <1>1, WalkedIs DEF Range
<1>3. \A i \in 0..Len(s) : Link(s, i) \in Range(Walked) \cup {Anchor}
  BY <1>1, <1>2 DEF Link
<1>4. k - 1 \in 0..Len(s) /\ k - 1 # Len(s) /\ k - 1 + 1 = k
  BY <1>1
<1>5. next[Link(s, k - 1)] = s[k]
  BY <1>1, <1>4 DEF Following
<1>6. ASSUME NEW p \in Range(Walked) \cup {Anchor}, next[p] = s[k]
      PROVE  p = Link(s, k - 1)
  <2>1. PICK i \in 0..Len(s) : p = Link(s, i)
    <3>1. CASE p = Anchor
      <4>1. 0 \in 0..Len(s) /\ p = Link(s, 0)
        BY <1>1, <3>1 DEF Link
      <4> QED
        BY <4>1
    <3>2. CASE p \in Range(Walked)
      <4>1. PICK i \in 1..Len(s) : p = s[i]
        BY <1>2, <3>2
      <4>2. i \in 0..Len(s) /\ p = Link(s, i)
        BY <1>1, <4>1 DEF Link
      <4> QED
        BY <4>2
    <3> QED
      BY <3>1, <3>2
  <2>2. Following(s, i) = s[k]
    BY <1>1, <1>6, <2>1
  <2>3. i # Len(s) /\ s[i + 1] = s[k]
    BY <1>1, <2>2, ListAssumption DEF Following
  <2>4. i + 1 \in 0..Len(s) /\ k \in 0..Len(s) /\ i + 1 # 0 /\ k # 0
    BY <1>1, <2>1, <2>3
  <2>5. i + 1 = k
    BY <1>1, <2>3, <2>4 DEF Link
  <2> QED
    BY <2>1, <2>5
<1> QED
  BY <1>3, <1>4, <1>5, <1>6 DEF Before

(* An entry that is linked between two others, or an end and another, ...    *)
LEMMA Inserted ==
  ASSUME NEW nx \in Links, NEW pv, NEW s, Linked(nx, pv, s),
         NEW k \in 1..(Len(s) + 1), NEW e \in Entries, \A i \in 1..Len(s) : s[i] # e,
         NEW v \in Seq(Entries), IsInserted(v, s, k, e),
         NEW nx2, NEW pv2, nx2[e] = Following(s, k - 1), nx2[Link(s, k - 1)] = e,
         \A d \in Entries \cup {Anchor} : d # e /\ d # Link(s, k - 1) => nx2[d] = nx[d],
         pv2 = IF k = Len(s) + 1 THEN e ELSE pv
  PROVE  Linked(nx2, pv2, v)
<1> DEFINE n == Len(s)
<1>1. /\ n \in Nat /\ \A i \in 1..n : s[i] \in Entries
      /\ \A i, j \in 0..n : Link(s, i) = Link(s, j) => i = j
      /\ \A i \in 0..n : Link(s, i) \in Entries \cup {Anchor}
      /\ \A i \in 0..n : nx[Link(s, i)] = Following(s, i)
      /\ pv = Link(s, n) /\ Once(s)
  BY LinksDiffer DEF Linked
<1>2. /\ Len(v) = n + 1
      /\ \A i \in 1..(n + 1) : v[i] = IF i < k THEN s[i] ELSE IF i = k THEN e ELSE s[i - 1]
  BY DEF IsInserted
<1>3. \A i \in 0..n : Link(s, i) # e
  BY <1>1, ListAssumption DEF Link
<1> HIDE DEF n
<1>4. k \in 1..(n + 1)
  BY DEF n
<1>5. Once(v)
  <2> SUFFICES ASSUME NEW i \in 1..(n + 1), NEW j \in 1..(n + 1), v[i] = v[j]
               PROVE  i = j
    BY <1>2 DEF Once
  <2> DEFINE Src(m) == IF m < k THEN m ELSE m - 1
  <2>1. \A m \in 1..(n + 1) : m # k => Src(m) \in 1..n /\ v[m] = s[Src(m)]
    BY <1>1, <1>2, <1>4
  <2>2. v[k] = e
    BY <1>2, <1>4
  <2>3. CASE i # k /\ j # k
    <3>1. s[Src(i)] = s[Src(j)] /\ Src(i) \in 1..n /\ Src(j) \in 1..n
      BY <2>1, <2>3
    <3>2. Src(i) = Src(j)
      <4> HIDE DEF Src
      <4> QED
        BY <1>1, <3>1 DEF Once, n
    <3> QED
      BY <1>4, <2>3, <3>2
  <2>4. CASE i = k \/ j = k
    <3> HIDE DEF Src
    <3> QED
      BY <2>1, <2>2, <2>4 DEF n
  <2> QED
    BY <2>3, <2>4
<1>6. \A i \in 0..(n + 1) :
        Link(v, i) = IF i < k THEN Link(s, i) ELSE IF i = k THEN e ELSE Link(s, i - 1)
  BY <1>1, <1>2, <1>4 DEF Link
<1>7. ASSUME NEW i \in 0..(n + 1)
      PROVE  nx2[Link(v, i)] = Following(v, i)
  <2>1. CASE i < k - 1
    <3>1. i \in 0..n /\ k - 1 \in 0..n /\ i # k - 1 /\ i + 1 \in 1..n /\ i + 1 < k /\ i # n /\ i # n + 1
      BY <1>1, <1>4, <2>1
    <3>2. Link(v, i) = Link(s, i) /\ v[i + 1] = s[i + 1]
      BY <1>1, <1>2, <1>4, <1>6, <2>1, <3>1
    <3>3. nx2[Link(s, i)] = nx[Link(s, i)]
      BY <1>1, <1>3, <3>1
    <3> QED
      BY <1>1, <1>2, <3>1, <3>2, <3>3 DEF Following, n
  <2>2. CASE i = k - 1
    <3>1. i < k /\ i + 1 = k /\ i # n + 1 /\ k \in 1..(n + 1)
      BY <1>1, <1>4, <2>2
    <3>2. Link(v, i) = Link(s, k - 1) /\ v[i + 1] = e
      BY <1>2, <1>6, <2>2, <3>1
    <3> QED
      BY <1>2, <3>1, <3>2 DEF Following
  <2>3. CASE i = k
    <3>1. Link(v, i) = e
      BY <1>4, <1>6, <2>3
    <3>2. Following(v, i) = Following(s, k - 1)
      <4>1. CASE k = n + 1
        BY <1>1, <1>2, <2>3, <4>1 DEF Following, n
      <4>2. CASE k # n + 1
        <5>1. k + 1 \in 1..(n + 1) /\ ~(k + 1 < k) /\ k + 1 # k /\ k + 1 - 1 = k /\ k - 1 # n /\ k - 1 + 1 = k
          BY <1>1, <1>4, <4>2
        <5>2. v[k + 1] = s[k]
          BY <1>2, <5>1
        <5> QED
          BY <1>2, <2>3, <4>2, <5>1, <5>2 DEF Following, n
      <4> QED
        BY <4>1, <4>2
    <3> QED
      BY <3>1, <3>2
  <2>4. CASE i > k
    <3>1. i - 1 \in 0..n /\ k - 1 \in 0..n /\ i - 1 # k - 1 /\ ~(i < k) /\ i # k
      BY <1>1, <1>4, <2>4
    <3>2. Link(v, i) = Link(s, i - 1)
      BY <1>6, <3>1
    <3>3. nx2[Link(s, i - 1)] = Following(s, i - 1)
      BY <1>1, <1>3, <3>1
    <3>4. Following(v, i) = Following(s, i - 1)
      <4>1. CASE i = n + 1
        BY <1>1, <1>2, <4>1 DEF Following, n
      <4>2. CASE i # n + 1
        <5>1. i + 1 \in 1..(n + 1) /\ ~(i + 1 < k) /\ i + 1 # k /\ i + 1 - 1 = i /\ i - 1 # n /\ i - 1 + 1 = i
          BY <1>1, <1>4, <2>4, <4>2
        <5>2. v[i + 1] = s[i]
          BY <1>2, <5>1
        <5> QED
          BY <1>2, <4>2, <5>1, <5>2 DEF Following, n
      <4> QED
        BY <4>1, <4>2
    <3> QED
      BY <3>2, <3>3, <3>4
  <2> QED
    BY <1>1, <1>4, <2>1, <2>2, <2>3, <2>4
<1>8. pv2 = Link(v, n + 1)
  <2>1. n + 1 \in 0..(n + 1) /\ (k # n + 1 => ~(n + 1 < k)) /\ n + 1 - 1 = n
    BY <1>1, <1>4
  <2> QED
    BY <1>1, <1>6, <2>1 DEF n
<1> QED
  BY <1>2, <1>5, <1>7, <1>8 DEF Linked

(* ... and one that is taken out.                                            *)
LEMMA TakenOut ==
  ASSUME NEW nx \in Links, NEW pv, NEW s, Linked(nx, pv, s), NEW k \in 1..Len(s),
         NEW v \in Seq(Entries), Len(v) = Len(s) - 1,
         \A i \in 1..(Len(s) - 1) : v[i] = IF i < k THEN s[i] ELSE s[i + 1],
         NEW nx2, NEW pv2, nx2[Link(s, k - 1)] = Following(s, k),
         \A d \in Entries \cup {Anchor} : d # s[k] /\ d # Link(s, k - 1) => nx2[d] = nx[d],
         pv2 = IF pv = s[k] THEN Link(s, k - 1) ELSE pv
  PROVE  Linked(nx2, pv2, v)
<1> DEFINE n == Len(s)
<1>1. /\ n \in Nat /\ \A i \in 1..n : s[i] \in Entries
      /\ \A i, j \in 0..n : Link(s, i) = Link(s, j) => i = j
      /\ \A i \in 0..n : Link(s, i) \in Entries \cup {Anchor}
      /\ \A i \in 0..n : nx[Link(s, i)] = Following(s, i)
      /\ pv = Link(s, n) /\ Once(s)
  BY LinksDiffer DEF Linked
<1> HIDE DEF n
<1>2. k \in 1..n /\ n \in Nat /\ n > 0 /\ n - 1 \in Nat /\ Len(v) = n - 1
  BY <1>1 DEF n
<1>3. \A i \in 1..(n - 1) : v[i] = IF i < k THEN s[i] ELSE s[i + 1]
  BY DEF n
<1>4. s[k] = Link(s, k)
  BY <1>2 DEF Link
<1> DEFINE Src(i) == IF i < k THEN i ELSE i + 1
<1>5. \A i \in 1..(n - 1) : v[i] = s[Src(i)] /\ Src(i) \in 1..n
  BY <1>2, <1>3
<1>6. \A i \in 0..(n - 1) : /\ Link(v, i) = Link(s, Src(i)) /\ Src(i) \in 0..n
                            /\ Src(i) # k
  BY <1>2, <1>3 DEF Link
<1>7. Once(v)
  <2> SUFFICES ASSUME NEW i \in 1..(n - 1), NEW j \in 1..(n - 1), v[i] = v[j]
               PROVE  i = j
    BY <1>2 DEF Once
  <2>1. Src(i) = Src(j)
    <3> HIDE DEF Src
    <3> QED
      BY <1>1, <1>5 DEF Once, n
  <2> QED
    BY <1>2, <2>1
<1>8. ASSUME NEW i \in 0..(n - 1)
      PROVE  nx2[Link(v, i)] = Following(v, i)
  <2>1. CASE i = k - 1
    <3>1. i < k /\ k \in 0..n /\ Src(i) = k - 1
      BY <1>2, <2>1
    <3>2. nx2[Link(v, i)] = Following(s, k)
      BY <1>6, <3>1
    <3>3. Following(v, i) = Following(s, k)
      <4>1. CASE k = n
        BY <1>2, <2>1, <4>1 DEF Following, n
      <4>2. CASE k # n
        <5>1. i # n - 1 /\ i + 1 \in 1..(n - 1) /\ ~(i + 1 < k) /\ i + 1 + 1 = k + 1
          BY <1>2, <2>1, <4>2
        <5>2. v[i + 1] = s[k + 1]
          BY <1>3, <5>1
        <5> QED
          BY <1>2, <4>2, <5>1, <5>2 DEF Following, n
      <4> QED
        BY <4>1, <4>2
    <3> QED
      BY <3>2, <3>3
  <2>2. CASE i # k - 1
    <3>1. Src(i) \in 0..n /\ Src(i) # k /\ Src(i) # k - 1 /\ k \in 0..n /\ k - 1 \in 0..n
      BY <1>2, <1>6, <2>2
    <3>2. nx2[Link(s, Src(i))] = Following(s, Src(i))
      <4> HIDE DEF Src
      <4> QED
        BY <1>1, <1>4, <3>1
    <3>3. Following(v, i) = Following(s, Src(i))
      <4>1. CASE i = n - 1
        <5>1. Src(i) = n
          BY <1>2, <2>2, <4>1
        <5> HIDE DEF Src
        <5> QED
          BY <1>2, <4>1, <5>1 DEF Following, n
      <4>2. CASE i # n - 1
        <5>1. i + 1 \in 1..(n - 1) /\ Src(i) # n /\ Src(i + 1) = Src(i) + 1
          BY <1>2, <2>2, <4>2
        <5>2. v[i + 1] = s[Src(i) + 1]
          BY <1>5, <5>1
        <5> HIDE DEF Src
        <5> QED
          BY <1>2, <4>2, <5>1, <5>2 DEF Following, n
      <4> QED
        BY <4>1, <4>2
    <3> HIDE DEF Src
    <3> QED
      BY <1>6, <3>2, <3>3
  <2> QED
    BY <2>1, <2>2
<1>9. pv2 = Link(v, n - 1)
  <2>1. CASE k = n
    <3>1. Src(n - 1) = n - 1 /\ n - 1 \in 0..(n - 1)
      BY <1>2, <2>1
    <3> HIDE DEF Src
    <3> QED
      BY <1>1, <1>4, <1>6, <2>1, <3>1
  <2>2. CASE k # n
    <3>1. Src(n - 1) = n /\ n - 1 \in 0..(n - 1) /\ n \in 0..n /\ k \in 0..n
      BY <1>2, <2>2
    <3>2. pv # s[k]
      BY <1>1, <1>4, <2>2, <3>1
    <3> HIDE DEF Src
    <3> QED
      BY <1>1, <1>6, <3>1, <3>2
  <2> QED
    BY <2>1, <2>2
<1> HIDE DEF Src
<1> QED
  BY <1>2, <1>7, <1>8, <1>9 DEF Linked

(* There is always a sequence that is linked, and it is what a walk finds.   *)
ListInv == next \in Links /\ \E s : Linked(next, prev, s)

LEMMA WalkedLinked ==
  ASSUME ListInv
  PROVE  /\ next \in Links /\ Linked(next, prev, Walked)
         /\ Walked \in Seq(Entries) /\ Len(Walked) \in Nat
         /\ Range(Walked) = {Walked[i] : i \in 1..Len(Walked)}
<1>1. PICK s : Linked(next, prev, s)
  BY DEF ListInv
<1>2. Walked = s
  BY <1>1, WalkedIs
<1>3. Walked \in Seq(Entries)
  BY <1>1, <1>2 DEF Linked
<1> QED
  BY <1>1, <1>2, <1>3 DEF ListInv, Range

LEMMA WalkedNext ==
  ASSUME NEW v
  PROVE  (Linked(next, prev, v) => Walked = v)'
<1>1. Linked(next, prev, v) => Walked = v
  BY WalkedIs
<1> QED
  BY <1>1, PTL

(* list_add(), list_add_tail() and list_add_before() put the entry where     *)
(* they say, ...                                                             *)
LEMMA LinkedIn ==
  ASSUME ListInv, NEW k \in 1..(Len(Walked) + 1), NEW e \in Unused,
         NEW v \in Seq(Entries), IsInserted(v, Walked, k, e),
         next' = [next EXCEPT ![e] = Following(Walked, k - 1), ![Link(Walked, k - 1)] = e],
         prev' = IF k = Len(Walked) + 1 THEN e ELSE prev
  PROVE  ListInv' /\ Walked' = v /\ e \in AsSequence!Free
<1>1. /\ next \in Links /\ Linked(next, prev, Walked) /\ Walked \in Seq(Entries)
      /\ Len(Walked) \in Nat /\ Range(Walked) = {Walked[i] : i \in 1..Len(Walked)}
      /\ e \in Entries /\ \A i \in 1..Len(Walked) : Walked[i] # e
  BY WalkedLinked DEF Unused
<1>2. /\ k - 1 \in 0..Len(Walked) /\ Link(Walked, k - 1) \in Entries \cup {Anchor}
      /\ Link(Walked, k - 1) # e
  <2>1. k - 1 \in 0..Len(Walked) /\ (k - 1 # 0 => k - 1 \in 1..Len(Walked))
    BY <1>1
  <2> QED
    BY <1>1, <2>1, LinksDiffer, ListAssumption DEF Link
<1>3. Following(Walked, k - 1) \in Entries \cup {Anchor}
  <2>1. k - 1 # Len(Walked) => k - 1 + 1 \in 1..Len(Walked)
    BY <1>1, <1>2
  <2> QED
    BY <1>1, <2>1 DEF Following
<1>4. next' \in Links
  BY <1>1, <1>2, <1>3 DEF Links
<1>5. /\ next'[e] = Following(Walked, k - 1) /\ next'[Link(Walked, k - 1)] = e
      /\ \A d \in Entries \cup {Anchor} : d # e /\ d # Link(Walked, k - 1) => next'[d] = next[d]
  BY <1>1, <1>2 DEF Links
<1>6. Linked(next', prev', v)
  <2> DEFINE s == Walked
             nx2 == next'
             pv2 == prev'
  <2>1. next \in Links /\ Linked(next, prev, s) /\ e \in Entries
    BY <1>1
  <2>2. \A i \in 1..Len(s) : s[i] # e
    BY <1>1
  <2>3. nx2[e] = Following(s, k - 1) /\ nx2[Link(s, k - 1)] = e
    BY <1>5
  <2>4. \A d \in Entries \cup {Anchor} : d # e /\ d # Link(s, k - 1) => nx2[d] = next[d]
    BY <1>5
  <2>5. pv2 = IF k = Len(s) + 1 THEN e ELSE prev
    OBVIOUS
  <2>6. k \in 1..(Len(s) + 1) /\ IsInserted(v, s, k, e)
    OBVIOUS
  <2> HIDE DEF s, nx2, pv2
  <2>7. Linked(nx2, pv2, v)
    BY <2>1, <2>2, <2>3, <2>4, <2>5, <2>6, Inserted
  <2> QED
    BY <2>7 DEF nx2, pv2
<1>7. ListInv'
  BY <1>4, <1>6 DEF ListInv, Links
<1>8. Walked' = v
  BY <1>6, WalkedNext
<1>9. e \in AsSequence!Free
  BY <1>1 DEF AsSequence!Free, AsSequence!Range, Range
<1> QED
  BY <1>7, <1>8, <1>9

LEMMA AddStep ==
  ASSUME ListInv, NEW e \in Entries, Add(e)
  PROVE  ListInv' /\ AsSequence!Add(e)
<1> DEFINE s == Walked
           v == <<e>> \o s
<1>1. /\ Linked(next, prev, s) /\ s \in Seq(Entries) /\ Len(s) \in Nat
  BY WalkedLinked
<1>2. e \in Unused /\ next' = [next EXCEPT ![e] = next[Anchor], ![Anchor] = e]
      /\ prev' = IF prev = Anchor THEN e ELSE prev
  BY DEF Add, PrevAfterAdd
<1> HIDE DEF s
<1>3. v \in Seq(Entries) /\ IsInserted(v, s, 1, e)
  <2> DEFINE u == <<e>>
  <2>1. u \in Seq(Entries) /\ Len(u) = 1 /\ u[1] = e
    OBVIOUS
  <2> HIDE DEF u
  <2>2. LET w == u \o s
        IN  /\ w \in Seq(Entries) /\ Len(w) = Len(u) + Len(s)
            /\ \A i \in 1..(Len(u) + Len(s)) : w[i] = IF i <= Len(u) THEN u[i] ELSE s[i - Len(u)]
    BY <1>1, <2>1, ConcatProperties
  <2>3. v = u \o s
    BY DEF u
  <2> HIDE DEF v
  <2>4. v \in Seq(Entries) /\ Len(v) = Len(s) + 1
        /\ \A i \in 1..(Len(s) + 1) : v[i] = IF i <= 1 THEN u[i] ELSE s[i - 1]
    BY <1>1, <2>1, <2>2, <2>3
  <2> QED
    BY <1>1, <2>1, <2>4 DEF IsInserted
<1> HIDE DEF v
<1>4. 1 - 1 = 0 /\ 1 \in 1..(Len(s) + 1) /\ Link(s, 0) = Anchor
      /\ next[Anchor] = Following(s, 0)
  BY <1>1 DEF Linked, Link
<1>5. prev = Anchor <=> 1 = Len(s) + 1
  <2>1. prev = Link(s, Len(s)) /\ \A i \in 1..Len(s) : s[i] \in Entries
    BY <1>1, LinksDiffer DEF Linked
  <2>2. Len(s) = 0 \/ Len(s) \in 1..Len(s)
    BY <1>1
  <2> QED
    BY <1>1, <2>1, <2>2, ListAssumption DEF Link
<1>6. next' = [next EXCEPT ![e] = Following(s, 1 - 1), ![Link(s, 1 - 1)] = e]
      /\ prev' = IF 1 = Len(s) + 1 THEN e ELSE prev
  BY <1>2, <1>4, <1>5
<1>7. ListInv' /\ Walked' = v /\ e \in AsSequence!Free
  BY <1>2, <1>3, <1>4, <1>6, LinkedIn DEF s
<1> QED
  BY <1>7 DEF AsSequence!Add, v, s

LEMMA AddTailStep ==
  ASSUME ListInv, NEW e \in Entries, AddTail(e)
  PROVE  ListInv' /\ AsSequence!AddTail(e)
<1> DEFINE s == Walked
           v == Append(s, e)
           k == Len(s) + 1
<1>1. /\ Linked(next, prev, s) /\ s \in Seq(Entries) /\ Len(s) \in Nat
  BY WalkedLinked
<1>2. e \in Unused /\ next' = [next EXCEPT ![e] = Anchor, ![prev] = e] /\ prev' = e
  BY DEF AddTail
<1> HIDE DEF s
<1>3. v \in Seq(Entries) /\ IsInserted(v, s, k, e)
  BY <1>1 DEF IsInserted
<1> HIDE DEF v
<1>4. k - 1 = Len(s) /\ k \in 1..(Len(s) + 1)
  BY <1>1
<1>5. prev = Link(s, k - 1) /\ Following(s, k - 1) = Anchor
  BY <1>1, <1>4 DEF Linked, Following
<1>6. next' = [next EXCEPT ![e] = Following(s, k - 1), ![Link(s, k - 1)] = e]
      /\ prev' = IF k = Len(s) + 1 THEN e ELSE prev
  BY <1>2, <1>5
<1>7. ListInv' /\ Walked' = v /\ e \in AsSequence!Free
  <2> HIDE DEF k
  <2> QED
    BY <1>2, <1>3, <1>4, <1>6, LinkedIn DEF s
<1> QED
  BY <1>7 DEF AsSequence!AddTail, v, s

(* The walk is at the k-th entry.                                            *)
LEMMA WalkAt ==
  ASSUME ListInv, NEW e \in Range(Walked)
  PROVE  \E k \in 1..Len(Walked) : /\ e = Walked[k] /\ Before(e) = Link(Walked, k - 1)
                                   /\ next[e] = Following(Walked, k)
                                   /\ e \in Entries /\ Before(e) \in Entries \cup {Anchor}
                                   /\ Before(e) # e
<1>1. PICK k \in 1..Len(Walked) : e = Walked[k]
  BY WalkedLinked
<1>2. Before(e) = Link(Walked, k - 1)
  BY <1>1, WalkedLinked, BeforeIs
<1>3. k \in 0..Len(Walked) /\ k - 1 \in 0..Len(Walked) /\ k # 0 /\ k - 1 # k
  BY WalkedLinked
<1>4. e = Link(Walked, k)
  BY <1>1, <1>3 DEF Link
<1>5. Link(Walked, k - 1) # Link(Walked, k) /\ Link(Walked, k - 1) \in Entries \cup {Anchor}
      /\ e \in Entries
  BY <1>1, <1>3, WalkedLinked, LinksDiffer
<1>6. next[e] = Following(Walked, k)
  BY <1>3, <1>4, WalkedLinked DEF Linked
<1> QED
  BY <1>1, <1>2, <1>4, <1>5, <1>6

LEMMA AddBeforeStep ==
  ASSUME ListInv, NEW e \in Entries, NEW at \in Entries, AddBefore(e, at)
  PROVE  ListInv' /\ \E i \in DOMAIN Walked : AsSequence!AddBefore(e, i)
<1> DEFINE s == Walked
<1>1. /\ next \in Links /\ Linked(next, prev, s) /\ s \in Seq(Entries) /\ Len(s) \in Nat
      /\ Range(s) = {s[i] : i \in 1..Len(s)}
  BY WalkedLinked
<1>2. /\ e \in Unused /\ at \in Range(s)
      /\ next' = [next EXCEPT ![Before(at)] = e, ![e] = at] /\ prev' = prev
  BY DEF AddBefore
<1>3. PICK k \in 1..Len(s) : at = s[k] /\ Before(at) = Link(s, k - 1)
                             /\ Before(at) \in Entries \cup {Anchor}
  BY <1>2, WalkAt
<1>4. Before(at) # e
  <2>1. k - 1 = 0 \/ k - 1 \in 1..Len(s)
    BY <1>1
  <2> QED
    BY <1>1, <1>2, <1>3, <2>1, ListAssumption DEF Unused, Link
<1> HIDE DEF s
<1> DEFINE v == InsertAt(s, k, e)
<1>5. v \in Seq(Entries) /\ IsInserted(v, s, k, e)
  <2>1. k \in 1..(Len(s) + 1)
    BY <1>1
  <2> QED
    BY <1>1, <2>1, InsertAtElements
<1> HIDE DEF v
<1>6. at = Following(s, k - 1)
  <2>1. k - 1 # Len(s) /\ k - 1 + 1 = k
    BY <1>1
  <2> QED
    BY <1>3, <2>1 DEF Following
<1>7. next' = [next EXCEPT ![e] = Following(s, k - 1), ![Link(s, k - 1)] = e]
  BY <1>1, <1>2, <1>3, <1>4, <1>6 DEF Links
<1>8. k \in 1..(Len(s) + 1) /\ k # Len(s) + 1 /\ k \in DOMAIN s
  BY <1>1
<1>9. prev' = IF k = Len(s) + 1 THEN e ELSE prev
  BY <1>2, <1>8
<1>10. ListInv' /\ Walked' = v /\ e \in AsSequence!Free
  BY <1>2, <1>5, <1>7, <1>8, <1>9, LinkedIn DEF s
<1>11. AsSequence!AddBefore(e, k)
  BY <1>10 DEF AsSequence!AddBefore, AsSequence!InsertAt, InsertAt, v, s
<1> QED
  BY <1>8, <1>10, <1>11 DEF s

(* ... and list_del() takes out the entry it is given.                       *)
LEMMA DelStep ==
  ASSUME ListInv, NEW e \in Entries, Del(e)
  PROVE  ListInv' /\ \E i \in DOMAIN Walked : AsSequence!Del(i)
<1> DEFINE s == Walked
<1>1. /\ next \in Links /\ Linked(next, prev, s) /\ s \in Seq(Entries) /\ Len(s) \in Nat
  BY WalkedLinked
<1>2. /\ e \in Range(s)
      /\ prev' = IF prev = e THEN Before(e) ELSE prev
      /\ next' = [next EXCEPT ![Before(e)] = next[e], ![e] = Null]
  BY DEF Del, PrevAfterDel
<1>3. PICK k \in 1..Len(s) : /\ e = s[k] /\ Before(e) = Link(s, k - 1)
                             /\ next[e] = Following(s, k) /\ Before(e) # e
                             /\ Before(e) \in Entries \cup {Anchor}
  BY <1>2, WalkAt
<1> HIDE DEF s
<1> DEFINE v == RemoveAt(s, k)
<1>4. k \in DOMAIN s
  BY <1>1
<1>5. /\ v \in Seq(Entries) /\ Len(v) = Len(s) - 1
      /\ \A i \in 1..(Len(s) - 1) : v[i] = IF i < k THEN s[i] ELSE s[i + 1]
  BY <1>1, <1>4, RemoveAtElements
<1> HIDE DEF v
<1>6. next' \in Links
  BY <1>1, <1>2, <1>3 DEF Links
<1>7. /\ next'[Link(s, k - 1)] = Following(s, k)
      /\ \A d \in Entries \cup {Anchor} : d # s[k] /\ d # Link(s, k - 1) => next'[d] = next[d]
  BY <1>1, <1>2, <1>3 DEF Links
<1>8. prev' = IF prev = s[k] THEN Link(s, k - 1) ELSE prev
  BY <1>2, <1>3
<1>9. Linked(next', prev', v)
  <2> DEFINE nx2 == next'
             pv2 == prev'
  <2>1. nx2[Link(s, k - 1)] = Following(s, k)
    BY <1>7
  <2>2. \A d \in Entries \cup {Anchor} : d # s[k] /\ d # Link(s, k - 1) => nx2[d] = next[d]
    BY <1>7
  <2>3. pv2 = IF prev = s[k] THEN Link(s, k - 1) ELSE prev
    BY <1>8
  <2> HIDE DEF nx2, pv2
  <2>4. Linked(nx2, pv2, v)
    BY <1>1, <1>5, <2>1, <2>2, <2>3, TakenOut
  <2> QED
    BY <2>4 DEF nx2, pv2
<1>10. ListInv' /\ Walked' = v
  BY <1>6, <1>9, WalkedNext DEF ListInv, Links
<1>11. AsSequence!Del(k)
  BY <1>10 DEF AsSequence!Del, AsSequence!RemoveAt, RemoveAt, v, s
<1> QED
  BY <1>4, <1>10, <1>11 DEF s

(* Users of list-batman.c have a sequence before them, for any number of     *)
(* entries: each call changes what the next walk finds as ListSequence says. *)
THEOREM ListsAreSequences == ListSpec => ImplementsSequence
<1>1. ListInit => ListInv /\ AsSequence!Init
  <2> SUFFICES ASSUME ListInit PROVE ListInv /\ AsSequence!Init
    OBVIOUS
  <2> DEFINE s == <<>>
  <2>1. next \in Links
    BY DEF ListInit, Links
  <2>2. Linked(next, prev, s)
    <3>1. s \in Seq(Entries) /\ Len(s) = 0
      OBVIOUS
    <3> HIDE DEF s
    <3> QED
      BY <3>1 DEF ListInit, Linked, Once, Link, Following
  <2>3. Walked = s
    BY <2>2, WalkedIs
  <2> QED
    BY <2>1, <2>2, <2>3 DEF ListInv, AsSequence!Init
<1>2. ListInv /\ [ListNext]_listVars => ListInv' /\ [AsSequence!Next]_Walked
  <2> SUFFICES ASSUME ListInv, [ListNext]_listVars
               PROVE  ListInv' /\ [AsSequence!Next]_Walked
    OBVIOUS
  <2>1. ASSUME NEW e \in Entries, Add(e)
        PROVE  ListInv' /\ AsSequence!Next
    BY <2>1, AddStep DEF AsSequence!Next
  <2>2. ASSUME NEW e \in Entries, AddTail(e)
        PROVE  ListInv' /\ AsSequence!Next
    BY <2>2, AddTailStep DEF AsSequence!Next
  <2>3. ASSUME NEW e \in Entries, Del(e)
        PROVE  ListInv' /\ AsSequence!Next
    BY <2>3, DelStep DEF AsSequence!Next
  <2>4. ASSUME NEW e \in Entries, NEW at \in Entries, AddBefore(e, at)
        PROVE  ListInv' /\ AsSequence!Next
    BY <2>4, AddBeforeStep DEF AsSequence!Next
  <2>5. CASE UNCHANGED listVars
    <3>1. ListInv'
      BY <2>5 DEF ListInv, Linked, listVars, Links
    <3>2. Walked' = Walked
      BY <2>5 DEF Walked, listVars
    <3> QED
      BY <3>1, <3>2
  <2> QED
    BY <2>1, <2>2, <2>3, <2>4, <2>5 DEF ListNext
<1>3. [AsSequence!Next]_Walked => [next' # next => [AsSequence!Next]_Walked]_next
  OBVIOUS
<1> QED
  BY <1>1, <1>2, <1>3, PTL DEF ListSpec, ImplementsSequence
=============================================================================
