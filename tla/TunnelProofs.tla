---------------------------- MODULE TunnelProofs ----------------------------
(* The gateway's lease table and the tunnel of its client, for any number   *)
(* of gateways, addresses and clients and any timing.                       *)
EXTENDS Tunnel, WalkLemmas, FiniteSetTheorems, TLAPS

-----------------------------------------------------------------------------
(* Numbers.                                                                 *)

(* The smaller of two numbers.                                              *)
LEMMA MinOfTwo ==
  ASSUME NEW x \in Int, NEW y \in Int
  PROVE  Min({x, y}) = IF x <= y THEN x ELSE y
<1>1. \E z \in {x, y} : \A w \in {x, y} : z =< w
  OBVIOUS
<1>2. Min({x, y}) \in {x, y} /\ \A w \in {x, y} : Min({x, y}) =< w
  BY <1>1 DEF Min
<1> QED
  BY <1>2

-----------------------------------------------------------------------------
(* Lists.                                                                   *)

(* An element removed from a sequence that has each of its elements once.    *)
LEMMA RemoveFirstElements ==
  ASSUME NEW S, NEW s \in Seq(S), \A i, j \in DOMAIN s : s[i] = s[j] => i = j, NEW e,
         NEW m, m = RemoveFirst(s, e)
  PROVE  /\ m \in Seq(S)
         /\ \A i, j \in DOMAIN m : m[i] = m[j] => i = j
         /\ \A x \in S : (\E i \in DOMAIN m : m[i] = x) <=> (x # e /\ \E i \in DOMAIN s : s[i] = x)
<1>0. DOMAIN s = 1..Len(s) /\ Len(s) \in Nat
  OBVIOUS
<1>1. CASE ~\E i \in DOMAIN s : s[i] = e
  <2>1. m = s
    BY <1>0, <1>1 DEF RemoveFirst
  <2> QED
    BY <1>1, <2>1
<1>2. ASSUME NEW k \in DOMAIN s, s[k] = e
      PROVE  /\ m \in Seq(S)
             /\ \A i, j \in DOMAIN m : m[i] = m[j] => i = j
             /\ \A x \in S : (\E i \in DOMAIN m : m[i] = x) <=> (x # e /\ \E i \in DOMAIN s : s[i] = x)
  <2> DEFINE I == {i \in 1..Len(s) : s[i] = e}
  <2>1. I = {k}
    BY <1>0, <1>2
  <2>2. Min({k}) = k
    BY <1>0 DEF Min
  <2>3. SelectInSeq(s, LAMBDA v : v = e) = k
    BY <2>1, <2>2 DEF SelectInSeq
  <2>4. m = RemoveAt(s, k)
    BY <1>0, <1>2, <2>3 DEF RemoveFirst
  <2>5. /\ m \in Seq(S) /\ Len(m) = Len(s) - 1
        /\ \A i \in 1..Len(m) : m[i] = IF i < k THEN s[i] ELSE s[i + 1]
    <3> DEFINE w == RemoveAt(s, k)
    <3>1. /\ w \in Seq(S) /\ Len(w) = Len(s) - 1
          /\ \A i \in 1..(Len(s) - 1) : w[i] = IF i < k THEN s[i] ELSE s[i + 1]
      BY RemoveAtElements
    <3>2. m = w
      BY <2>4
    <3> HIDE DEF w
    <3> QED
      BY <3>1, <3>2
  <2>6. DOMAIN m = 1..(Len(s) - 1)
    BY <1>0, <2>5
  <2>7. ASSUME NEW i \in DOMAIN m
        PROVE  \E p \in DOMAIN s : p # k /\ m[i] = s[p] /\ p = IF i < k THEN i ELSE i + 1
    BY <1>0, <2>5, <2>6
  <2>8. ASSUME NEW p \in DOMAIN s, p # k
        PROVE  \E i \in DOMAIN m : m[i] = s[p]
    <3>1. CASE p < k
      <4>1. p \in DOMAIN m
        BY <1>0, <2>6, <3>1
      <4> QED
        BY <2>5, <2>6, <3>1, <4>1
    <3>2. CASE ~(p < k)
      <4>1. p - 1 \in DOMAIN m /\ ~(p - 1 < k) /\ (p - 1) + 1 = p
        BY <1>0, <2>6, <2>8, <3>2
      <4>2. m[p - 1] = s[(p - 1) + 1]
        BY <2>5, <2>6, <4>1
      <4> QED
        BY <4>1, <4>2
    <3> QED
      BY <3>1, <3>2
  <2>9. \A i, j \in DOMAIN m : m[i] = m[j] => i = j
    <3> SUFFICES ASSUME NEW i \in DOMAIN m, NEW j \in DOMAIN m, m[i] = m[j] PROVE i = j
      OBVIOUS
    <3>1. PICK p \in DOMAIN s : m[i] = s[p] /\ p = IF i < k THEN i ELSE i + 1
      BY <2>7
    <3>2. PICK q \in DOMAIN s : m[j] = s[q] /\ q = IF j < k THEN j ELSE j + 1
      BY <2>7
    <3>3. p = q
      BY <3>1, <3>2
    <3> QED
      BY <1>0, <2>6, <3>1, <3>2, <3>3
  <2>10. \A x \in S : (\E i \in DOMAIN m : m[i] = x) <=> (x # e /\ \E i \in DOMAIN s : s[i] = x)
    BY <1>2, <2>7, <2>8
  <2> QED
    BY <2>5, <2>9, <2>10
<1> QED
  BY <1>1, <1>2

-----------------------------------------------------------------------------
(* The table of a gateway.                                                  *)

LeaseTables == [Addrs -> {None} \cup [client : Clients, age : Nat]]

(* What no step may lose.                                                   *)
OneEach(l) == \A a, b \in Addrs, c \in Clients : HeldBy(l, a, c) /\ HeldBy(l, b, c) => a = b

(* The leased addresses are neither of the two special ones.                 *)
LEMMA AddrsFacts == Addrs \subseteq Nat \ {0} /\ NoAddr \notin Addrs /\ OwnAddr \notin Addrs /\ OwnAddr # NoAddr
BY TunnelServerAssumption DEF Addrs, NoAddr, OwnAddr

(* The search finds one of what it looks for.                                *)
LEMMA ForemostIn ==
  ASSUME NEW c \in Clients, NEW S \in SUBSET Addrs, S # {}
  PROVE  Foremost(c, S) \in S
<1> DEFINE R == {Rank(c, a) : a \in S}
<1>1. \A a \in S : Rank(c, a) \in Nat
  BY TunnelServerAssumption DEF Rank, Addrs
<1>2. R \in SUBSET Nat /\ R # {}
  BY <1>1
<1>3. \E a \in S : \A b \in S : Rank(c, a) <= Rank(c, b)
  <2>1. PICK r \in R : \A q \in R : r <= q
    BY <1>2, LeastExists
  <2> QED
    BY <2>1
<1> QED
  BY <1>3 DEF Foremost

(* gws_get_ip_addr finds nothing, an entry of the client, or a free one      *)
(* when the client has none.                                                *)
LEMMA ChosenIs ==
  ASSUME NEW l \in LeaseTables, NEW c \in Clients, NEW pref, NEW a, a = Chosen(l, c, pref)
  PROVE  \/ a = NoAddr
         \/ a \in Addrs /\ HeldBy(l, a, c)
         \/ a \in Addrs /\ l[a] = None /\ \A b \in Addrs : ~HeldBy(l, b, c)
<1>1. Own(l, c) # {} => Foremost(c, Own(l, c)) \in Own(l, c)
  BY ForemostIn DEF Own
<1>2. Unleased(l) # {} => Foremost(c, Unleased(l)) \in Unleased(l)
  BY ForemostIn DEF Unleased
<1>3. HeldBy(l, pref, c) => pref \in Addrs
  BY DEF HeldBy
<1> QED
  BY <1>1, <1>2, <1>3 DEF Chosen, Own, Unleased

(* A lease is held, of an age that is bounded.                              *)
Holds(l, a, c, bound) == HeldBy(l, a, c) /\ l[a].age <= bound

(* The table after a request: the client holds what it was given, no one loses.*)
LEMMA GrantedTable ==
  ASSUME NEW l \in LeaseTables, OneEach(l), NEW c \in Clients, NEW pref, NEW a, a = Chosen(l, c, pref),
         NEW m, m = Granted(l, c, a)
  PROVE  /\ m \in LeaseTables /\ OneEach(m)
         /\ a \in Addrs \cup {NoAddr}
         /\ a # NoAddr => Holds(m, a, c, 0)
         /\ \A b \in Addrs, d \in Clients, n \in Nat : Holds(l, b, d, n) => Holds(m, b, d, n)
<1>1. CASE a = NoAddr
  BY <1>1 DEF Granted
<1>2. CASE a # NoAddr
  <2>1. /\ a \in Addrs
        /\ \/ HeldBy(l, a, c)
           \/ l[a] = None /\ \A b \in Addrs : ~HeldBy(l, b, c)
    BY <1>2, ChosenIs
  <2>2. m = [l EXCEPT ![a] = Lease(c)]
    BY <1>2 DEF Granted
  <2>3. Lease(c) \in [client : Clients, age : Nat] /\ Lease(c).client = c /\ Lease(c).age = 0
    BY DEF Lease
  <2>4. Lease(c) # None
    BY <2>3, TunnelServerAssumption
  <2>5. m \in LeaseTables /\ m[a] = Lease(c) /\ \A b \in Addrs \ {a} : m[b] = l[b]
    BY <2>1, <2>2, <2>3 DEF LeaseTables
  <2>6. OneEach(m)
    BY <2>1, <2>3, <2>4, <2>5 DEF OneEach, HeldBy
  <2>7. \A b \in Addrs, d \in Clients, n \in Nat : Holds(l, b, d, n) => Holds(m, b, d, n)
    BY <2>1, <2>3, <2>4, <2>5 DEF Holds, HeldBy
  <2> QED
    BY <2>1, <2>3, <2>4, <2>5, <2>6, <2>7 DEF Holds, HeldBy
<1> QED
  BY <1>1, <1>2

(* The garbage collector leaves whatever is younger than a lease.            *)
LEMMA ExpiredTable ==
  ASSUME NEW l \in LeaseTables, OneEach(l), NEW lt \in Nat, NEW m, m = Expired(l, lt)
  PROVE  /\ m \in LeaseTables /\ OneEach(m)
         /\ \A b \in Addrs, d \in Clients, n \in Nat :
                Holds(l, b, d, n) /\ n < lt => Holds(m, b, d, n)
<1>1. m \in LeaseTables /\ \A b \in Addrs : m[b] = IF l[b] # None /\ (lt = 0 \/ l[b].age >= lt) THEN None ELSE l[b]
  BY DEF LeaseTables, Expired
<1>2. OneEach(m)
  BY <1>1 DEF OneEach, HeldBy
<1>3. ASSUME NEW b \in Addrs, NEW d \in Clients, NEW n \in Nat, Holds(l, b, d, n), n < lt
      PROVE  Holds(m, b, d, n)
  <2>1. l[b] \in [client : Clients, age : Nat]
    BY <1>3 DEF LeaseTables, Holds, HeldBy
  <2> QED
    BY <1>1, <1>3, <2>1 DEF Holds, HeldBy
<1> QED
  BY <1>1, <1>2, <1>3

(* An entry that is not this client's goes.                                  *)
LEMMA DroppedTable ==
  ASSUME NEW l \in LeaseTables, OneEach(l), NEW a \in Addrs, l[a] # None, l[a].client # Me,
         NEW m, m = [l EXCEPT ![a] = None]
  PROVE  /\ m \in LeaseTables /\ OneEach(m)
         /\ \A b \in Addrs, n \in Nat : Holds(l, b, Me, n) => Holds(m, b, Me, n)
<1>1. m \in LeaseTables /\ m[a] = None /\ \A b \in Addrs \ {a} : m[b] = l[b]
  BY DEF LeaseTables
<1>2. OneEach(m)
  BY <1>1 DEF OneEach, HeldBy
<1> QED
  BY <1>1, <1>2 DEF Holds, HeldBy

(* Time passes: every entry gets older by as much at most.                   *)
LEMMA AgedTable ==
  ASSUME NEW l \in LeaseTables, OneEach(l), NEW C, NEW d \in Nat, NEW cap \in Nat,
         NEW m, m = Aged(l, C, d, cap)
  PROVE  /\ m \in LeaseTables /\ OneEach(m)
         /\ \A b \in Addrs, c \in Clients, n \in Nat : Holds(l, b, c, n) => Holds(m, b, c, n + d)
<1>1. ASSUME NEW b \in Addrs, l[b] # None
      PROVE  /\ l[b] \in [client : Clients, age : Nat]
             /\ m[b] \in [client : Clients, age : Nat]
             /\ m[b].client = l[b].client
             /\ m[b].age <= l[b].age + d
  <2>1. l[b] \in [client : Clients, age : Nat]
    BY <1>1 DEF LeaseTables
  <2> DEFINE k == Min({l[b].age + d, cap})
  <2>2. k \in Nat /\ k <= l[b].age + d
    BY <2>1, MinOfTwo
  <2> HIDE DEF k
  <2>3. m[b] = l[b] \/ m[b] = [l[b] EXCEPT !.age = k]
    BY <1>1 DEF Aged, k
  <2> QED
    BY <2>1, <2>2, <2>3
<1>2. \A b \in Addrs : l[b] = None => m[b] = None
  BY DEF Aged
<1>3. \A b \in Addrs : m[b] # None => l[b] # None
  BY <1>2
<1>4. m \in LeaseTables
  BY <1>1, <1>2 DEF LeaseTables, Aged
<1>5. OneEach(m)
  BY <1>1, <1>3 DEF OneEach, HeldBy
<1>6. ASSUME NEW b \in Addrs, NEW c \in Clients, NEW n \in Nat, Holds(l, b, c, n)
      PROVE  Holds(m, b, c, n + d)
  <2>1. l[b] # None /\ l[b].client = c /\ l[b].age <= n
    BY <1>6 DEF Holds, HeldBy
  <2>2. m[b] # None
    BY <1>1, <2>1, TunnelServerAssumption
  <2> QED
    BY <1>1, <2>1, <2>2 DEF Holds, HeldBy
<1> QED
  BY <1>4, <1>5, <1>6

-----------------------------------------------------------------------------
(* The client: what holds of its state between any two functions of the     *)
(* plugin. s is a state as the functions take it, r the routers.             *)

NodeFields == {"curr", "args", "list", "tuno", "factor", "failed", "serving", "announced",
               "rules", "route", "script", "rt", "gwc", "pref", "unresp", "seen"}
IsState(s) == DOMAIN s = {"n", "net"} /\ DOMAIN s.n = NodeFields

(* gw_list has each announced gateway once.                                 *)
Listed(n) ==
    /\ n.tuno \in [Gateways -> Ads \cup {None}]
    /\ n.list \in Seq(Gateways)
    /\ \A i, j \in DOMAIN n.list : n.list[i] = n.list[j] => i = j
    /\ \A g \in Gateways : n.tuno[g] # None <=> \E i \in DOMAIN n.list : n.list[i] = g

(* The node serves or is a client, and the rules are there for a client.     *)
Exclusive(n) ==
    /\ n.args # None => n.args \in Args
    /\ n.rules = (n.args # None)
    /\ n.serving \in BOOLEAN
    /\ n.announced = n.serving
    /\ n.script = "gateway" <=> n.serving
    /\ n.script \in Gateways \cup {"", "del", "gateway"}
    /\ ~(n.serving /\ n.args # None)

(* No route is left that gwc_cleanup would not remove.                      *)
Unrouted(n) == n.route = FALSE /\ n.script \notin Gateways
Removable(n) == n.args = None \/ n.args.addr = NoAddr => Unrouted(n)

(* The current gateway is known; a tunnel is that of the current gateway.    *)
Known(n, r) == n.curr # None => n.curr \in Gateways /\ n.tuno[n.curr] # None /\ r[n.curr] # NoRoute
Current(n) == n.args # None => n.curr # None /\ n.args.gw = n.curr /\ n.args.ad = n.tuno[n.curr]
Routed(n) ==
    IF n.args # None /\ n.args.addr # NoAddr THEN n.route = TRUE /\ n.script = n.curr ELSE Unrouted(n)

Torn(s) == IsState(s) /\ Listed(s.n) /\ Exclusive(s.n) /\ Removable(s.n)
Sound(s, r) ==
    /\ IsState(s) /\ Listed(s.n) /\ Exclusive(s.n)
    /\ Known(s.n, r) /\ Current(s.n) /\ Routed(s.n)

(* What a step of the client does not do: send anything but requests and     *)
(* data, and count on more of a lease.                                       *)
Messages ==
    [t : {"request", "reply", "invalid", "data"}, from : Clients \cup Gateways,
     to : Clients \cup Gateways, addr : Addrs \cup {NoAddr, OwnAddr}, lt : Nat, age : Nat,
     fresh : BOOLEAN]
Asking(m) ==
    m \in Messages /\ m.t \in {"request", "data"} /\ m.from = Me /\ m.to \in Gateways /\ m.age = 0
OnlyAsks(old, new) == \A m \in new : m \in old \/ Asking(m)
CountsOn(a, b) ==
    \/ b = None
    \/ b.dur = 0
    \/ /\ a # None
       /\ b.type = a.type /\ b.gw = a.gw /\ b.addr = a.addr
       /\ b.dur = a.dur /\ b.leased = a.leased /\ b.fresh = a.fresh
Quiet(s, t) == OnlyAsks(s.net, t.net) /\ CountsOn(s.n.args, t.n.args)

(* The values of the script are told apart.                                  *)
LEMMA Names ==
  /\ None \notin Gateways /\ None \notin {"", "del", "gateway"}
  /\ \A g \in Gateways : g # Me /\ g # "" /\ g # "del" /\ g # "gateway"
BY TunnelClientAssumption

(* gwc_cleanup can be called in any sound state.                             *)
LEMMA SoundTorn ==
  ASSUME NEW s, NEW r, Sound(s, r)
  PROVE  Torn(s)
BY DEF Sound, Torn, Routed, Removable

(* A sound state with another router is sound if the current gateway keeps   *)
(* one.                                                                     *)
LEMMA OtherRouter ==
  ASSUME NEW s, NEW r, Sound(s, r), NEW q, s.n.curr # None => q[s.n.curr] # NoRoute
  PROVE  Sound(s, q)
BY DEF Sound, Known

(* Two quiet steps are one.                                                  *)
LEMMA QuietTransitive ==
  ASSUME NEW s, NEW t, NEW u, Quiet(s, t), Quiet(t, u)
  PROVE  Quiet(s, u)
BY DEF Quiet, OnlyAsks, CountsOn

(* Sending adds one message at most.                                         *)
LEMMA SentOnly ==
  ASSUME NEW n, NEW m
  PROVE  Sent(n, m) \subseteq n \cup {m}
BY DEF Sent

-----------------------------------------------------------------------------
(* The functions of the client.                                             *)

(* gwc_cleanup, field by field.                                              *)
LEMMA CleanupFields ==
  ASSUME NEW s, IsState(s), NEW c, c = Cleanup(s)
  PROVE  /\ IsState(c)
         /\ c.net = s.net /\ c.n.args = None
         /\ c.n.curr = s.n.curr /\ c.n.tuno = s.n.tuno /\ c.n.list = s.n.list
         /\ c.n.serving = s.n.serving /\ c.n.announced = s.n.announced
         /\ s.n.args = None => c = s
         /\ s.n.args # None =>
               /\ c.n.rules = FALSE
               /\ c.n.route = IF s.n.args.addr # NoAddr THEN FALSE ELSE s.n.route
               /\ c.n.script = IF s.n.args.addr # NoAddr THEN "del" ELSE s.n.script
BY DEF Cleanup, IsState, NodeFields

(* gwc_cleanup leaves no tunnel and no route.                                *)
LEMMA CleanupTorn ==
  ASSUME NEW s, Torn(s), NEW c, c = Cleanup(s)
  PROVE  /\ Torn(c) /\ Unrouted(c.n)
         /\ c.net = s.net /\ c.n.args = None
         /\ c.n.curr = s.n.curr /\ c.n.tuno = s.n.tuno /\ c.n.list = s.n.list
         /\ c.n.serving = s.n.serving
<1>1. IsState(s)
  BY DEF Torn
<1>2. CASE s.n.args = None
  BY <1>1, <1>2, CleanupFields DEF Torn, Removable
<1>3. CASE s.n.args # None
  <2>1. Unrouted(c.n)
    BY <1>1, <1>3, CleanupFields, Names DEF Torn, Removable, Unrouted
  <2>2. Listed(c.n)
    <3>1. c.n.tuno = s.n.tuno /\ c.n.list = s.n.list
      BY <1>1, CleanupFields
    <3> QED
      BY <3>1 DEF Torn, Listed
  <2>3. Exclusive(c.n)
    <3>1. /\ c.n.args = None /\ c.n.rules = FALSE
          /\ c.n.serving = s.n.serving /\ c.n.announced = s.n.announced
          /\ c.n.script = "del" \/ c.n.script = s.n.script
      <4>1. /\ c.n.args = None /\ c.n.rules = FALSE
            /\ c.n.serving = s.n.serving /\ c.n.announced = s.n.announced
        BY <1>1, <1>3, CleanupFields
      <4>2. c.n.script = IF s.n.args.addr # NoAddr THEN "del" ELSE s.n.script
        BY <1>1, <1>3, CleanupFields
      <4> QED
        BY <4>1, <4>2
    <3>2. /\ s.n.serving = FALSE /\ s.n.announced = s.n.serving /\ s.n.script # "gateway"
          /\ s.n.script \in Gateways \cup {"", "del", "gateway"}
      BY <1>3 DEF Torn, Exclusive
    <3>3. c.n.script # "gateway" /\ c.n.script \in Gateways \cup {"", "del", "gateway"}
      BY <3>1, <3>2
    <3> QED
      BY <3>1, <3>2, <3>3 DEF Exclusive
  <2> QED
    BY <1>1, <2>1, <2>2, <2>3, CleanupFields DEF Torn, Removable
<1> QED
  BY <1>2, <1>3

(* Without a tunnel a state is sound if its gateway is known.               *)
LEMMA NoTunnel ==
  ASSUME NEW s, NEW r, Torn(s), s.n.args = None, Known(s.n, r)
  PROVE  Sound(s, r)
BY DEF Torn, Sound, Removable, Current, Routed

(* gwc_cleanup in a sound state.                                             *)
LEMMA CleanupSound ==
  ASSUME NEW s, NEW r, Sound(s, r), NEW c, c = Cleanup(s)
  PROVE  Sound(c, r) /\ c.n.args = None /\ c.n.curr = s.n.curr /\ c.n.serving = s.n.serving
         /\ Quiet(s, c)
<1>1. Torn(s)
  BY SoundTorn
<1>2. /\ Torn(c) /\ c.n.args = None /\ c.n.curr = s.n.curr /\ c.n.tuno = s.n.tuno
      /\ c.n.serving = s.n.serving /\ c.net = s.net
  BY <1>1, CleanupTorn
<1>3. Known(c.n, r)
  BY <1>2 DEF Sound, Known
<1> QED
  BY <1>2, <1>3, NoTunnel DEF Quiet, OnlyAsks, CountsOn

(* Leaving a gateway makes a state sound in which a tunnel was not that of   *)
(* the current gateway as it is announced.                                   *)
LEMMA LeaveSound ==
  ASSUME NEW s, NEW r, Torn(s), NEW l, l = Leave(s)
  PROVE  Sound(l, r) /\ l.n.curr = None /\ l.n.args = None /\ Quiet(s, l)
<1> DEFINE c == Cleanup(s)
<1>1. Torn(c) /\ c.n.args = None /\ c.net = s.net
  BY CleanupTorn
<1>2. l = [c EXCEPT !.n.curr = None]
  BY DEF Leave
<1> HIDE DEF c
<1>3. /\ IsState(l) /\ l.net = c.net /\ l.n.curr = None
      /\ l.n.args = c.n.args /\ l.n.list = c.n.list /\ l.n.tuno = c.n.tuno
      /\ l.n.serving = c.n.serving /\ l.n.announced = c.n.announced
      /\ l.n.rules = c.n.rules /\ l.n.route = c.n.route /\ l.n.script = c.n.script
  BY <1>1, <1>2 DEF Torn, IsState, NodeFields
<1>4. Torn(l)
  <2>1. Listed(l.n)
    BY <1>1, <1>3 DEF Torn, Listed
  <2>2. Exclusive(l.n)
    BY <1>1, <1>3 DEF Torn, Exclusive
  <2> QED
    BY <1>1, <1>3, <2>1, <2>2 DEF Torn, Removable, Unrouted
<1> QED
  BY <1>1, <1>3, <1>4, NoTunnel DEF Known, Quiet, OnlyAsks, CountsOn

(* Two states that agree on what Sound looks at.                            *)
Alike(s, t) ==
    /\ IsState(s) => IsState(t)
    /\ t.n.args = s.n.args /\ t.n.curr = s.n.curr
    /\ t.n.list = s.n.list /\ t.n.tuno = s.n.tuno
    /\ t.n.serving = s.n.serving /\ t.n.announced = s.n.announced
    /\ t.n.rules = s.n.rules /\ t.n.route = s.n.route /\ t.n.script = s.n.script

(* What Torn does not look at may differ.                                    *)
LEMMA AlikeTorn ==
  ASSUME NEW s, NEW t, Alike(s, t), Torn(s)
  PROVE  Torn(t)
<1>1. Listed(t.n)
  BY DEF Alike, Torn, Listed
<1>2. Exclusive(t.n)
  BY DEF Alike, Torn, Exclusive
<1> QED
  BY <1>1, <1>2 DEF Alike, Torn, Removable, Unrouted

(* What Sound does not look at may differ.                                   *)
LEMMA AlikeSound ==
  ASSUME NEW s, NEW t, NEW r, Alike(s, t), Sound(s, r)
  PROVE  Sound(t, r)
<1>1. Listed(t.n)
  BY DEF Alike, Sound, Listed
<1>2. Exclusive(t.n)
  BY DEF Alike, Sound, Exclusive
<1> QED
  BY <1>1, <1>2 DEF Alike, Sound, Routed, Unrouted, Known, Current

(* The penalty of a gateway changes nothing else.                            *)
LEMMA BlameAlike ==
  ASSUME NEW s, IsState(s), NEW g, NEW b, b = Blame(s, g)
  PROVE  Alike(s, b) /\ b.net = s.net
BY DEF Blame, Alike, IsState, NodeFields

(* Leave(Blame(s, g)), which ends a tunnel that failed.                     *)
LEMMA FailSound ==
  ASSUME NEW s, NEW r, Torn(s), NEW g, NEW l, l = Leave(Blame(s, g))
  PROVE  Sound(l, r) /\ l.n.curr = None /\ l.n.args = None /\ Quiet(s, l)
<1> DEFINE b == Blame(s, g)
<1>1. Alike(s, b) /\ b.net = s.net
  BY BlameAlike DEF Torn
<1>2. Torn(b)
  BY <1>1, AlikeTorn
<1>3. l = Leave(b)
  OBVIOUS
<1> HIDE DEF b
<1>4. Sound(l, r) /\ l.n.curr = None /\ l.n.args = None /\ Quiet(b, l)
  BY <1>2, <1>3, LeaveSound
<1> QED
  BY <1>1, <1>4 DEF Quiet, OnlyAsks, CountsOn

(* gws_cleanup: the node serves no more.                                    *)
LEMMA StopSound ==
  ASSUME NEW s, NEW r, Sound(s, r), s.n.args = None, NEW t, t = StopService(s)
  PROVE  Sound(t, r) /\ t.n.args = None /\ t.n.curr = s.n.curr /\ t.n.serving = FALSE
         /\ t.net = s.net
<1>1. /\ IsState(t) /\ t.net = s.net /\ t.n.args = s.n.args /\ t.n.curr = s.n.curr
      /\ t.n.list = s.n.list /\ t.n.tuno = s.n.tuno /\ t.n.rules = s.n.rules /\ t.n.route = s.n.route
      /\ t.n.serving = FALSE /\ t.n.announced = FALSE
      /\ t.n.script = IF s.n.serving THEN "del" ELSE s.n.script
  <2>1. IsState(s) /\ s.n.serving \in BOOLEAN
    BY DEF Sound, Exclusive
  <2>2. CASE s.n.serving
    BY <2>1, <2>2 DEF StopService, IsState, NodeFields
  <2>3. CASE ~s.n.serving
    BY <2>1, <2>3 DEF StopService, IsState, NodeFields
  <2> QED
    BY <2>2, <2>3
<1>2. Listed(t.n)
  BY <1>1 DEF Sound, Listed
<1>3. Exclusive(t.n)
  BY <1>1 DEF Sound, Exclusive
<1>4. Routed(t.n) /\ Known(t.n, r) /\ Current(t.n)
  BY <1>1, Names DEF Sound, Routed, Unrouted, Known, Current
<1> QED
  BY <1>1, <1>2, <1>3, <1>4 DEF Sound

(* Nothing is up: what gwc_init and gws_init find.                          *)
Down(s, r) == Sound(s, r) /\ s.n.args = None /\ s.n.serving = FALSE

(* What cb_tun_conf_changed begins with: neither client nor service.         *)
LEMMA ResetDown ==
  ASSUME NEW s, NEW r, Sound(s, r), NEW t, t = Reset(s)
  PROVE  Down(t, r) /\ t.n.curr = s.n.curr /\ t.net = s.net
<1>1. CASE s.n.serving
  <2> DEFINE u == StopService(s)
  <2>1. s.n.args = None
    BY <1>1 DEF Sound, Exclusive
  <2>2. /\ Sound(u, r) /\ u.n.args = None /\ u.n.curr = s.n.curr /\ u.n.serving = FALSE
        /\ u.net = s.net
    BY <2>1, StopSound
  <2>3. t = Cleanup(u)
    BY <1>1 DEF Reset
  <2> HIDE DEF u
  <2>4. t = u
    BY <2>2, <2>3 DEF Cleanup
  <2> QED
    BY <2>2, <2>4 DEF Down
<1>2. CASE ~s.n.serving
  <2>1. t = Cleanup(s) /\ s.n.serving = FALSE
    BY <1>2 DEF Reset, Sound, Exclusive
  <2>2. t.net = s.net
    BY <2>1, CleanupTorn, SoundTorn
  <2> QED
    BY <2>1, <2>2, CleanupSound DEF Down
<1> QED
  BY <1>1, <1>2

(* gws_init.                                                                *)
LEMMA GwsInitSound ==
  ASSUME NEW s, NEW r, Down(s, r), NEW step, NEW t, t = GwsInit(s, step)
  PROVE  Sound(t, r) /\ t.n.args = None /\ t.n.curr = s.n.curr /\ t.net = s.net
<1>1. IsState(s)
  BY DEF Down, Sound
<1>2. CASE step = "done"
  <2>1. /\ IsState(t) /\ t.net = s.net /\ t.n.args = s.n.args /\ t.n.curr = s.n.curr
        /\ t.n.list = s.n.list /\ t.n.tuno = s.n.tuno /\ t.n.rules = s.n.rules /\ t.n.route = s.n.route
        /\ t.n.serving = TRUE /\ t.n.announced = TRUE /\ t.n.script = "gateway"
    BY <1>1, <1>2 DEF GwsInit, IsState, NodeFields
  <2>2. Listed(t.n)
    BY <2>1 DEF Down, Sound, Listed
  <2>3. Exclusive(t.n)
    BY <2>1 DEF Down, Sound, Exclusive
  <2>4. Routed(t.n) /\ Known(t.n, r) /\ Current(t.n)
    BY <2>1, Names DEF Down, Sound, Routed, Unrouted, Known, Current
  <2> QED
    BY <2>1, <2>2, <2>3, <2>4 DEF Down, Sound
<1>3. CASE step # "done"
  <2> DEFINE u == [s EXCEPT !.n.serving = TRUE]
  <2>1. t = StopService(u)
    BY <1>3 DEF GwsInit
  <2>2. /\ IsState(u) /\ u.net = s.net /\ u.n.args = s.n.args /\ u.n.curr = s.n.curr
        /\ u.n.list = s.n.list /\ u.n.tuno = s.n.tuno /\ u.n.rules = s.n.rules /\ u.n.route = s.n.route
        /\ u.n.serving = TRUE
    BY <1>1 DEF IsState, NodeFields
  <2> HIDE DEF u
  <2>3. /\ IsState(t) /\ t.net = s.net /\ t.n.args = s.n.args /\ t.n.curr = s.n.curr
        /\ t.n.list = s.n.list /\ t.n.tuno = s.n.tuno /\ t.n.rules = s.n.rules /\ t.n.route = s.n.route
        /\ t.n.serving = FALSE /\ t.n.announced = FALSE /\ t.n.script = "del"
    BY <2>1, <2>2 DEF StopService, IsState, NodeFields
  <2>4. Listed(t.n)
    BY <2>3 DEF Down, Sound, Listed
  <2>5. Exclusive(t.n)
    BY <2>3 DEF Down, Sound, Exclusive
  <2>6. Routed(t.n) /\ Known(t.n, r) /\ Current(t.n)
    BY <2>3, Names DEF Down, Sound, Routed, Unrouted, Known, Current
  <2> QED
    BY <2>3, <2>4, <2>5, <2>6 DEF Down, Sound
<1> QED
  BY <1>2, <1>3

(* What gwc_init puts together.                                             *)
LEMMA NewArgsFields ==
  ASSUME scene \in Scenes, NEW g \in Gateways, NEW ad \in Ads, NEW a, a = NewArgs(g, ad)
  PROVE  /\ a \in Args /\ a.gw = g /\ a.ad = ad /\ a.dur = 0
         /\ a.addr = IF TypeFor(ad) = "owt" THEN OwnAddr ELSE NoAddr
<1>1. MaxAge[scene] \in Nat
  BY TunnelAssumption
<1>2. TypeFor(ad) \in {"twt", "owt"}
  BY DEF TypeFor
<1> QED
  BY <1>1, <1>2 DEF NewArgs, Args

OneWayUp(u, g) == [u EXCEPT !.n.factor[g] = 0, !.n.route = TRUE, !.n.script = g]
(* The end of gwc_init on a one-way tunnel, field by field.                  *)
LEMMA OneWayFields ==
  ASSUME NEW u, IsState(u), NEW g, NEW t, t = OneWayUp(u, g)
  PROVE  /\ IsState(t) /\ t.net = u.net /\ t.n.args = u.n.args /\ t.n.curr = u.n.curr
         /\ t.n.list = u.n.list /\ t.n.tuno = u.n.tuno /\ t.n.rules = u.n.rules
         /\ t.n.serving = u.n.serving /\ t.n.announced = u.n.announced
         /\ t.n.script = g
BY DEF OneWayUp, IsState, NodeFields
(* The default route leads there.                                            *)
LEMMA OneWayRoute ==
  ASSUME NEW u, IsState(u), NEW g, NEW t, t = OneWayUp(u, g)
  PROVE  t.n.route = TRUE
BY DEF OneWayUp, IsState, NodeFields

(* gwc_init leads to a tunnel to the current gateway as it is announced, or  *)
(* leaves it.                                                               *)
LEMMA GwcInitSound ==
  ASSUME scene \in Scenes, NEW s, NEW r, Down(s, r), s.n.curr # None, NEW step,
         NEW t, t = GwcInit(s, step)
  PROVE  Sound(t, r) /\ Quiet(s, t) /\ t.n.curr \in {None, s.n.curr}
<1> DEFINE g == s.n.curr
           ad == s.n.tuno[g]
           oneway == TypeFor(ad) = "owt"
<1>1. IsState(s) /\ Torn(s) /\ g \in Gateways /\ ad \in Ads
  BY SoundTorn DEF Down, Sound, Known, Listed
<1>2. CASE ad = None \/ ~Usable(ad) \/ step = "socket"
  <2>1. t = Leave(s)
    BY <1>2 DEF GwcInit
  <2> QED
    BY <2>1, <1>1, LeaveSound
<1>3. CASE ~(ad = None \/ ~Usable(ad) \/ step = "socket") /\ step = "device"
  <2>1. t = Leave(Blame(s, g))
    BY <1>3 DEF GwcInit
  <2> QED
    BY <2>1, <1>1, FailSound
<1>4. CASE ~(ad = None \/ ~Usable(ad) \/ step = "socket") /\ step = "address" /\ oneway
  <2> DEFINE u == [s EXCEPT !.n.failed[g] = 0]
  <2>1. t = Leave(u)
    BY <1>4 DEF GwcInit
  <2>2. Alike(s, u) /\ u.net = s.net
    BY <1>1 DEF Alike, IsState, NodeFields
  <2> HIDE DEF u
  <2>3. Torn(u)
    BY <1>1, <2>2, AlikeTorn
  <2>4. Sound(t, r) /\ t.n.curr = None /\ t.n.args = None /\ Quiet(u, t)
    BY <2>1, <2>3, LeaveSound
  <2> QED
    BY <2>2, <2>4 DEF Quiet, OnlyAsks, CountsOn
<1>5. CASE /\ ~(ad = None \/ ~Usable(ad) \/ step = "socket") /\ step # "device"
           /\ ~(step = "address" /\ oneway)
  <2> DEFINE a == NewArgs(g, ad)
             up == [s EXCEPT !.n.failed[g] = 0, !.n.rules = TRUE, !.n.args = a]
  <2>1. t = IF oneway
            THEN [up EXCEPT !.n.factor[g] = 0, !.n.route = TRUE, !.n.script = g]
            ELSE up
    BY <1>5 DEF GwcInit
  <2>2. /\ a \in Args /\ a.gw = g /\ a.ad = ad /\ a.dur = 0
        /\ a.addr = IF oneway THEN OwnAddr ELSE NoAddr
    BY <1>1, NewArgsFields
  <2> HIDE DEF a
  <2>3. /\ IsState(up) /\ up.net = s.net /\ up.n.args = a /\ up.n.curr = s.n.curr
        /\ up.n.list = s.n.list /\ up.n.tuno = s.n.tuno /\ up.n.rules = TRUE
        /\ up.n.route = s.n.route /\ up.n.script = s.n.script
        /\ up.n.serving = s.n.serving /\ up.n.announced = s.n.announced
    BY <1>1 DEF IsState, NodeFields
  <2> HIDE DEF up
  <2>4. /\ IsState(t) /\ t.net = s.net /\ t.n.args = a /\ t.n.curr = s.n.curr
        /\ t.n.list = s.n.list /\ t.n.tuno = s.n.tuno /\ t.n.rules = TRUE
        /\ t.n.serving = s.n.serving /\ t.n.announced = s.n.announced
        /\ t.n.route = IF oneway THEN TRUE ELSE s.n.route
        /\ t.n.script = IF oneway THEN g ELSE s.n.script
    <3>1. CASE oneway
      <4>1. t = OneWayUp(up, g)
        BY <2>1, <3>1 DEF OneWayUp
      <4> DEFINE w == OneWayUp(up, g)
      <4>2. /\ IsState(w) /\ w.net = up.net /\ w.n.args = up.n.args /\ w.n.curr = up.n.curr
            /\ w.n.list = up.n.list /\ w.n.tuno = up.n.tuno /\ w.n.rules = up.n.rules
            /\ w.n.serving = up.n.serving /\ w.n.announced = up.n.announced
            /\ w.n.script = g
        <5>1. IsState(up)
          BY <2>3
        <5> HIDE DEF g
        <5> QED
          BY <5>1, OneWayFields
      <4>4. w.n.route = TRUE
        <5>1. IsState(up)
          BY <2>3
        <5> QED
          BY <5>1, OneWayRoute
      <4>3. t = w
        BY <4>1
      <4> HIDE DEF w
      <4> QED
        BY <2>3, <3>1, <4>2, <4>3, <4>4
    <3>2. CASE ~oneway
      BY <2>1, <2>3, <3>2
    <3> QED
      BY <3>1, <3>2
  <2>5. a # None
    BY <2>2, TunnelClientAssumption
  <2>6. Listed(t.n)
    BY <2>4 DEF Down, Sound, Listed
  <2> HIDE DEF oneway
  <2>7. Exclusive(t.n)
    BY <1>1, <2>2, <2>4, <2>5, Names DEF Down, Sound, Exclusive
  <2>8. Known(t.n, r) /\ Current(t.n)
    BY <2>2, <2>4 DEF Down, Sound, Known, Current
  <2>9. Routed(t.n)
    BY <1>1, <2>2, <2>4, <2>5, AddrsFacts, Names DEF Down, Sound, Routed, Unrouted
  <2> QED
    BY <2>2, <2>4, <2>6, <2>7, <2>8, <2>9 DEF Sound, Quiet, OnlyAsks, CountsOn
<1> QED
  BY <1>2, <1>3, <1>4, <1>5

(* cb_tun_conf_changed, whatever changed.                                   *)
LEMMA ConfChangedSound ==
  ASSUME scene \in Scenes, NEW s, NEW r, Sound(s, r), NEW changed, NEW step,
         NEW t, t = ConfChanged(s, changed, step)
  PROVE  Sound(t, r) /\ Quiet(s, t) /\ t.n.curr \in {None, s.n.curr}
<1> DEFINE u == Reset(s)
           up == IF ~Usable([twt |-> TRUE, owt |-> TRUE]) THEN u
                 ELSE IF s.n.rt # 0 /\ s.n.curr # None THEN GwcInit(u, step)
                 ELSE IF s.n.gwc # 0 THEN GwsInit(u, step)
                 ELSE u
<1>1. Down(u, r) /\ u.n.curr = s.n.curr /\ u.net = s.net
  BY ResetDown
<1>2. t = s \/ t = [up EXCEPT !.n.seen = Seen(up)]
  BY DEF ConfChanged
<1>3. s.n.curr # None => Sound(GwcInit(u, step), r) /\ Quiet(u, GwcInit(u, step))
                         /\ GwcInit(u, step).n.curr \in {None, s.n.curr}
  BY <1>1, GwcInitSound
<1>4. LET x == GwsInit(u, step) IN Sound(x, r) /\ x.n.args = None /\ x.n.curr = s.n.curr /\ x.net = s.net
  BY <1>1, GwsInitSound
<1> HIDE DEF u
<1>5. Sound(up, r) /\ Quiet(s, up) /\ up.n.curr \in {None, s.n.curr}
  BY <1>1, <1>3, <1>4 DEF Down, Quiet, OnlyAsks, CountsOn
<1> HIDE DEF up
<1>6. CASE t = [up EXCEPT !.n.seen = Seen(up)]
  <2>1. Alike(up, t) /\ t.net = up.net
    BY <1>5, <1>6 DEF Alike, Sound, IsState, NodeFields
  <2>2. Sound(t, r)
    BY <1>5, <2>1, AlikeSound
  <2> QED
    BY <1>5, <2>1, <2>2 DEF Alike, Quiet, OnlyAsks, CountsOn
<1> QED
  BY <1>2, <1>6 DEF Quiet, OnlyAsks, CountsOn

-----------------------------------------------------------------------------
(* Announcements.                                                           *)

(* update_gw_list keeps each announced gateway listed once.                  *)
LEMMA StoredListed ==
  ASSUME NEW s, IsState(s), Listed(s.n), NEW g \in Gateways, NEW ad \in Ads \cup {None},
         NEW t, t = Stored(s, g, ad)
  PROVE  /\ IsState(t) /\ Listed(t.n)
         /\ t.n.tuno = [s.n.tuno EXCEPT ![g] = ad]
         /\ t.net = s.net /\ t.n.args = s.n.args /\ t.n.curr = s.n.curr
         /\ t.n.rules = s.n.rules /\ t.n.route = s.n.route /\ t.n.script = s.n.script
         /\ t.n.serving = s.n.serving /\ t.n.announced = s.n.announced
<1> DEFINE list == IF ad = None THEN RemoveFirst(s.n.list, g)
                   ELSE IF s.n.tuno[g] = None THEN Append(s.n.list, g) ELSE s.n.list
<1>1. /\ IsState(t) /\ t.n.list = list
      /\ t.n.tuno = [s.n.tuno EXCEPT ![g] = ad]
      /\ t.net = s.net /\ t.n.args = s.n.args /\ t.n.curr = s.n.curr
      /\ t.n.rules = s.n.rules /\ t.n.route = s.n.route /\ t.n.script = s.n.script
      /\ t.n.serving = s.n.serving /\ t.n.announced = s.n.announced
  BY DEF Stored, IsState, NodeFields
<1>2. /\ s.n.tuno \in [Gateways -> Ads \cup {None}] /\ s.n.list \in Seq(Gateways)
      /\ \A i, j \in DOMAIN s.n.list : s.n.list[i] = s.n.list[j] => i = j
      /\ \A x \in Gateways : s.n.tuno[x] # None <=> \E i \in DOMAIN s.n.list : s.n.list[i] = x
  BY DEF Listed
<1>3. /\ list \in Seq(Gateways)
      /\ \A i, j \in DOMAIN list : list[i] = list[j] => i = j
      /\ \A x \in Gateways : (IF x = g THEN ad # None ELSE s.n.tuno[x] # None)
                               <=> \E i \in DOMAIN list : list[i] = x
  <2>1. CASE ad = None
    <3> DEFINE m == RemoveFirst(s.n.list, g)
    <3>1. /\ m \in Seq(Gateways)
          /\ \A i, j \in DOMAIN m : m[i] = m[j] => i = j
          /\ \A x \in Gateways : (\E i \in DOMAIN m : m[i] = x)
                                  <=> (x # g /\ \E i \in DOMAIN s.n.list : s.n.list[i] = x)
      BY <1>2, RemoveFirstElements
    <3>2. list = m
      BY <2>1
    <3> HIDE DEF m, list
    <3> QED
      BY <1>2, <2>1, <3>1, <3>2
  <2>2. CASE ad # None /\ s.n.tuno[g] = None
    <3> DEFINE l == s.n.list
               m == Append(l, g)
    <3>1. /\ m \in Seq(Gateways) /\ Len(m) = Len(l) + 1 /\ m[Len(l) + 1] = g
          /\ \A i \in 1..Len(l) : m[i] = l[i]
      BY <1>2, AppendProperties
    <3>2. list = m
      BY <2>2
    <3>3. ~\E i \in DOMAIN l : l[i] = g
      BY <1>2, <2>2
    <3>4. DOMAIN l = 1..Len(l) /\ Len(l) \in Nat
      BY <1>2
    <3> HIDE DEF m, list, l
    <3>5. DOMAIN m = 1..(Len(l) + 1)
      BY <3>1
    <3>6. \A i \in DOMAIN m : (i \in DOMAIN l /\ m[i] = l[i]) \/ (i = Len(l) + 1 /\ m[i] = g)
      <4> SUFFICES ASSUME NEW i \in DOMAIN m
                   PROVE  (i \in DOMAIN l /\ m[i] = l[i]) \/ (i = Len(l) + 1 /\ m[i] = g)
        OBVIOUS
      <4>1. i \in 1..Len(l) \/ i = Len(l) + 1
        BY <3>4, <3>5
      <4>2. CASE i \in 1..Len(l)
        <5>1. m[i] = l[i]
          BY <3>1, <4>2
        <5>2. i \in DOMAIN l
          BY <3>4, <4>2
        <5> QED
          BY <5>1, <5>2
      <4> QED
        BY <3>1, <4>1, <4>2
    <3>7. \A i, j \in DOMAIN m : m[i] = m[j] => i = j
      BY <1>2, <3>3, <3>6 DEF l
    <3>8. \A x \in Gateways : (\E i \in DOMAIN m : m[i] = x)
                              <=> (x = g \/ \E i \in DOMAIN l : l[i] = x)
      <4>1. \A i \in DOMAIN l : i \in DOMAIN m /\ m[i] = l[i]
        BY <3>1, <3>4, <3>5
      <4>2. Len(l) + 1 \in DOMAIN m
        BY <3>4, <3>5
      <4> QED
        BY <3>1, <3>6, <4>1, <4>2
    <3> QED
      BY <1>2, <2>2, <3>1, <3>2, <3>7, <3>8 DEF l
  <2>3. CASE ad # None /\ s.n.tuno[g] # None
    <3>1. list = s.n.list
      BY <2>3
    <3> HIDE DEF list
    <3> QED
      BY <1>2, <2>3, <3>1
  <2> QED
    BY <2>1, <2>2, <2>3
<1> HIDE DEF list
<1>4. Listed(t.n)
  <2> DEFINE tuno == [s.n.tuno EXCEPT ![g] = ad]
  <2>1. tuno \in [Gateways -> Ads \cup {None}] /\ \A x \in Gateways : tuno[x] = IF x = g THEN ad ELSE s.n.tuno[x]
    BY <1>2
  <2>2. t.n.tuno = tuno /\ t.n.list = list
    BY <1>1
  <2> HIDE DEF tuno
  <2> QED
    BY <1>3, <2>1, <2>2 DEF Listed
<1> QED
  BY <1>1, <1>4

(* update_gw_list: the current gateway is left when its announcement         *)
(* changes, and only then.                                                   *)
LEMMA UpdateSound ==
  ASSUME NEW s, NEW r, Sound(s, r), NEW g \in Gateways, NEW ad \in Ads \cup {None},
         NEW t, t = UpdateGwList(s, g, ad)
  PROVE  /\ Sound(t, r) /\ Quiet(s, t) /\ t.n.curr \in {None, s.n.curr}
         /\ s.n.curr = g /\ s.n.tuno[g] # None => t.n.curr = None
<1> DEFINE u == Stored(s, g, ad)
<1>1. /\ IsState(u) /\ Listed(u.n)
      /\ u.n.tuno = [s.n.tuno EXCEPT ![g] = ad]
      /\ u.net = s.net /\ u.n.args = s.n.args /\ u.n.curr = s.n.curr
      /\ u.n.rules = s.n.rules /\ u.n.route = s.n.route /\ u.n.script = s.n.script
      /\ u.n.serving = s.n.serving /\ u.n.announced = s.n.announced
  BY StoredListed DEF Sound
<1>2. t = IF s.n.tuno[g] # None /\ s.n.curr = g THEN Leave(u) ELSE u
  BY DEF UpdateGwList
<1> HIDE DEF u
<1>3. Exclusive(u.n)
  BY <1>1 DEF Sound, Exclusive
<1>4. CASE s.n.tuno[g] # None /\ s.n.curr = g
  <2>1. Torn(u)
    BY <1>1, <1>3 DEF Sound, Torn, Removable, Routed, Unrouted
  <2>2. t = Leave(u)
    BY <1>2, <1>4
  <2>3. Sound(t, r) /\ t.n.curr = None /\ Quiet(u, t)
    BY <2>1, <2>2, LeaveSound
  <2> QED
    BY <1>1, <2>3 DEF Quiet, OnlyAsks, CountsOn
<1>5. CASE ~(s.n.tuno[g] # None /\ s.n.curr = g)
  <2>1. t = u
    BY <1>2, <1>5
  <2>2. s.n.tuno \in [Gateways -> Ads \cup {None}] /\ (s.n.curr # None => s.n.curr \in Gateways /\ s.n.curr # g)
    BY <1>5 DEF Sound, Listed, Known
  <2>3. s.n.curr # None => u.n.tuno[s.n.curr] = s.n.tuno[s.n.curr]
    BY <1>1, <2>2
  <2>4. Known(u.n, r) /\ Current(u.n)
    BY <1>1, <2>3 DEF Sound, Known, Current
  <2>5. Routed(u.n)
    BY <1>1 DEF Sound, Routed, Unrouted
  <2> QED
    BY <1>1, <1>3, <1>5, <2>1, <2>4, <2>5 DEF Sound, Quiet, OnlyAsks, CountsOn
<1> QED
  BY <1>4, <1>5

(* cb_tun_ogm_hook, whatever it reads in what was freed.                     *)
LEMMA OgmHookSound ==
  ASSUME NEW s, NEW r, Sound(s, r), NEW g \in Gateways, NEW ad \in Ads \cup {None},
         NEW tuno, NEW wa, NEW t, t = OgmHook(s, g, ad, tuno, wa)
  PROVE  Sound(t, r) /\ Quiet(s, t) /\ t.n.curr \in {None, s.n.curr}
<1> DEFINE u == IF s.n.tuno[g] # ad THEN UpdateGwList(s, g, ad) ELSE s
<1>1. Sound(u, r) /\ Quiet(s, u) /\ u.n.curr \in {None, s.n.curr}
  <2>1. LET v == UpdateGwList(s, g, ad)
        IN  Sound(v, r) /\ Quiet(s, v) /\ v.n.curr \in {None, s.n.curr}
    BY UpdateSound
  <2> QED
    BY <2>1 DEF Quiet, OnlyAsks, CountsOn
<1>2. t = u \/ t = Leave(u)
  BY DEF OgmHook
<1> HIDE DEF u
<1>3. CASE t = Leave(u)
  <2>1. Sound(t, r) /\ t.n.curr = None /\ Quiet(u, t)
    BY <1>1, <1>3, SoundTorn, LeaveSound
  <2> QED
    BY <1>1, <2>1, QuietTransitive
<1> QED
  BY <1>1, <1>2, <1>3

(* cb_tun_orig_flush: the originator and its router are gone.                *)
LEMMA FlushSound ==
  ASSUME NEW s, NEW r, Sound(s, r), NEW g \in Gateways, NEW q,
         \A x \in Gateways \ {g} : q[x] = r[x], NEW t, t = Flush(s, g)
  PROVE  Sound(t, q) /\ Quiet(s, t) /\ t.n.curr \in {None, s.n.curr}
<1> DEFINE v == UpdateGwList(s, g, None)
<1>1. /\ Sound(v, r) /\ Quiet(s, v) /\ v.n.curr \in {None, s.n.curr}
      /\ s.n.curr = g /\ s.n.tuno[g] # None => v.n.curr = None
  BY UpdateSound
<1>2. t = IF s.n.tuno[g] # None THEN v ELSE s
  BY DEF Flush
<1> HIDE DEF v
<1>3. Sound(t, r) /\ Quiet(s, t) /\ t.n.curr \in {None, s.n.curr}
  BY <1>1, <1>2 DEF Quiet, OnlyAsks, CountsOn
<1>4. t.n.curr # None => t.n.curr \in Gateways \ {g} /\ r[t.n.curr] # NoRoute
  BY <1>1, <1>2 DEF Sound, Known
<1>5. t.n.curr # None => q[t.n.curr] # NoRoute
  BY <1>4
<1> QED
  BY <1>3, <1>5, OtherRouter

-----------------------------------------------------------------------------
(* The two-way tunnel at work.                                              *)

(* What the tunnel knows may change, not what it is.                         *)
OnlyArgs(s, t) ==
    /\ IsState(t) /\ t.n.curr = s.n.curr
    /\ t.n.list = s.n.list /\ t.n.tuno = s.n.tuno
    /\ t.n.serving = s.n.serving /\ t.n.announced = s.n.announced
    /\ t.n.rules = s.n.rules /\ t.n.route = s.n.route /\ t.n.script = s.n.script

(* Another state of the same tunnel.                                         *)
LEMMA OtherArgs ==
  ASSUME NEW s, NEW r, Sound(s, r), s.n.args # None, NEW a \in Args,
         a.gw = s.n.args.gw, a.ad = s.n.args.ad, a.addr = s.n.args.addr,
         NEW t, OnlyArgs(s, t), t.n.args = a
  PROVE  Sound(t, r)
<1>1. a # None
  BY TunnelClientAssumption
<1>2. Listed(t.n)
  BY DEF Sound, Listed, OnlyArgs
<1>3. Exclusive(t.n)
  BY <1>1 DEF Sound, Exclusive, OnlyArgs
<1>4. Known(t.n, r) /\ Current(t.n)
  BY <1>1 DEF Sound, Known, Current, OnlyArgs
<1>5. Routed(t.n)
  BY <1>1 DEF Sound, Routed, Unrouted, OnlyArgs
<1> QED
  BY <1>2, <1>3, <1>4, <1>5 DEF Sound, OnlyArgs

(* The assignments of gwc_request_tun_ip, gwc_maintain_twt and gwc_recv_tun. *)
Asked(s, x, y, k) == [s EXCEPT !.net = x, !.n.args.asked = y, !.n.args.requests = k]
AskedArgs(a, y, k) == [a EXCEPT !.asked = y, !.requests = k]
(* A request, field by field.                                                *)
LEMMA AskedFields ==
  ASSUME NEW s, IsState(s), NEW x, NEW y, NEW k
  PROVE  /\ OnlyArgs(s, Asked(s, x, y, k)) /\ Asked(s, x, y, k).net = x
         /\ Asked(s, x, y, k).n.args = AskedArgs(s.n.args, y, k)
BY DEF Asked, AskedArgs, OnlyArgs, IsState, NodeFields
Doubted(s, x, y) == [s EXCEPT !.n.args.state = x, !.n.args.since = y]
DoubtedArgs(a, x, y) == [a EXCEPT !.state = x, !.since = y]
(* A gateway that has to prove itself anew.                                  *)
LEMMA DoubtedFields ==
  ASSUME NEW s, IsState(s), NEW x, NEW y
  PROVE  /\ OnlyArgs(s, Doubted(s, x, y)) /\ Doubted(s, x, y).net = s.net
         /\ Doubted(s, x, y).n.args = DoubtedArgs(s.n.args, x, y)
BY DEF Doubted, DoubtedArgs, OnlyArgs, IsState, NodeFields

(* Sending a request or data.                                               *)
LEMMA SendQuiet ==
  ASSUME NEW n, NEW t \in {"request", "data"}, NEW g \in Gateways,
         NEW a \in Addrs \cup {NoAddr, OwnAddr}
  PROVE  OnlyAsks(n, Sent(n, Msg(t, Me, g, a, 0)))
<1> DEFINE m == Msg(t, Me, g, a, 0)
<1>1. Asking(m)
  BY TunnelClientAssumption DEF Asking, Messages, Msg
<1> DEFINE x == Sent(n, m)
<1>2. x \subseteq n \cup {m}
  BY SentOnly
<1> HIDE DEF m
<1>3. OnlyAsks(n, x)
  BY <1>1, <1>2 DEF OnlyAsks
<1> QED
  BY <1>3 DEF m

Since(s, x) == [s EXCEPT !.n.args.since = x]
SinceArgs(a, x) == [a EXCEPT !.since = x]
(* The time of the first packet that is not answered.                        *)
LEMMA SinceFields ==
  ASSUME NEW s, IsState(s), NEW x
  PROVE  /\ OnlyArgs(s, Since(s, x)) /\ Since(s, x).net = s.net
         /\ Since(s, x).n.args = SinceArgs(s.n.args, x)
BY DEF Since, SinceArgs, OnlyArgs, IsState, NodeFields
Invalid(s) == [s EXCEPT !.n.args.dur = 0]
InvalidArgs(a) == [a EXCEPT !.dur = 0]
(* A lease the gateway does not know.                                        *)
LEMMA InvalidFields ==
  ASSUME NEW s, IsState(s)
  PROVE  /\ OnlyArgs(s, Invalid(s)) /\ Invalid(s).net = s.net
         /\ Invalid(s).n.args = InvalidArgs(s.n.args)
BY DEF Invalid, InvalidArgs, OnlyArgs, IsState, NodeFields
Verified(s, g) ==
    [s EXCEPT !.n.args.state = "verified", !.n.args.since = 0, !.n.failed[g] = 0, !.n.factor[g] = 0]
(* A gateway that answered.                                                  *)
LEMMA VerifiedFields ==
  ASSUME NEW s, IsState(s), NEW g
  PROVE  /\ OnlyArgs(s, Verified(s, g)) /\ Verified(s, g).net = s.net
         /\ Verified(s, g).n.args = DoubtedArgs(s.n.args, "verified", 0)
BY DEF Verified, DoubtedArgs, OnlyArgs, IsState, NodeFields

(* gwc_request_tun_ip.                                                      *)
LEMMA RequestSound ==
  ASSUME NEW s, NEW r, Sound(s, r), s.n.args # None, NEW t, t = Request(s)
  PROVE  /\ Sound(t, r) /\ Quiet(s, t)
         /\ t.n.args # None /\ t.n.args.gw = s.n.args.gw
         /\ t.n.curr = s.n.curr
<1> DEFINE a == s.n.args
           net1 == Sent(s.net, Msg("request", Me, a.gw, a.addr, 0))
           k == Min({a.requests + 1, MaxRequests})
           b == AskedArgs(a, 0, k)
<1>1. a \in Args
  BY DEF Sound, Exclusive
<1>2. a.requests + 1 \in Nat /\ MaxRequests \in Nat
  <2>1. a.requests \in Nat
    BY <1>1 DEF Args
  <2>2. MaxRequests \in Nat
    BY TunnelClientAssumption
  <2> QED
    BY <2>1, <2>2
<1>3. k \in Nat
  BY <1>2, MinOfTwo
<1>4. OnlyAsks(s.net, net1)
  BY <1>1, SendQuiet DEF Args
<1>5. IsState(s)
  BY DEF Sound
<1> HIDE DEF net1, k
<1>6. b \in Args /\ b.gw = a.gw /\ b.ad = a.ad /\ b.addr = a.addr /\ b.type = a.type
      /\ b.dur = a.dur /\ b.leased = a.leased /\ b.fresh = a.fresh
  BY <1>1, <1>3 DEF Args, AskedArgs
<1>7. t = Asked(s, net1, 0, k)
  BY DEF Request, Asked, net1, k
<1>8. OnlyArgs(s, t) /\ t.net = net1 /\ t.n.args = b
  <2> DEFINE w == Asked(s, net1, 0, k)
  <2>1. OnlyArgs(s, w) /\ w.net = net1 /\ w.n.args = b
    BY <1>5, AskedFields
  <2>2. t = w
    BY <1>7
  <2> HIDE DEF w, b
  <2> QED
    BY <2>1, <2>2
<1> HIDE DEF b
<1>9. Sound(t, r)
  BY <1>6, <1>8, OtherArgs
<1>10. b # None
  BY <1>6, TunnelClientAssumption
<1> QED
  BY <1>4, <1>6, <1>8, <1>9, <1>10 DEF Quiet, CountsOn, OnlyArgs

(* gwc_maintain_twt.                                                        *)
LEMMA MaintainedSound ==
  ASSUME NEW s, NEW r, Sound(s, r), s.n.args # None, NEW t, t = Maintained(s)
  PROVE  Sound(t, r) /\ Quiet(s, t) /\ t.n.curr \in {None, s.n.curr}
<1> DEFINE a == s.n.args
           u == IF Due(a) THEN Request(s) ELSE s
<1>1. /\ Sound(u, r) /\ Quiet(s, u) /\ u.n.args # None /\ u.n.curr = s.n.curr
  <2>1. LET v == Request(s) IN Sound(v, r) /\ Quiet(s, v) /\ v.n.args # None /\ v.n.curr = s.n.curr
    BY RequestSound
  <2> QED
    BY <2>1 DEF Quiet, OnlyAsks, CountsOn
<1>2. \/ t = Leave(Blame(s, a.gw))
      \/ t = Leave(Blame(u, a.gw))
      \/ t = Doubted(u, "unknown", Off)
      \/ t = u
  BY DEF Maintained, Doubted
<1> HIDE DEF u
<1>3. CASE t = Leave(Blame(s, a.gw))
  BY <1>3, SoundTorn, FailSound
<1>4. CASE t = Leave(Blame(u, a.gw))
  <2>1. Sound(t, r) /\ t.n.curr = None /\ Quiet(u, t)
    BY <1>1, <1>4, SoundTorn, FailSound
  <2> QED
    BY <1>1, <2>1, QuietTransitive
<1>5. CASE t = Doubted(u, "unknown", Off)
  <2> DEFINE c == u.n.args
             b == DoubtedArgs(c, "unknown", Off)
  <2>1. c \in Args /\ IsState(u)
    BY <1>1 DEF Sound, Exclusive
  <2>2. b \in Args /\ b.gw = c.gw /\ b.ad = c.ad /\ b.addr = c.addr /\ b.type = c.type
        /\ b.dur = c.dur /\ b.leased = c.leased /\ b.fresh = c.fresh
    BY <2>1 DEF Args, DoubtedArgs
  <2>3. OnlyArgs(u, t) /\ t.net = u.net /\ t.n.args = b
    <3> DEFINE w == Doubted(u, "unknown", Off)
    <3>1. OnlyArgs(u, w) /\ w.net = u.net /\ w.n.args = b
      BY <2>1, DoubtedFields
    <3>2. t = w
      BY <1>5
    <3> HIDE DEF w, b
    <3> QED
      BY <3>1, <3>2
  <2> HIDE DEF b
  <2>4. Sound(t, r)
    BY <1>1, <2>2, <2>3, OtherArgs
  <2>5. Quiet(u, t)
    BY <1>1, <2>2, <2>3 DEF Quiet, OnlyAsks, CountsOn
  <2> QED
    BY <1>1, <2>3, <2>4, <2>5, QuietTransitive DEF OnlyArgs
<1> QED
  BY <1>1, <1>2, <1>3, <1>4, <1>5

(* The time since which the gateway is watched.                             *)
LEMMA WatchedSound ==
  ASSUME NEW s, NEW r, Sound(s, r), s.n.args # None, NEW t, t = Watched(s)
  PROVE  Sound(t, r) /\ Quiet(s, t) /\ t.n.curr = s.n.curr
<1> DEFINE w == Since(s, 0)
           c == s.n.args
           b == SinceArgs(c, 0)
<1>1. t = s \/ t = w
  BY DEF Watched, Since
<1>2. c \in Args /\ IsState(s)
  BY DEF Sound, Exclusive
<1>3. b \in Args /\ b.gw = c.gw /\ b.ad = c.ad /\ b.addr = c.addr /\ b.type = c.type
      /\ b.dur = c.dur /\ b.leased = c.leased /\ b.fresh = c.fresh
  BY <1>2 DEF Args, SinceArgs
<1>4. OnlyArgs(s, w) /\ w.net = s.net /\ w.n.args = b
  BY <1>2, SinceFields
<1> HIDE DEF w, b
<1>5. Sound(w, r) /\ Quiet(s, w) /\ w.n.curr = s.n.curr
  BY <1>3, <1>4, OtherArgs DEF OnlyArgs, Quiet, OnlyAsks, CountsOn
<1> QED
  BY <1>1, <1>5 DEF Quiet, OnlyAsks, CountsOn

(* gwc_recv_tun.                                                            *)
LEMMA FromTunSound ==
  ASSUME NEW s, NEW r, Sound(s, r), s.n.args # None, NEW src, NEW sends,
         NEW t, t = FromTun(s, src, sends)
  PROVE  Sound(t, r) /\ Quiet(s, t) /\ t.n.curr \in {None, s.n.curr}
<1> DEFINE a == s.n.args
           net1 == Sent(s.net, Msg("data", Me, a.gw, a.addr, 0))
           u == [s EXCEPT !.net = net1]
           w == Watched(u)
<1>1. t \in {Leave(Blame(s, a.gw)), w, Leave(s), Cleanup(s), s}
  BY DEF FromTun
<1>2. IsState(s) /\ a \in Args
  BY DEF Sound, Exclusive
<1>3. OnlyAsks(s.net, net1)
  BY <1>2, SendQuiet DEF Args
<1> HIDE DEF net1
<1>4. IsState(u) /\ u.n = s.n /\ u.net = net1
  BY <1>2 DEF IsState
<1> HIDE DEF u
<1>5. Alike(s, u)
  BY <1>4 DEF Alike
<1>6. Sound(u, r)
  BY <1>5, AlikeSound
<1>7. Sound(w, r) /\ Quiet(u, w) /\ w.n.curr = s.n.curr
  BY <1>4, <1>6, WatchedSound
<1>8. Quiet(s, u)
  BY <1>3, <1>4 DEF Quiet, CountsOn
<1> HIDE DEF w
<1>9. CASE t = w
  BY <1>7, <1>8, <1>9, QuietTransitive
<1>10. CASE t = Leave(Blame(s, a.gw)) \/ t = Leave(s)
  BY <1>10, SoundTorn, FailSound, LeaveSound
<1>11. CASE t = Cleanup(s)
  BY <1>11, CleanupSound
<1>12. CASE t = s
  BY <1>12 DEF Quiet, OnlyAsks, CountsOn
<1> QED
  BY <1>1, <1>9, <1>10, <1>11, <1>12

(* What a gateway's answer says: no address, or one for the lease time.      *)
IsGrant(m) ==
    m.t = "reply" => (m.addr = NoAddr /\ m.lt = 0) \/ (m.addr \in Addrs /\ m.lt = LeaseTime[scene])

(* The client counts on what the answer grants.                             *)
TakesLease(b, m) ==
    /\ m.t = "reply" /\ b # None /\ b.gw = m.from /\ b.addr = m.addr /\ b.dur = m.lt
    /\ b.leased = 0 /\ b.fresh = m.fresh

(* gwc_handle_tun_ip_reply.                                                 *)
GrantArgs(a, m) ==
    [a EXCEPT !.leased = 0, !.addr = m.addr, !.dur = m.lt, !.requests = 0, !.fresh = m.fresh]
WithArgs(s, a) == [s EXCEPT !.n.args = a]
Moved(s, g) == [s EXCEPT !.n.route = TRUE, !.n.script = g]
Fallen(s) == [s EXCEPT !.n.route = FALSE, !.n.script = "del"]
Beside(s, t) ==
    /\ IsState(t) /\ t.net = s.net /\ t.n.curr = s.n.curr /\ t.n.args = s.n.args
    /\ t.n.list = s.n.list /\ t.n.tuno = s.n.tuno
    /\ t.n.serving = s.n.serving /\ t.n.announced = s.n.announced
    /\ t.n.rules = s.n.rules
(* The tunnel with other parameters.                                         *)
LEMMA WithArgsFields ==
  ASSUME NEW s, IsState(s), NEW a
  PROVE  /\ OnlyArgs(s, WithArgs(s, a)) /\ WithArgs(s, a).net = s.net
         /\ WithArgs(s, a).n.args = a
BY DEF WithArgs, OnlyArgs, IsState, NodeFields
(* The default route is set.                                                 *)
LEMMA MovedFields ==
  ASSUME NEW s, IsState(s), NEW g
  PROVE  Beside(s, Moved(s, g)) /\ Moved(s, g).n.script = g
BY DEF Moved, Beside, IsState, NodeFields
(* It leads to the gateway.                                                  *)
LEMMA MovedRoute ==
  ASSUME NEW s, IsState(s), NEW g
  PROVE  Moved(s, g).n.route = TRUE
BY DEF Moved, IsState, NodeFields
(* The default route is removed.                                             *)
LEMMA FallenFields ==
  ASSUME NEW s, IsState(s)
  PROVE  Beside(s, Fallen(s)) /\ Fallen(s).n.script = "del"
BY DEF Fallen, Beside, IsState, NodeFields
(* Nothing is left of it.                                                    *)
LEMMA FallenRoute ==
  ASSUME NEW s, IsState(s)
  PROVE  Fallen(s).n.route = FALSE
BY DEF Fallen, IsState, NodeFields

(* gwc_handle_tun_ip_reply.                                                  *)
LEMMA ReplySound ==
  ASSUME NEW s, NEW r, Sound(s, r), s.n.args # None, NEW m \in Messages, IsGrant(m),
         m.t = "reply", m.from = s.n.args.gw,
         NEW assigned, NEW t, t = Reply(s, m, assigned)
  PROVE  /\ Sound(t, r) /\ OnlyAsks(s.net, t.net) /\ t.n.curr \in {None, s.n.curr}
         /\ CountsOn(s.n.args, t.n.args) \/ TakesLease(t.n.args, m)
<1> DEFINE a == s.n.args
           other == a.addr = NoAddr \/ a.addr # m.addr
           moved == Moved(s, a.gw)
           down == IF a.addr # NoAddr THEN Fallen(s) ELSE s
           base == IF other THEN moved ELSE s
           b == GrantArgs(a, m)
           w == WithArgs(base, b)
<1>1. IsState(s) /\ a \in Args /\ a.gw \in Gateways
  BY DEF Sound, Exclusive, Args
<1>2. t = IF m.lt < MinLease THEN Leave(Blame(s, a.gw))
          ELSE IF other /\ ~assigned THEN Leave(Blame(down, a.gw))
          ELSE w
  BY DEF Reply, Moved, Fallen, WithArgs, GrantArgs
<1>3. CASE t = Leave(Blame(s, a.gw))
  <2>1. Sound(t, r) /\ t.n.curr = None /\ t.n.args = None /\ Quiet(s, t)
    BY <1>3, SoundTorn, FailSound
  <2> QED
    BY <2>1 DEF Quiet
<1>4. CASE t = Leave(Blame(down, a.gw))
  <2>1. Beside(s, down) /\ (a.addr = NoAddr => down = s)
        /\ (a.addr # NoAddr => down.n.script = "del" /\ ~down.n.serving)
    <3>1. Beside(s, Fallen(s)) /\ Fallen(s).n.script = "del"
      BY <1>1, FallenFields
    <3>2. Beside(s, s)
      BY <1>1 DEF Beside
    <3> QED
      BY <3>1, <3>2 DEF Beside, Sound, Exclusive
  <2> HIDE DEF down
  <2>2. Listed(down.n)
    BY <2>1 DEF Sound, Listed, Beside
  <2>3. Exclusive(down.n)
    BY <2>1 DEF Sound, Exclusive, Beside
  <2>4. Removable(down.n)
    BY <2>1 DEF Sound, Routed, Unrouted, Removable, Beside
  <2>5. Torn(down)
    BY <2>1, <2>2, <2>3, <2>4 DEF Torn, Beside
  <2>6. Sound(t, r) /\ t.n.curr = None /\ t.n.args = None /\ Quiet(down, t)
    BY <1>4, <2>5, FailSound
  <2> QED
    BY <2>1, <2>6 DEF Quiet, OnlyAsks, CountsOn, Beside
<1>5. CASE t = w /\ ~(m.lt < MinLease)
  <2>1. m.addr \in Addrs /\ m.lt \in Nat /\ m.fresh \in BOOLEAN
    <3>1. m.lt \in Nat /\ m.fresh \in BOOLEAN
      BY DEF Messages
    <3>2. m.lt # 0
      <4>1. MinLease \in Nat \ {0}
        BY TunnelClientAssumption
      <4> QED
        BY <1>5, <3>1, <4>1
    <3> QED
      BY <3>1, <3>2 DEF IsGrant
  <2>2. b \in Args /\ b.gw = a.gw /\ b.ad = a.ad /\ b.addr = m.addr /\ b.type = a.type
        /\ b.dur = m.lt /\ b.leased = 0 /\ b.fresh = m.fresh
    BY <1>1, <2>1 DEF GrantArgs, Args
  <2>3. b # None
    BY <2>2, TunnelClientAssumption
  <2> HIDE DEF b
  <2>4. Beside(s, base) /\ base.n.script = a.gw
    <3>1. Beside(s, moved) /\ moved.n.script = a.gw
      BY <1>1, MovedFields
    <3>2. ~other => s.n.script = a.gw
      BY DEF Sound, Routed, Current
    <3>3. Beside(s, s)
      BY <1>1 DEF Beside
    <3> HIDE DEF moved, other
    <3> QED
      BY <3>1, <3>2, <3>3
  <2>5. base.n.route = TRUE
    <3>1. moved.n.route = TRUE
      BY <1>1, MovedRoute
    <3>2. ~other => s.n.route = TRUE
      BY DEF Sound, Routed
    <3> HIDE DEF moved, other
    <3> QED
      BY <3>1, <3>2
  <2> HIDE DEF base
  <2>6. OnlyArgs(base, w) /\ w.net = base.net /\ w.n.args = b
    <3>1. IsState(base)
      BY <2>4 DEF Beside
    <3> QED
      BY <3>1, WithArgsFields
  <2> HIDE DEF w
  <2>7. Listed(w.n)
    BY <2>4, <2>6 DEF Sound, Listed, Beside, OnlyArgs
  <2>8. Known(w.n, r) /\ Current(w.n)
    BY <2>2, <2>4, <2>6 DEF Sound, Known, Current, Beside, OnlyArgs
  <2>9. Exclusive(w.n)
    BY <1>1, <2>2, <2>3, <2>4, <2>6, Names DEF Sound, Exclusive, Beside, OnlyArgs
  <2>10. Routed(w.n)
    BY <2>1, <2>2, <2>3, <2>4, <2>5, <2>6, AddrsFacts DEF Sound, Routed, Current, Beside, OnlyArgs
  <2>11. Sound(w, r) /\ w.net = s.net /\ w.n.curr = s.n.curr
    BY <2>4, <2>6, <2>7, <2>8, <2>9, <2>10 DEF Sound, Beside, OnlyArgs
  <2>12. TakesLease(b, m)
    BY <2>2, <2>3 DEF TakesLease
  <2> QED
    BY <1>5, <2>6, <2>11, <2>12 DEF OnlyAsks
<1> HIDE DEF w, down, other
<1> QED
  BY <1>2, <1>3, <1>4, <1>5

(* gwc_recv_udp.                                                            *)
LEMMA ReceivedSound ==
  ASSUME NEW s, NEW r, Sound(s, r), NEW m \in Messages, IsGrant(m),
         m.t \in {"reply", "invalid", "data"},
         NEW assigned, NEW t, t = Received(s, m, assigned)
  PROVE  /\ Sound(t, r) /\ OnlyAsks(s.net, t.net) /\ t.n.curr \in {None, s.n.curr}
         /\ CountsOn(s.n.args, t.n.args) \/ TakesLease(t.n.args, m)
<1> DEFINE a == s.n.args
           q == Request(s)
           i == Invalid(q)
           v == Verified(s, a.gw)
<1>1. CASE t = s
  BY <1>1 DEF OnlyAsks, CountsOn
<1>2. CASE a # None /\ m.t = "reply" /\ m.from = a.gw /\ t = Reply(s, m, assigned)
  BY <1>2, ReplySound
<1>3. CASE a # None /\ t = i
  <2>1. Sound(q, r) /\ Quiet(s, q) /\ q.n.args # None /\ q.n.curr = s.n.curr
    BY <1>3, RequestSound
  <2> HIDE DEF q
  <2> DEFINE c == q.n.args
             b == InvalidArgs(c)
  <2>2. c \in Args /\ IsState(q)
    BY <2>1 DEF Sound, Exclusive
  <2>3. b \in Args /\ b.gw = c.gw /\ b.ad = c.ad /\ b.addr = c.addr /\ b.dur = 0
    BY <2>2 DEF Args, InvalidArgs
  <2>4. OnlyArgs(q, i) /\ i.net = q.net /\ i.n.args = b
    BY <2>2, InvalidFields
  <2> HIDE DEF b, i
  <2>5. Sound(i, r)
    BY <2>1, <2>3, <2>4, OtherArgs
  <2> QED
    BY <1>3, <2>1, <2>3, <2>4, <2>5 DEF Quiet, OnlyAsks, CountsOn, OnlyArgs
<1>4. CASE a # None /\ t = v
  <2> DEFINE b == DoubtedArgs(a, "verified", 0)
  <2>1. a \in Args /\ IsState(s)
    BY <1>4 DEF Sound, Exclusive
  <2>2. b \in Args /\ b.gw = a.gw /\ b.ad = a.ad /\ b.addr = a.addr /\ b.type = a.type
        /\ b.dur = a.dur /\ b.leased = a.leased /\ b.fresh = a.fresh
    BY <2>1 DEF Args, DoubtedArgs
  <2>3. OnlyArgs(s, v) /\ v.net = s.net /\ v.n.args = b
    BY <2>1, VerifiedFields
  <2> HIDE DEF b, v
  <2>4. Sound(v, r)
    BY <1>4, <2>2, <2>3, OtherArgs
  <2> QED
    BY <1>4, <2>2, <2>3, <2>4 DEF OnlyAsks, CountsOn, OnlyArgs
<1>5. \/ t = s
      \/ a # None /\ m.t = "reply" /\ m.from = a.gw /\ t = Reply(s, m, assigned)
      \/ a # None /\ t = i
      \/ a # None /\ t = v
  BY DEF Received, Invalid, Verified
<1> QED
  BY <1>1, <1>2, <1>3, <1>4, <1>5

-----------------------------------------------------------------------------
(* Time, and a gateway's restart, as the client's state shows them.          *)

(* An age grows up to its bound.                                             *)
LEMMA OlderNat ==
  ASSUME NEW x \in Nat, NEW d \in Nat, NEW cap \in Nat
  PROVE  /\ Older(x, d, cap) = IF x + d <= cap THEN x + d ELSE cap
         /\ Older(x, d, cap) \in Nat
<1>1. Min({x + d, cap}) = IF x + d <= cap THEN x + d ELSE cap
  BY MinOfTwo
<1> QED
  BY <1>1 DEF Older, Off

(* The larger of two numbers.                                                *)
LEMMA MaxOfTwo ==
  ASSUME NEW x \in Int, NEW y \in Int
  PROVE  Max({x, y}) = IF x >= y THEN x ELSE y
<1>1. \E z \in {x, y} : \A w \in {x, y} : z >= w
  OBVIOUS
<1>2. Max({x, y}) \in {x, y} /\ \A w \in {x, y} : Max({x, y}) >= w
  BY <1>1 DEF Max
<1> QED
  BY <1>2

(* An older tunnel counts on no more.                                       *)
LEMMA OlderArgsFields ==
  ASSUME scene \in Scenes, NEW a \in Args, NEW d \in Nat, NEW b, b = OlderArgs(a, d)
  PROVE  /\ b \in Args /\ b.gw = a.gw /\ b.ad = a.ad /\ b.addr = a.addr /\ b.type = a.type
         /\ b.dur = a.dur
<1> DEFINE x == Older(a.asked, d, 1)
           y == Older(a.leased, d, MaxAge[scene])
           z == Older(a.since, d, Max({UnknownTimeout, VerifiedTimeout}) + 1)
<1>1. MaxAge[scene] \in Nat
  BY TunnelAssumption
<1>2. a.asked \in Nat /\ a.leased \in Nat /\ a.since \in Nat \cup {Off}
  BY DEF Args
<1>3. x \in Nat /\ y \in Nat
  BY <1>1, <1>2, OlderNat
<1>4. Max({UnknownTimeout, VerifiedTimeout}) + 1 \in Nat
  <2>1. UnknownTimeout \in Nat /\ VerifiedTimeout \in Nat
    BY TunnelClientAssumption
  <2> QED
    BY <2>1, MaxOfTwo
<1>5. z \in Nat \cup {Off}
  <2>1. CASE a.since = Off
    BY <2>1 DEF Older
  <2>2. CASE a.since \in Nat
    BY <1>4, <2>2, OlderNat
  <2> QED
    BY <1>2, <2>1, <2>2
<1>6. b = [a EXCEPT !.asked = x, !.leased = y, !.since = z]
  BY DEF OlderArgs, Args
<1> HIDE DEF x, y, z
<1>7. /\ b \in Args /\ b.gw = a.gw /\ b.ad = a.ad /\ b.addr = a.addr /\ b.type = a.type
      /\ b.dur = a.dur
  BY <1>3, <1>5, <1>6 DEF Args
<1> QED
  BY <1>7

(* Time does not tell of a restart.                                          *)
LEMMA OlderArgsFresh ==
  ASSUME NEW a \in Args, NEW d
  PROVE  OlderArgs(a, d).fresh = a.fresh
BY DEF OlderArgs, Args
(* The age of the lease.                                                     *)
LEMMA OlderArgsLeased ==
  ASSUME NEW a \in Args, NEW d
  PROVE  OlderArgs(a, d).leased = Older(a.leased, d, MaxAge[scene])
BY DEF OlderArgs, Args

-----------------------------------------------------------------------------
(* The choice among the gateways.                                           *)

(* A non-empty set of positions has a last.                                 *)
LEMMA LastExists ==
  ASSUME NEW n \in Nat, NEW I \in SUBSET (1..n), I # {}
  PROVE  Max(I) \in I /\ \A i \in I : i <= Max(I)
<1> DEFINE D == {n - i : i \in I}
<1>1. D \in SUBSET Nat /\ D # {}
  <2>1. \A i \in I : n - i \in Nat
    OBVIOUS
  <2> QED
    BY <2>1
<1>2. PICK d \in D : \A e \in D : d <= e
  BY <1>1, LeastExists
<1>3. PICK i \in I : d = n - i
  BY <1>2
<1>4. \A j \in I : n - i <= n - j
  BY <1>2, <1>3
<1>5. \A j \in I : i >= j
  <2> SUFFICES ASSUME NEW j \in I PROVE i >= j
    OBVIOUS
  <2>1. i \in Int /\ j \in Int /\ n - i <= n - j
    BY <1>4
  <2> QED
    BY <2>1
<1>6. Max(I) \in I /\ \A j \in I : Max(I) >= j
  BY <1>5 DEF Max
<1> QED
  BY <1>6

(* Who is chosen was taken last.                                            *)
LEMMA PickIs ==
  ASSUME NEW n, Listed(n), Pick(n) # None
  PROVE  /\ Pick(n) \in Gateways /\ Eligible(n, Pick(n))
         /\ Max(Taken(n)) \in Taken(n) /\ \A i \in Taken(n) : i <= Max(Taken(n))
         /\ Pick(n) = n.list[Max(Taken(n))]
<1> DEFINE I == Taken(n)
<1>1. n.list \in Seq(Gateways)
  BY DEF Listed
<1>2. DOMAIN n.list = 1..Len(n.list) /\ Len(n.list) \in Nat
  BY <1>1
<1>3. I \in SUBSET (1..Len(n.list))
  BY <1>2 DEF Taken
<1>4. I # {} /\ Pick(n) = n.list[Max(I)]
  BY DEF Pick
<1>5. Max(I) \in I /\ \A i \in I : i <= Max(I)
  BY <1>2, <1>3, <1>4, LastExists
<1>6. Max(I) \in DOMAIN n.list /\ Takes(n, Max(I))
  BY <1>5 DEF Taken
<1>7. n.list[Max(I)] \in Gateways
  BY <1>1, <1>6
<1>8. Eligible(n, n.list[Max(I)])
  BY <1>6 DEF Takes
<1> QED
  BY <1>4, <1>5, <1>7, <1>8

-----------------------------------------------------------------------------
(* The inductive invariant.                                                 *)

RoutersOK == router \in [Gateways -> Nat \cup {NoRoute}]
TablesOK == served \in [Gateways -> LeaseTables] /\ \A g \in Gateways : OneEach(served[g])

(* Requests and data go to gateways, everything else comes from them.        *)
Fine(m) ==
    /\ m \in Messages /\ IsGrant(m) /\ m.age <= MaxDelay
    /\ m.to \in Gateways => m.from = Me /\ m.t \in {"request", "data"}
    /\ m.to = Me => m.from \in Gateways /\ m.t \in {"reply", "invalid", "data"}
NetOK == \A m \in net : Fine(m)

(* A message is delayed by less than a tenth of a lease, and the bound on    *)
(* ages does not hide the end of one.                                        *)
Timely ==
    /\ 10 * MaxDelay < LeaseTime["leases"]
    /\ LeaseTime["leases"] <= MaxAge["leases"]

(* Of what a gateway granted since it runs it holds what is under way to the *)
(* client, and what the client still counts on: the entry is no older than   *)
(* the answer, or than the client thinks plus what the answer took.          *)
Granting(m) == m.t = "reply" /\ m.to = Me /\ m.fresh /\ m.lt > 0
Counting(a) == a # None /\ a.fresh /\ a.dur > 0
AnswersHeld ==
    \A m \in net : Granting(m) => Holds(served[m.from], m.addr, Me, m.age)
TunnelHeld ==
    Counting(node.args) =>
        /\ node.args.dur = LeaseTime[scene]
        /\ 10 * node.args.leased <= 9 * node.args.dur =>
               Holds(served[node.args.gw], node.args.addr, Me, node.args.leased + MaxDelay)
LeasesOK == Timely /\ scene = "leases" => AnswersHeld /\ TunnelHeld

TunnelInv ==
    /\ scene \in Scenes
    /\ RoutersOK /\ TablesOK /\ NetOK
    /\ Sound(State, router)
    /\ LeasesOK

(* Sound looks at the client only.                                          *)
LEMMA SoundNode ==
  ASSUME NEW s, NEW r, Sound(s, r), NEW t, DOMAIN t = {"n", "net"}, t.n = s.n
  PROVE  Sound(t, r)
BY DEF Sound, IsState

(* What a client sends.                                                      *)
LEMMA AskingFine ==
  ASSUME NEW m, Asking(m)
  PROVE  Fine(m) /\ ~Granting(m)
<1>1. m.to # Me /\ MaxDelay \in Nat
  BY Names, TunnelAssumption DEF Asking
<1> QED
  BY <1>1 DEF Asking, Fine, IsGrant, Granting

(* A step of the client keeps the invariant.                                *)
LEMMA ClientStep ==
  ASSUME TunnelInv, Here, RoutersOK', NEW s, node' = s.n, net' = s.net, Sound(s, router'),
         OnlyAsks(net, s.net),
         \/ scene = "choice"
         \/ CountsOn(node.args, s.n.args)
         \/ \E m \in net : m.to = Me /\ TakesLease(s.n.args, m)
  PROVE  TunnelInv'
<1>1. scene' = scene /\ served' = served
  BY DEF Here
<1>2. Sound(State', router')
  <2>1. DOMAIN State' = {"n", "net"} /\ State'.n = s.n
    BY DEF State
  <2> DEFINE u == State'
             q == router'
  <2> HIDE DEF u, q
  <2>2. Sound(s, q) /\ DOMAIN u = {"n", "net"} /\ u.n = s.n
    BY <2>1 DEF u, q
  <2>3. Sound(u, q)
    BY <2>2, SoundNode
  <2> QED
    BY <2>3 DEF u, q
<1>3. \A m \in net' : m \in net \/ Asking(m)
  BY DEF OnlyAsks
<1>4. NetOK'
  <2> SUFFICES ASSUME NEW m \in net' PROVE Fine(m)'
    BY DEF NetOK
  <2>1. Fine(m)
    BY <1>3, AskingFine DEF TunnelInv, NetOK
  <2> QED
    BY <1>1, <2>1 DEF Fine, IsGrant
<1>5. LeasesOK'
  <2> SUFFICES ASSUME Timely, scene = "leases" PROVE AnswersHeld' /\ TunnelHeld'
    BY <1>1 DEF LeasesOK, Timely
  <2>1. AnswersHeld /\ TunnelHeld
    BY DEF TunnelInv, LeasesOK
  <2>2. AnswersHeld'
    BY <1>1, <1>3, <2>1, AskingFine DEF AnswersHeld
  <2>3. CASE CountsOn(node.args, s.n.args)
    <3> DEFINE a == node.args
               b == s.n.args
    <3>1. node'.args = b
      OBVIOUS
    <3> HIDE DEF b
    <3>2. CountsOn(a, b)
      BY <2>3 DEF b
    <3>3. \/ ~Counting(b)
          \/ /\ Counting(a) /\ b.gw = a.gw /\ b.addr = a.addr
             /\ b.dur = a.dur /\ b.leased = a.leased
      BY <3>2 DEF CountsOn, Counting
    <3>4. TunnelHeld'
      BY <1>1, <2>1, <3>1, <3>3 DEF TunnelHeld
    <3> QED
      BY <2>2, <3>4
  <2>4. CASE \E m \in net : m.to = Me /\ TakesLease(s.n.args, m)
    <3>1. PICK m \in net : m.to = Me /\ TakesLease(s.n.args, m)
      BY <2>4
    <3> DEFINE b == s.n.args
    <3>2. /\ b # None /\ b.gw = m.from /\ b.addr = m.addr /\ b.dur = m.lt /\ b.leased = 0
          /\ b.fresh = m.fresh /\ m.t = "reply"
      BY <3>1 DEF TakesLease
    <3>3. Fine(m)
      BY DEF TunnelInv, NetOK
    <3> HIDE DEF b
    <3>4. ASSUME Counting(b)
          PROVE  /\ b.dur = LeaseTime[scene]
                 /\ Holds(served[b.gw], b.addr, Me, b.leased + MaxDelay)
      <4>1. Granting(m)
        BY <3>1, <3>2, <3>4 DEF Granting, Counting
      <4>2. Holds(served[m.from], m.addr, Me, m.age)
        BY <2>1, <4>1 DEF AnswersHeld
      <4>3. m.lt = LeaseTime[scene] /\ m.addr \in Addrs
        BY <3>2, <3>3, <4>1 DEF Fine, IsGrant, Granting
      <4>4. m.age \in Nat /\ m.age <= MaxDelay /\ m.from \in Gateways /\ MaxDelay \in Nat
        BY <3>1, <3>3, TunnelAssumption DEF Fine, Messages
      <4>5. served[m.from] \in LeaseTables
        BY <4>4 DEF TunnelInv, TablesOK
      <4>6. served[m.from][m.addr].age \in Nat
        BY <4>2, <4>3, <4>5 DEF Holds, HeldBy, LeaseTables
      <4>7. Holds(served[m.from], m.addr, Me, 0 + MaxDelay)
        BY <4>2, <4>4, <4>6 DEF Holds
      <4> QED
        BY <3>2, <4>3, <4>7
    <3>5. node'.args = b
      BY DEF b
    <3> QED
      BY <1>1, <2>2, <3>4, <3>5 DEF TunnelHeld
  <2>5. scene # "choice"
    OBVIOUS
  <2> QED
    BY <2>2, <2>3, <2>4, <2>5
<1> QED
  BY <1>1, <1>2, <1>4, <1>5 DEF TunnelInv, TablesOK

(* The state as the functions take it.                                       *)
LEMMA StateFields == State.n = node /\ State.net = net /\ DOMAIN State = {"n", "net"}
BY DEF State

(* A step that quietly turns the state of before into another sound one.     *)
LEMMA QuietStep ==
  ASSUME TunnelInv, Here, UNCHANGED router, NEW s, node' = s.n, net' = s.net,
         Sound(s, router), Quiet(State, s)
  PROVE  TunnelInv'
<1>1. RoutersOK' /\ router' = router
  BY DEF TunnelInv, RoutersOK
<1>2. OnlyAsks(net, s.net) /\ CountsOn(node.args, s.n.args)
  BY StateFields DEF Quiet
<1> QED
  BY <1>1, <1>2, ClientStep

(* cb_choose_gw.                                                             *)
LEMMA ChooseStep ==
  ASSUME TunnelInv, Here, NEW step, Choose(step)
  PROVE  TunnelInv' /\ node'.curr \in {None, Pick(node)}
<1> DEFINE g == Pick(node)
           factor == [h \in Gateways |-> Min({node.factor[h], MaxFactor})]
           u == [State EXCEPT !.n.factor = factor, !.n.curr = g]
           c == Cleanup(u)
           s == ConfChanged(c, FALSE, step)
<1>1. /\ node.curr = None /\ g # None /\ UNCHANGED router
      /\ node' = s.n /\ net' = s.net
  BY StateFields DEF Choose
<1>2. Sound(State, router) /\ scene \in Scenes /\ Listed(node)
  BY StateFields DEF TunnelInv, Sound
<1>3. g \in Gateways /\ node.tuno[g] # None /\ router[g] # NoRoute
  BY <1>1, <1>2, PickIs DEF Eligible
<1> HIDE DEF g, factor
<1>4. /\ IsState(u) /\ u.net = net /\ u.n.args = node.args /\ u.n.curr = g
      /\ u.n.list = node.list /\ u.n.tuno = node.tuno
      /\ u.n.serving = node.serving /\ u.n.announced = node.announced
      /\ u.n.rules = node.rules /\ u.n.route = node.route /\ u.n.script = node.script
  <2>1. IsState(State)
    BY <1>2 DEF Sound
  <2> QED
    BY <2>1, StateFields DEF IsState, NodeFields
<1> HIDE DEF u
<1>5. node.args = None
  BY <1>1, <1>2, StateFields DEF Sound, Current
<1>6. Sound(u, router)
  <2>1. Listed(u.n)
    BY <1>2, <1>4 DEF Listed
  <2>2. Exclusive(u.n)
    BY <1>2, <1>4, StateFields DEF Sound, Exclusive
  <2>3. Known(u.n, router) /\ Current(u.n)
    BY <1>3, <1>4, <1>5 DEF Known, Current
  <2>4. Routed(u.n)
    BY <1>2, <1>4, <1>5, StateFields DEF Sound, Routed, Unrouted
  <2> QED
    BY <1>4, <2>1, <2>2, <2>3, <2>4 DEF Sound
<1>7. Sound(c, router) /\ c.n.args = None /\ Quiet(u, c) /\ c.n.curr = u.n.curr
  BY <1>6, CleanupSound
<1> HIDE DEF c
<1>8. Sound(s, router) /\ Quiet(c, s) /\ s.n.curr \in {None, c.n.curr}
  BY <1>2, <1>7, ConfChangedSound
<1> HIDE DEF s
<1>9. Quiet(State, s)
  <2>1. Quiet(u, s)
    BY <1>7, <1>8, QuietTransitive
  <2> QED
    BY <1>4, <2>1, StateFields DEF Quiet
<1>10. node'.curr \in {None, Pick(node)}
  BY <1>1, <1>4, <1>7, <1>8 DEF g
<1> QED
  BY <1>1, <1>8, <1>9, <1>10, QuietStep

(* gwc_recv_udp.                                                             *)
LEMMA RecvUdpStep ==
  ASSUME TunnelInv, Here, NEW m, NEW assigned, RecvUdp(m, assigned),
         m \in Messages, IsGrant(m), m.t \in {"reply", "invalid", "data"},
         m \in net \/ scene = "choice"
  PROVE  TunnelInv'
<1> DEFINE u == [State EXCEPT !.net = @ \ {m}]
           s == Received(u, m, assigned)
<1>1. node' = s.n /\ net' = s.net /\ UNCHANGED router /\ m.to = Me
  BY DEF RecvUdp
<1>2. Sound(State, router)
  BY DEF TunnelInv
<1>3. u.n = node /\ u.net = net \ {m} /\ DOMAIN u = {"n", "net"}
  BY StateFields
<1> HIDE DEF u
<1>4. Sound(u, router)
  BY <1>2, <1>3, StateFields, SoundNode
<1>5. /\ Sound(s, router) /\ OnlyAsks(u.net, s.net)
      /\ CountsOn(u.n.args, s.n.args) \/ TakesLease(s.n.args, m)
  BY <1>4, ReceivedSound
<1> HIDE DEF s
<1>6. OnlyAsks(net, s.net)
  BY <1>3, <1>5 DEF OnlyAsks
<1>7. \/ scene = "choice"
      \/ CountsOn(node.args, s.n.args)
      \/ \E x \in net : x.to = Me /\ TakesLease(s.n.args, x)
  BY <1>1, <1>3, <1>5
<1>8. RoutersOK' /\ router' = router
  BY <1>1 DEF TunnelInv, RoutersOK
<1> QED
  BY <1>1, <1>5, <1>6, <1>7, <1>8, ClientStep

(* A message and its fields.                                                 *)
LEMMA MsgIn ==
  ASSUME NEW t \in {"request", "reply", "invalid", "data"}, NEW from \in Clients \cup Gateways,
         NEW to \in Clients \cup Gateways, NEW a \in Addrs \cup {NoAddr, OwnAddr}, NEW lt \in Nat,
         NEW m, m = Msg(t, from, to, a, lt)
  PROVE  /\ m \in Messages /\ m.t = t /\ m.from = from /\ m.to = to /\ m.addr = a /\ m.lt = lt
         /\ m.age = 0
BY DEF Msg, Messages

(* A message of a gateway that grants nothing.                              *)
LEMMA NoticeIn ==
  ASSUME NEW t \in {"invalid", "data"}, NEW g \in Gateways, NEW a \in Addrs \cup {NoAddr},
         NEW m, m = Msg(t, g, Me, a, 0)
  PROVE  Fine(m) /\ ~Granting(m)
<1>1. Me \in Clients /\ MaxDelay \in Nat
  BY TunnelClientAssumption, TunnelAssumption
<1>2. m \in Messages /\ m.t = t /\ m.from = g /\ m.to = Me /\ m.age = 0
  BY <1>1 DEF Msg, Messages
<1>3. m.age <= MaxDelay
  BY <1>1, <1>2
<1>4. m.to \notin Gateways /\ m.from \in Gateways
  BY <1>2, Names
<1>5. IsGrant(m) /\ ~Granting(m)
  BY <1>2 DEF IsGrant, Granting
<1> QED
  BY <1>2, <1>3, <1>4, <1>5 DEF Fine

(* What the current gateway may send.                                        *)
LEMMA AnythingFine ==
  ASSUME TunnelInv, NEW m \in Anything
  PROVE  m \in Messages /\ IsGrant(m) /\ m.t \in {"reply", "invalid", "data"}
<1>1. node.args # None /\ node.args.gw \in Gateways
  BY StateFields DEF TunnelInv, Sound, Exclusive, Args, Anything
<1>2. LeaseTime[scene] \in Nat /\ Me \in Clients
  BY TunnelAssumption, TunnelClientAssumption DEF TunnelInv
<1> DEFINE g == node.args.gw
<1>3. PICK t \in {"reply", "invalid", "data"}, a \in Addrs \cup {NoAddr}, lt \in Nat :
         /\ m = Msg(t, g, Me, a, lt)
         /\ t = "reply" => (a = NoAddr /\ lt = 0) \/ (a \in Addrs /\ lt = LeaseTime[scene])
  <2>1. \/ \E a \in Addrs : m = Msg("reply", g, Me, a, LeaseTime[scene])
        \/ \E t \in {"reply", "invalid", "data"} : m = Msg(t, g, Me, NoAddr, 0)
    BY DEF Anything
  <2> QED
    BY <1>2, <2>1
<1>4. m \in Messages /\ m.t = t /\ m.addr = a /\ m.lt = lt
  BY <1>1, <1>2, <1>3, MsgIn
<1> QED
  BY <1>3, <1>4 DEF IsGrant

(* The rest of the daemon and its user.                                      *)
LEMMA ChangesStep ==
  ASSUME TunnelInv, Here, Changes
  PROVE  TunnelInv'
<1>1. scene = "choice" /\ Sound(State, router) /\ RoutersOK /\ scene \in Scenes
  BY DEF Changes, TunnelInv
<1>2. CASE \E g \in Gateways : \E ad \in AdsOf[g], wa \in MetricsOf[g] :
             (wa = NoRoute => router[g] = NoRoute) /\ RecvOgm(g, ad, wa)
  <2>1. PICK g \in Gateways : \E ad \in AdsOf[g], wa \in MetricsOf[g] :
             (wa = NoRoute => router[g] = NoRoute) /\ RecvOgm(g, ad, wa)
    BY <1>2
  <2>2. PICK ad \in AdsOf[g], wa \in MetricsOf[g] :
             (wa = NoRoute => router[g] = NoRoute) /\ RecvOgm(g, ad, wa)
    BY <2>1
  <2> DEFINE now == [router EXCEPT ![g] = wa]
  <2>3. PICK tuno : node' = OgmHook(State, g, ad, tuno, now).n
                    /\ net' = OgmHook(State, g, ad, tuno, now).net /\ router' = now
    BY <2>2 DEF RecvOgm
  <2> DEFINE s == OgmHook(State, g, ad, tuno, now)
  <2>4. ad \in Ads \cup {None} /\ wa \in Nat \cup {NoRoute}
    BY TunnelAssumption
  <2>5. now \in [Gateways -> Nat \cup {NoRoute}] /\ \A x \in Gateways : now[x] = IF x = g THEN wa ELSE router[x]
    BY <1>1, <2>4 DEF RoutersOK
  <2> HIDE DEF now
  <2>6. Sound(State, now)
    <3>1. node.curr # None => node.curr \in Gateways /\ router[node.curr] # NoRoute
      BY <1>1, StateFields DEF Sound, Known
    <3>2. State.n.curr # None => now[State.n.curr] # NoRoute
      BY <2>2, <2>5, <3>1, StateFields
    <3> QED
      BY <1>1, <3>2, OtherRouter
  <2>7. Sound(s, now) /\ Quiet(State, s)
    BY <2>4, <2>6, OgmHookSound
  <2> HIDE DEF s
  <2>8. RoutersOK'
    BY <2>3, <2>5 DEF RoutersOK
  <2>9. node' = s.n /\ net' = s.net /\ router' = now
    BY <2>3 DEF s
  <2> QED
    BY <1>1, <2>7, <2>8, <2>9, StateFields, ClientStep DEF Quiet
<1>3. CASE \E g \in Gateways : FlushOrig(g)
  <2>1. PICK g \in Gateways : FlushOrig(g)
    BY <1>3
  <2> DEFINE s == Flush(State, g)
             q == [router EXCEPT ![g] = NoRoute]
  <2>2. node' = s.n /\ net' = s.net /\ router' = q
    BY <2>1 DEF FlushOrig
  <2>3. q \in [Gateways -> Nat \cup {NoRoute}] /\ \A x \in Gateways \ {g} : q[x] = router[x]
    BY <1>1 DEF RoutersOK
  <2> HIDE DEF q
  <2>4. Sound(s, q) /\ Quiet(State, s)
    BY <1>1, <2>3, FlushSound
  <2> HIDE DEF s
  <2>5. RoutersOK'
    BY <2>2, <2>3 DEF RoutersOK
  <2> QED
    BY <1>1, <2>2, <2>4, <2>5, StateFields, ClientStep DEF Quiet
<1>4. CASE \E changed \in BOOLEAN, step \in Steps : ConfHook(changed, step)
  <2>1. PICK changed \in BOOLEAN, step \in Steps : ConfHook(changed, step)
    BY <1>4
  <2> DEFINE s == ConfChanged(State, changed, step)
  <2>2. node' = s.n /\ net' = s.net /\ UNCHANGED router
    BY <2>1 DEF ConfHook
  <2>3. Sound(s, router) /\ Quiet(State, s)
    BY <1>1, ConfChangedSound
  <2> HIDE DEF s
  <2> QED
    BY <2>2, <2>3, QuietStep
<1>5. CASE \E rt \in {0, 3}, gwc \in 0..1, step \in Steps : SetClass(rt, gwc, step)
  <2>1. PICK rt, gwc, step : SetClass(rt, gwc, step)
    BY <1>5
  <2> DEFINE u == [State EXCEPT !.n.rt = rt, !.n.gwc = gwc]
             s == ConfChanged(u, FALSE, step)
  <2>2. node' = s.n /\ net' = s.net /\ UNCHANGED router
    BY <2>1 DEF SetClass
  <2>3. Alike(State, u) /\ u.net = net
    <3>1. IsState(State)
      BY <1>1 DEF Sound
    <3> QED
      BY <3>1, StateFields DEF Alike, IsState, NodeFields
  <2> HIDE DEF u
  <2>4. Sound(u, router)
    BY <1>1, <2>3, AlikeSound
  <2>5. Sound(s, router) /\ Quiet(u, s)
    BY <1>1, <2>4, ConfChangedSound
  <2> HIDE DEF s
  <2>6. Quiet(State, s)
    BY <2>3, <2>5, StateFields DEF Quiet, Alike
  <2> QED
    BY <2>2, <2>5, <2>6, QuietStep
<1> QED
  BY <1>2, <1>3, <1>4, <1>5 DEF Changes

(* Every step of the client.                                                 *)
LEMMA ClientKeeps ==
  ASSUME TunnelInv, Client
  PROVE  TunnelInv'
<1>1. Here
  BY DEF Client
<1>2. CASE \E step \in Steps : Choose(step)
  BY <1>1, <1>2, ChooseStep
<1>3. CASE Maintain
  <2> DEFINE s == Maintained(State)
  <2>1. node' = s.n /\ net' = s.net /\ UNCHANGED router /\ node.args # None
    BY <1>3 DEF Maintain, TwoWayUp
  <2>2. Sound(s, router) /\ Quiet(State, s)
    BY <2>1, StateFields, MaintainedSound DEF TunnelInv
  <2> HIDE DEF s
  <2> QED
    BY <1>1, <2>1, <2>2, QuietStep
<1>4. CASE HostPacket
  <2>1. PICK src, sends : RecvTun(src, sends)
    BY <1>4 DEF HostPacket
  <2> DEFINE s == FromTun(State, src, sends)
  <2>2. node' = s.n /\ net' = s.net /\ UNCHANGED router /\ node.args # None
    BY <2>1 DEF RecvTun
  <2>3. Sound(s, router) /\ Quiet(State, s)
    BY <2>2, StateFields, FromTunSound DEF TunnelInv
  <2> HIDE DEF s
  <2> QED
    BY <1>1, <2>2, <2>3, QuietStep
<1>5. CASE \E m \in {x \in net : x.to = Me} : RecvUdp(m, TRUE)
  <2>1. PICK m \in net : m.to = Me /\ RecvUdp(m, TRUE)
    BY <1>5
  <2>2. m \in Messages /\ IsGrant(m) /\ m.t \in {"reply", "invalid", "data"}
    BY <2>1 DEF TunnelInv, NetOK, Fine
  <2> QED
    BY <1>1, <2>1, <2>2, RecvUdpStep
<1>6. CASE scene = "choice" /\ \E m \in Anything, assigned \in BOOLEAN : RecvUdp(m, assigned)
  <2>1. PICK m \in Anything, assigned \in BOOLEAN : RecvUdp(m, assigned)
    BY <1>6
  <2>2. m \in Messages /\ IsGrant(m) /\ m.t \in {"reply", "invalid", "data"}
    BY AnythingFine
  <2> QED
    BY <1>1, <1>6, <2>1, <2>2, RecvUdpStep
<1>7. CASE Changes
  BY <1>1, <1>7, ChangesStep
<1> QED
  BY <1>2, <1>3, <1>4, <1>5, <1>6, <1>7 DEF Client

-----------------------------------------------------------------------------
(* The gateways, the network and the clock.                                 *)

(* Where the client does not move it stays sound.                            *)
LEMMA SameClient ==
  ASSUME TunnelInv, UNCHANGED <<node, router>>
  PROVE  Sound(State', router')
<1>1. State'.n = State.n /\ DOMAIN State' = {"n", "net"}
  BY DEF State
<1> DEFINE u == State'
<1> HIDE DEF u
<1>2. Sound(State, router) /\ u.n = State.n /\ DOMAIN u = {"n", "net"}
  BY <1>1 DEF TunnelInv, u
<1>3. Sound(u, router)
  BY <1>2, SoundNode
<1> QED
  BY <1>3 DEF u

(* What the tables keep of what is younger than a lease time, and what the   *)
(* messages promise, is all the client relies on.                            *)
LEMMA LeasesKept ==
  ASSUME TunnelInv, UNCHANGED <<node, scene>>,
         ASSUME Timely, scene = "leases"
         PROVE  \A g \in Gateways, b \in Addrs, n \in Nat :
                    n < LeaseTime[scene] /\ Holds(served[g], b, Me, n) => Holds(served'[g], b, Me, n),
         \A m \in net' : m \in net \/ ~Granting(m) \/ Holds(served'[m.from], m.addr, Me, m.age)
  PROVE  LeasesOK'
<1> SUFFICES ASSUME Timely, scene = "leases" PROVE AnswersHeld' /\ TunnelHeld'
  BY DEF LeasesOK, Timely
<1>1. AnswersHeld /\ TunnelHeld
  BY DEF TunnelInv, LeasesOK
<1>2. MaxDelay \in Nat /\ LeaseTime[scene] \in Nat /\ 10 * MaxDelay < LeaseTime[scene]
  BY TunnelAssumption DEF Timely, TunnelInv
<1>3. \A g \in Gateways, b \in Addrs, n \in Nat :
          n < LeaseTime[scene] /\ Holds(served[g], b, Me, n) => Holds(served'[g], b, Me, n)
  OBVIOUS
<1>4. ASSUME NEW m \in net', Granting(m)
      PROVE  Holds(served'[m.from], m.addr, Me, m.age)
  <2>1. CASE m \in net
    <3>1. Fine(m) /\ Holds(served[m.from], m.addr, Me, m.age)
      BY <1>1, <1>4, <2>1 DEF TunnelInv, NetOK, AnswersHeld
    <3>2. m.from \in Gateways /\ m.addr \in Addrs /\ m.age \in Nat /\ m.age <= MaxDelay
      BY <1>4, <3>1 DEF Fine, Messages, Granting, Holds, HeldBy
    <3>3. m.age < LeaseTime[scene]
      BY <1>2, <3>2
    <3> QED
      BY <1>3, <3>1, <3>2, <3>3
  <2> QED
    BY <1>4, <2>1
<1>5. ASSUME Counting(node.args), 10 * node.args.leased <= 9 * node.args.dur
      PROVE  Holds(served'[node.args.gw], node.args.addr, Me, node.args.leased + MaxDelay)
  <2> DEFINE a == node.args
  <2>1. a \in Args
    BY <1>5, StateFields DEF TunnelInv, Sound, Exclusive, Counting
  <2>2. a.dur = LeaseTime[scene] /\ Holds(served[a.gw], a.addr, Me, a.leased + MaxDelay)
    BY <1>1, <1>5 DEF TunnelHeld
  <2>3. a.gw \in Gateways /\ a.leased \in Nat /\ a.addr \in Addrs
    BY <2>1, <2>2 DEF Args, Holds, HeldBy
  <2>4. a.leased + MaxDelay \in Nat /\ a.leased + MaxDelay < LeaseTime[scene]
    BY <1>2, <1>5, <2>2, <2>3
  <2> HIDE DEF a
  <2>5. Holds(served'[a.gw], a.addr, Me, a.leased + MaxDelay)
    BY <1>3, <2>2, <2>3, <2>4
  <2> QED
    BY <2>5 DEF a
<1>6. AnswersHeld'
  BY <1>4 DEF AnswersHeld
<1>7. TunnelHeld'
  BY <1>1, <1>5 DEF TunnelHeld
<1> QED
  BY <1>6, <1>7

(* Only the table of gateway g changes, to l.                               *)
LEMMA TableStep ==
  ASSUME TunnelInv, UNCHANGED <<node, router, scene>>, NEW g \in Gateways, NEW l \in LeaseTables, OneEach(l),
         served' = [served EXCEPT ![g] = l],
         \A b \in Addrs, n \in Nat : n < LeaseTime[scene] /\ Holds(served[g], b, Me, n) => Holds(l, b, Me, n),
         \A m \in net' : m \in net \/ (Fine(m) /\ (~Granting(m) \/ (m.from = g /\ Holds(l, m.addr, Me, m.age))))
  PROVE  TunnelInv'
<1>1. served \in [Gateways -> LeaseTables]
  BY DEF TunnelInv, TablesOK
<1>2. served'[g] = l /\ \A x \in Gateways \ {g} : served'[x] = served[x]
  BY <1>1
<1>3. TablesOK'
  <2>1. served' \in [Gateways -> LeaseTables]
    BY <1>1
  <2> QED
    BY <1>2, <2>1 DEF TunnelInv, TablesOK
<1>4. NetOK'
  BY DEF TunnelInv, NetOK, Fine, IsGrant
<1>5. \A x \in Gateways, b \in Addrs, n \in Nat :
          n < LeaseTime[scene] /\ Holds(served[x], b, Me, n) => Holds(served'[x], b, Me, n)
  BY <1>2
<1>6. \A m \in net' : m \in net \/ ~Granting(m) \/ Holds(served'[m.from], m.addr, Me, m.age)
  BY <1>2
<1>7. LeasesOK'
  BY <1>5, <1>6, LeasesKept
<1>8. Sound(State', router')
  BY SameClient
<1>9. RoutersOK' /\ scene' \in Scenes
  BY DEF TunnelInv, RoutersOK
<1> QED
  BY <1>3, <1>4, <1>7, <1>8, <1>9 DEF TunnelInv

(* Only messages change.                                                    *)
LEMMA NetStep ==
  ASSUME TunnelInv, UNCHANGED <<node, router, scene, served>>,
         \A m \in net' : m \in net \/ (Fine(m) /\ ~Granting(m))
  PROVE  TunnelInv'
<1>1. TablesOK' /\ RoutersOK' /\ scene' \in Scenes
  BY DEF TunnelInv, TablesOK, RoutersOK
<1>2. NetOK'
  BY DEF TunnelInv, NetOK, Fine, IsGrant
<1>3. LeasesOK'
  BY LeasesKept
<1>4. Sound(State', router')
  BY SameClient
<1> QED
  BY <1>1, <1>2, <1>3, <1>4 DEF TunnelInv

(* A gateway's table and its times.                                          *)
LEMMA TableTyped ==
  ASSUME TunnelInv, NEW g \in Gateways
  PROVE  served[g] \in LeaseTables /\ OneEach(served[g]) /\ LeaseTime[scene] \in Nat /\ MaxDelay \in Nat
BY TunnelAssumption DEF TunnelInv, TablesOK

(* gws_recv_udp: only the client's own messages reach a gateway, and the     *)
(* answer promises what the table then holds.                               *)
LEMMA AnswerStep ==
  ASSUME TunnelInv, NEW m \in net, m.to \in Gateways, m.t = "request", AnswerRequest(m.to, m),
         UNCHANGED <<node, router, scene>>
  PROVE  TunnelInv'
<1> DEFINE g == m.to
           a == Chosen(served[g], m.from, m.addr)
           lt == IF a = NoAddr THEN 0 ELSE LeaseTime[scene]
           w == Msg("reply", g, m.from, a, lt)
           l == Granted(served[g], m.from, a)
<1>1. served' = [served EXCEPT ![g] = l] /\ net' = Sent(net \ {m}, w)
  BY DEF AnswerRequest
<1>2. served[g] \in LeaseTables /\ OneEach(served[g]) /\ LeaseTime[scene] \in Nat /\ MaxDelay \in Nat
  BY TableTyped
<1>3. m.from = Me /\ Me \in Clients
  BY TunnelClientAssumption DEF TunnelInv, NetOK, Fine
<1>4. /\ l \in LeaseTables /\ OneEach(l) /\ a \in Addrs \cup {NoAddr}
      /\ a # NoAddr => Holds(l, a, Me, 0)
      /\ \A b \in Addrs, d \in Clients, n \in Nat : Holds(served[g], b, d, n) => Holds(l, b, d, n)
  BY <1>2, <1>3, GrantedTable
<1>5. lt \in Nat /\ (a = NoAddr => lt = 0) /\ (a # NoAddr => lt = LeaseTime[scene])
  BY <1>2
<1> HIDE DEF a, l, lt
<1>0. w = Msg("reply", g, Me, a, lt)
  BY <1>3
<1> HIDE DEF w
<1>6. /\ w \in Messages /\ w.t = "reply" /\ w.from = g /\ w.to = Me /\ w.addr = a /\ w.lt = lt
      /\ w.age = 0
  <2>1. /\ "reply" \in {"request", "reply", "invalid", "data"} /\ g \in Clients \cup Gateways
        /\ Me \in Clients \cup Gateways /\ a \in Addrs \cup {NoAddr, OwnAddr} /\ lt \in Nat
    BY <1>3, <1>4, <1>5
  <2> HIDE DEF g
  <2> QED
    BY <1>0, <2>1, MsgIn
<1>7. Fine(w) /\ (Granting(w) => Holds(l, w.addr, Me, w.age))
  <2>1. IsGrant(w)
    BY <1>4, <1>5, <1>6 DEF IsGrant
  <2>2. w.to \notin Gateways /\ w.from \in Gateways
    BY <1>6, Names
  <2>3. w.age <= MaxDelay
    BY <1>2, <1>6
  <2>4. Fine(w)
    BY <1>6, <2>1, <2>2, <2>3 DEF Fine
  <2> QED
    BY <1>4, <1>5, <1>6, <2>4 DEF Granting
<1>8. \A x \in net' : x \in net \/ x = w
  BY <1>1, SentOnly DEF w
<1> QED
  BY <1>1, <1>3, <1>4, <1>6, <1>7, <1>8, TableStep

(* What a gateway or the network does with messages alone.                   *)
LEMMA OtherMessagesStep ==
  ASSUME TunnelInv, UNCHANGED <<node, router, scene>>, NEW g \in Gateways,
         \/ \E m \in net : m.to = g /\ m.t = "data" /\ TakeData(g, m)
         \/ \E m \in net : Lose(m)
         \/ \E a \in Addrs : GwsRecvTun(g, a)
  PROVE  TunnelInv'
<1>1. MaxDelay \in Nat /\ Me \in Clients
  BY TunnelAssumption, TunnelClientAssumption
<1>2. CASE \E m \in net : m.to = g /\ m.t = "data" /\ TakeData(g, m)
  <2>1. PICK m \in net : m.to = g /\ m.t = "data" /\ TakeData(g, m)
    BY <1>2
  <2> DEFINE w == Msg("invalid", g, m.from, NoAddr, 0)
  <2>2. m.from = Me
    BY <2>1 DEF TunnelInv, NetOK, Fine
  <2>3. \A x \in net' : x \in net \/ x = w
    BY <2>1, SentOnly DEF TakeData
  <2>4. w = Msg("invalid", g, Me, NoAddr, 0)
    BY <2>2
  <2> HIDE DEF w
  <2>5. Fine(w) /\ ~Granting(w)
    BY <2>4, NoticeIn
  <2> QED
    BY <2>1, <2>3, <2>5, NetStep DEF TakeData
<1>3. CASE \E m \in net : Lose(m)
  BY <1>3, NetStep DEF Lose
<1>4. CASE \E a \in Addrs : GwsRecvTun(g, a)
  <2>1. PICK a \in Addrs : GwsRecvTun(g, a)
    BY <1>4
  <2> DEFINE w == Msg("data", g, Me, a, 0)
  <2>2. \A x \in net' : x \in net \/ x = w
    BY <2>1, SentOnly DEF GwsRecvTun
  <2>4. Fine(w) /\ ~Granting(w)
    BY NoticeIn
  <2> HIDE DEF w
  <2> QED
    BY <2>1, <2>2, <2>4, NetStep DEF GwsRecvTun
<1> QED
  BY <1>2, <1>3, <1>4

(* A gateway's own tasks, and what other clients make of its table.          *)
LEMMA OthersStep ==
  ASSUME TunnelInv, NEW g \in Gateways,
         \/ GarbageCollector(g)
         \/ \E a \in Addrs : OtherExpires(g, a)
         \/ \E c \in Others : \E pref : OtherRequest(g, c, pref)
  PROVE  TunnelInv'
<1>1. served[g] \in LeaseTables /\ OneEach(served[g]) /\ LeaseTime[scene] \in Nat
  BY TableTyped
<1>2. Me \in Clients /\ Others \subseteq Clients \ {Me}
  BY TunnelAssumption, TunnelClientAssumption
<1>3. CASE GarbageCollector(g)
  <2> DEFINE l == Expired(served[g], LeaseTime[scene])
  <2>1. served' = [served EXCEPT ![g] = l] /\ UNCHANGED <<node, router, net, scene>>
    BY <1>3 DEF GarbageCollector
  <2>2. /\ l \in LeaseTables /\ OneEach(l)
        /\ \A b \in Addrs, d \in Clients, n \in Nat :
               Holds(served[g], b, d, n) /\ n < LeaseTime[scene] => Holds(l, b, d, n)
    BY <1>1, ExpiredTable
  <2> HIDE DEF l
  <2> QED
    BY <1>2, <2>1, <2>2, TableStep
<1>4. CASE \E a \in Addrs : OtherExpires(g, a)
  <2>1. PICK a \in Addrs : OtherExpires(g, a)
    BY <1>4
  <2> DEFINE l == [served[g] EXCEPT ![a] = None]
  <2>2. /\ served' = [served EXCEPT ![g] = l] /\ UNCHANGED <<node, router, net, scene>>
        /\ served[g][a] # None /\ served[g][a].client # Me
    BY <1>2, <2>1 DEF OtherExpires
  <2>3. /\ l \in LeaseTables /\ OneEach(l)
        /\ \A b \in Addrs, n \in Nat : Holds(served[g], b, Me, n) => Holds(l, b, Me, n)
    BY <1>1, <2>2, DroppedTable
  <2> HIDE DEF l
  <2> QED
    BY <2>2, <2>3, TableStep
<1>5. CASE \E c \in Others : \E pref : OtherRequest(g, c, pref)
  <2>1. PICK c \in Others : \E pref : OtherRequest(g, c, pref)
    BY <1>5
  <2>0. PICK pref : OtherRequest(g, c, pref)
    BY <2>1
  <2> DEFINE a == Chosen(served[g], c, pref)
             l == Granted(served[g], c, a)
  <2>2. served' = [served EXCEPT ![g] = l] /\ UNCHANGED <<node, router, net, scene>>
    BY <2>0 DEF OtherRequest
  <2>3. /\ l \in LeaseTables /\ OneEach(l)
        /\ \A b \in Addrs, d \in Clients, n \in Nat : Holds(served[g], b, d, n) => Holds(l, b, d, n)
    BY <1>1, <1>2, GrantedTable
  <2> HIDE DEF l
  <2> QED
    BY <1>2, <2>2, <2>3, TableStep
<1> QED
  BY <1>3, <1>4, <1>5

(* What the tunnel knows changes, or there is none.                          *)
LEMMA ArgsChange ==
  ASSUME NEW s, NEW r, Sound(s, r), NEW t, OnlyArgs(s, t),
         IF s.n.args = None THEN t.n.args = None
         ELSE /\ t.n.args \in Args /\ t.n.args.gw = s.n.args.gw
              /\ t.n.args.ad = s.n.args.ad /\ t.n.args.addr = s.n.args.addr
  PROVE  Sound(t, r)
<1>1. CASE s.n.args = None
  <2>1. Alike(s, t)
    BY <1>1 DEF Alike, OnlyArgs
  <2> QED
    BY <2>1, AlikeSound
<1>2. CASE s.n.args # None
  BY <1>2, OtherArgs
<1> QED
  BY <1>1, <1>2

(* The tunnel after its gateway was restarted.                              *)
StaleArgs(a) == [a EXCEPT !.fresh = FALSE]
(* It is the same tunnel.                                                    *)
LEMMA StaleArgsFields ==
  ASSUME NEW a \in Args, NEW b, b = StaleArgs(a)
  PROVE  b \in Args /\ b.gw = a.gw /\ b.ad = a.ad /\ b.addr = a.addr
BY DEF StaleArgs, Args
(* It no longer counts.                                                      *)
LEMMA StaleArgsFresh ==
  ASSUME NEW a \in Args
  PROVE  ~StaleArgs(a).fresh
BY DEF StaleArgs, Args

(* A message after its sender was restarted, and a message that got older.   *)
StaleMsg(m) == [m EXCEPT !.fresh = FALSE]
(* It is the same message.                                                   *)
LEMMA StaleMsgFields ==
  ASSUME NEW m \in Messages, NEW w, w = StaleMsg(m)
  PROVE  /\ w \in Messages /\ w.t = m.t /\ w.from = m.from /\ w.to = m.to /\ w.addr = m.addr
         /\ w.lt = m.lt /\ w.age = m.age
BY DEF StaleMsg, Messages
(* It no longer counts.                                                      *)
LEMMA StaleMsgFresh ==
  ASSUME NEW m \in Messages
  PROVE  ~StaleMsg(m).fresh
BY DEF StaleMsg, Messages
OlderMsg(m, d) == [m EXCEPT !.age = @ + d]
(* It is the same message, only older.                                       *)
LEMMA OlderMsgFields ==
  ASSUME NEW m \in Messages, NEW d \in Nat, NEW w, w = OlderMsg(m, d)
  PROVE  /\ w \in Messages /\ w.t = m.t /\ w.from = m.from /\ w.to = m.to /\ w.addr = m.addr
         /\ w.lt = m.lt /\ w.age = m.age + d
BY DEF OlderMsg, Messages
(* Time does not tell of a restart.                                          *)
LEMMA OlderMsgFresh ==
  ASSUME NEW m \in Messages, NEW d \in Nat
  PROVE  OlderMsg(m, d).fresh = m.fresh
BY DEF OlderMsg, Messages
(* Time passes for the plugin, field by field.                               *)
LEMMA LaterFields ==
  ASSUME NEW n, DOMAIN n = NodeFields, NEW d, NEW t, t = Later(n, d)
  PROVE  /\ DOMAIN t = NodeFields
         /\ t.args = IF n.args = None THEN None ELSE OlderArgs(n.args, d)
         /\ t.curr = n.curr /\ t.list = n.list /\ t.tuno = n.tuno
         /\ t.serving = n.serving /\ t.announced = n.announced
         /\ t.rules = n.rules /\ t.route = n.route /\ t.script = n.script
BY DEF Later, NodeFields

(* A gateway that is restarted forgets its leases; what it granted no longer *)
(* counts.                                                                   *)
LEMMA RestartStep ==
  ASSUME TunnelInv, NEW g \in Gateways, RestartService(g)
  PROVE  TunnelInv'
<1> DEFINE l == Expired(served[g], 0)
           a == node.args
<1>1. /\ served' = [served EXCEPT ![g] = l] /\ node' = Stale(node, g)
      /\ UNCHANGED <<router, scene>>
      /\ net' = {IF m.from = g THEN StaleMsg(m) ELSE m : m \in net}
  BY DEF RestartService, StaleMsg
<1>2. served[g] \in LeaseTables /\ OneEach(served[g]) /\ LeaseTime[scene] \in Nat /\ MaxDelay \in Nat
  BY TableTyped
<1>3. l \in LeaseTables /\ OneEach(l)
  <2>1. 0 \in Nat
    OBVIOUS
  <2> QED
    BY <1>2, <2>1, ExpiredTable
<1> HIDE DEF l
<1>4. served \in [Gateways -> LeaseTables] /\ Sound(State, router) /\ NetOK
  BY DEF TunnelInv, TablesOK
<1>5. TablesOK' /\ \A x \in Gateways \ {g} : served'[x] = served[x]
  <2>1. served' \in [Gateways -> LeaseTables] /\ served'[g] = l
    BY <1>1, <1>3, <1>4
  <2>2. \A x \in Gateways \ {g} : served'[x] = served[x]
    BY <1>1, <1>4
  <2> QED
    BY <1>3, <2>1, <2>2 DEF TunnelInv, TablesOK
<1>6. RoutersOK' /\ scene' \in Scenes /\ router' = router
  BY <1>1 DEF TunnelInv, RoutersOK
<1>7. a # None => a \in Args
  BY <1>4, StateFields DEF Sound, Exclusive
<1>8. /\ a = None \/ a.gw # g => node' = node
      /\ a # None /\ a.gw = g =>
             /\ node'.args = StaleArgs(a) /\ OnlyArgs(State, State')
  <2>1. IsState(State)
    BY <1>4 DEF Sound
  <2>2. CASE a = None \/ a.gw # g
    BY <1>1, <2>2 DEF Stale
  <2>3. CASE a # None /\ a.gw = g
    <3>1. node' = [node EXCEPT !.args = StaleArgs(a)]
      BY <1>1, <2>3 DEF Stale, StaleArgs
    <3>2. State'.n = node' /\ DOMAIN State' = {"n", "net"}
      BY DEF State
    <3>3. DOMAIN node = NodeFields
      BY <2>1, StateFields DEF IsState
    <3> QED
      BY <2>3, <3>1, <3>2, <3>3, StateFields DEF OnlyArgs, IsState, NodeFields
  <2> QED
    BY <2>2, <2>3
<1>9. Sound(State', router')
  <2>1. CASE a = None \/ a.gw # g
    BY <1>1, <1>8, <2>1, SameClient
  <2>2. CASE a # None /\ a.gw = g
    <3> DEFINE t == State'
               b == StaleArgs(a)
    <3>1. b \in Args /\ b.gw = a.gw /\ b.ad = a.ad /\ b.addr = a.addr
      BY <1>7, <2>2, StaleArgsFields
    <3> HIDE DEF b
    <3>2. t.n.args = b
      BY <1>8, <2>2 DEF b, State
    <3>3. OnlyArgs(State, t)
      BY <1>8, <2>2
    <3> HIDE DEF t
    <3>4. Sound(t, router)
      BY <1>4, <2>2, <3>1, <3>2, <3>3, StateFields, ArgsChange
    <3> QED
      BY <1>6, <3>4 DEF t
  <2> QED
    BY <2>1, <2>2
<1>10. \A w \in net' : \E m \in net : (w = m /\ m.from # g) \/ w = StaleMsg(m)
  BY <1>1
<1>11. NetOK'
  <2> SUFFICES ASSUME NEW w \in net' PROVE Fine(w)
    BY <1>1 DEF NetOK, Fine, IsGrant
  <2>1. PICK m \in net : w = m \/ w = StaleMsg(m)
    BY <1>10
  <2>2. Fine(m) /\ m \in Messages
    BY <1>4 DEF NetOK, Fine
  <2>3. CASE w = m
    BY <2>2, <2>3
  <2>4. CASE w = StaleMsg(m)
    <3>1. /\ w \in Messages /\ w.t = m.t /\ w.from = m.from /\ w.to = m.to /\ w.addr = m.addr
          /\ w.lt = m.lt /\ w.age = m.age
      BY <2>2, <2>4, StaleMsgFields
    <3> QED
      BY <2>2, <3>1 DEF Fine, IsGrant
  <2> QED
    BY <2>1, <2>3, <2>4
<1>12. ASSUME Timely, scene = "leases"
       PROVE  AnswersHeld' /\ TunnelHeld'
  <2>1. AnswersHeld /\ TunnelHeld
    BY <1>12 DEF TunnelInv, LeasesOK
  <2>2. ASSUME NEW w \in net', Granting(w)
        PROVE  Holds(served'[w.from], w.addr, Me, w.age)
    <3>1. PICK m \in net : (w = m /\ m.from # g) \/ w = StaleMsg(m)
      BY <1>10
    <3>2. m \in Messages
      BY <1>4 DEF NetOK, Fine
    <3>3. w = m /\ m.from # g
      BY <2>2, <3>1, <3>2, StaleMsgFresh DEF Granting
    <3>4. m.from \in Gateways
      BY <1>4, <2>2, <3>3 DEF NetOK, Fine, Granting
    <3> QED
      BY <1>5, <2>1, <2>2, <3>3, <3>4 DEF AnswersHeld
  <2>3. AnswersHeld'
    BY <2>2 DEF AnswersHeld, Granting
  <2>4. CASE a = None \/ a.gw # g
    <3>1. node' = node
      BY <1>8, <2>4
    <3>2. Counting(a) => a.gw \in Gateways /\ served'[a.gw] = served[a.gw]
      BY <1>5, <1>7, <2>4 DEF Counting, Args
    <3> QED
      BY <1>1, <2>1, <2>3, <3>1, <3>2 DEF TunnelHeld
  <2>5. CASE a # None /\ a.gw = g
    <3>1. ~Counting(node'.args)
      BY <1>7, <1>8, <2>5, StaleArgsFresh DEF Counting
    <3> QED
      BY <2>3, <3>1 DEF TunnelHeld
  <2> QED
    BY <2>4, <2>5
<1>13. LeasesOK'
  BY <1>1, <1>12 DEF LeasesOK, Timely
<1> QED
  BY <1>5, <1>6, <1>9, <1>11, <1>13 DEF TunnelInv

(* Time passes for the client, the messages and the leases alike.            *)
LEMMA PassStep ==
  ASSUME TunnelInv, NEW d \in Skips[scene], Pass(d)
  PROVE  TunnelInv'
<1> DEFINE a == node.args
           b == OlderArgs(a, d)
           l(g) == Aged(served[g], Clients \ Others, d, LeaseTime[scene])
<1>1. /\ node' = Later(node, d) /\ UNCHANGED <<router, scene>>
      /\ net' = {OlderMsg(m, d) : m \in {x \in net : x.age + d <= MaxDelay}}
      /\ served' = [g \in Gateways |-> l(g)]
  BY DEF Pass, OlderMsg
<1>2. d \in Nat /\ MaxDelay \in Nat /\ LeaseTime[scene] \in Nat /\ MaxAge[scene] \in Nat
      /\ scene \in Scenes
  BY TunnelAssumption DEF TunnelInv
<1>3. served \in [Gateways -> LeaseTables] /\ Sound(State, router) /\ NetOK
  BY DEF TunnelInv, TablesOK
<1>4. \A g \in Gateways : /\ l(g) \in LeaseTables /\ OneEach(l(g))
                          /\ \A x \in Addrs, c \in Clients, n \in Nat :
                                 Holds(served[g], x, c, n) => Holds(l(g), x, c, n + d)
  <2> SUFFICES ASSUME NEW g \in Gateways
               PROVE  /\ l(g) \in LeaseTables /\ OneEach(l(g))
                      /\ \A x \in Addrs, c \in Clients, n \in Nat :
                             Holds(served[g], x, c, n) => Holds(l(g), x, c, n + d)
    OBVIOUS
  <2>1. served[g] \in LeaseTables /\ OneEach(served[g])
    BY TableTyped
  <2> QED
    BY <1>2, <2>1, AgedTable
<1>5. \A g \in Gateways : served'[g] = l(g)
  BY <1>1
<1> HIDE DEF l
<1>6. TablesOK' /\ \A g \in Gateways, x \in Addrs, n \in Nat :
          Holds(served[g], x, Me, n) => Holds(served'[g], x, Me, n + d)
  <2>1. served' \in [Gateways -> LeaseTables]
    BY <1>1, <1>4
  <2>2. Me \in Clients
    BY TunnelClientAssumption
  <2> QED
    BY <1>4, <1>5, <2>1, <2>2 DEF TablesOK
<1>7. RoutersOK' /\ scene' \in Scenes /\ router' = router
  BY <1>1 DEF TunnelInv, RoutersOK
<1>8. a # None => a \in Args
  BY <1>3, StateFields DEF Sound, Exclusive
<1>9. OnlyArgs(State, State') /\ State'.n.args = IF a = None THEN None ELSE b
  <2>1. IsState(State)
    BY <1>3 DEF Sound
  <2>2. DOMAIN node = NodeFields
    BY <2>1, StateFields DEF IsState
  <2> DEFINE t == node'
  <2>3. t = Later(node, d)
    BY <1>1
  <2>4. State'.n = t /\ DOMAIN State' = {"n", "net"}
    BY DEF State
  <2> HIDE DEF t
  <2>5. /\ DOMAIN t = NodeFields
        /\ t.args = IF a = None THEN None ELSE b
        /\ t.curr = node.curr /\ t.list = node.list /\ t.tuno = node.tuno
        /\ t.serving = node.serving /\ t.announced = node.announced
        /\ t.rules = node.rules /\ t.route = node.route /\ t.script = node.script
    BY <2>2, <2>3, LaterFields
  <2> HIDE DEF b
  <2> QED
    BY <2>4, <2>5, StateFields DEF OnlyArgs, IsState
<1>10. a # None =>
          /\ b \in Args /\ b.gw = a.gw /\ b.ad = a.ad /\ b.addr = a.addr /\ b.type = a.type
          /\ b.dur = a.dur /\ b.fresh = a.fresh
          /\ b.leased = Older(a.leased, d, MaxAge[scene])
  <2> SUFFICES ASSUME a # None
               PROVE  /\ b \in Args /\ b.gw = a.gw /\ b.ad = a.ad /\ b.addr = a.addr
                      /\ b.type = a.type /\ b.dur = a.dur /\ b.fresh = a.fresh
                      /\ b.leased = Older(a.leased, d, MaxAge[scene])
    OBVIOUS
  <2> DEFINE c == a
  <2>1. c \in Args /\ b = OlderArgs(c, d)
    BY <1>8
  <2> HIDE DEF b, c
  <2>2. /\ b \in Args /\ b.gw = c.gw /\ b.ad = c.ad /\ b.addr = c.addr /\ b.type = c.type
        /\ b.dur = c.dur
    BY <1>2, <2>1, OlderArgsFields
  <2>3. b.fresh = c.fresh /\ b.leased = Older(c.leased, d, MaxAge[scene])
    BY <2>1, OlderArgsFresh, OlderArgsLeased
  <2> QED
    BY <2>2, <2>3 DEF c
<1> HIDE DEF b
<1>11. Sound(State', router')
  <2> DEFINE t == State'
  <2>1. OnlyArgs(State, t) /\ t.n.args = IF a = None THEN None ELSE b
    BY <1>9
  <2> HIDE DEF t
  <2>2. Sound(t, router)
    BY <1>3, <1>10, <2>1, StateFields, ArgsChange
  <2> QED
    BY <1>7, <2>2 DEF t
<1>12. \A w \in net' : \E m \in net : m.age + d <= MaxDelay /\ w = OlderMsg(m, d)
  BY <1>1
<1>13. \A w \in net' : \E m \in net :
          /\ m.age + d <= MaxDelay /\ Fine(m) /\ m \in Messages
          /\ w \in Messages /\ w.t = m.t /\ w.from = m.from /\ w.to = m.to /\ w.addr = m.addr
          /\ w.lt = m.lt /\ w.age = m.age + d /\ w.fresh = m.fresh
  <2> SUFFICES ASSUME NEW w \in net'
               PROVE  \E m \in net :
                  /\ m.age + d <= MaxDelay /\ Fine(m) /\ m \in Messages
                  /\ w \in Messages /\ w.t = m.t /\ w.from = m.from /\ w.to = m.to /\ w.addr = m.addr
                  /\ w.lt = m.lt /\ w.age = m.age + d /\ w.fresh = m.fresh
    OBVIOUS
  <2>1. PICK m \in net : m.age + d <= MaxDelay /\ w = OlderMsg(m, d)
    BY <1>12
  <2>2. Fine(m) /\ m \in Messages
    BY <1>3 DEF NetOK, Fine
  <2>3. /\ w \in Messages /\ w.t = m.t /\ w.from = m.from /\ w.to = m.to /\ w.addr = m.addr
        /\ w.lt = m.lt /\ w.age = m.age + d
    BY <1>2, <2>1, <2>2, OlderMsgFields
  <2>4. w.fresh = m.fresh
    BY <1>2, <2>1, <2>2, OlderMsgFresh
  <2> QED
    BY <2>1, <2>2, <2>3, <2>4
<1>14. NetOK'
  <2> SUFFICES ASSUME NEW w \in net' PROVE Fine(w)
    BY <1>1 DEF NetOK, Fine, IsGrant
  <2> QED
    BY <1>13 DEF Fine, IsGrant
<1>15. ASSUME Timely, scene = "leases"
       PROVE  AnswersHeld' /\ TunnelHeld'
  <2>1. AnswersHeld /\ TunnelHeld
    BY <1>15 DEF TunnelInv, LeasesOK
  <2>2. AnswersHeld'
    <3> SUFFICES ASSUME NEW w \in net', Granting(w)
                 PROVE  Holds(served'[w.from], w.addr, Me, w.age)
      BY DEF AnswersHeld, Granting
    <3>1. PICK m \in net :
             /\ Fine(m) /\ m \in Messages
             /\ w.t = m.t /\ w.from = m.from /\ w.to = m.to /\ w.addr = m.addr
             /\ w.lt = m.lt /\ w.age = m.age + d /\ w.fresh = m.fresh
      BY <1>13
    <3>2. Granting(m)
      BY <3>1 DEF Granting
    <3>3. Holds(served[m.from], m.addr, Me, m.age)
      BY <2>1, <3>2 DEF AnswersHeld
    <3>4. m.from \in Gateways /\ m.age \in Nat /\ m.addr \in Addrs
      BY <3>1, <3>2, <3>3 DEF Fine, Granting, Messages, Holds, HeldBy
    <3> QED
      BY <1>6, <3>1, <3>3, <3>4
  <2>3. ASSUME Counting(node'.args)
        PROVE  /\ node'.args.dur = LeaseTime[scene]
               /\ 10 * node'.args.leased <= 9 * node'.args.dur =>
                    Holds(served'[node'.args.gw], node'.args.addr, Me, node'.args.leased + MaxDelay)
    <3>1. a # None /\ node'.args = b
      BY <1>9, <2>3 DEF Counting, State
    <3>2. Counting(a) /\ a \in Args
      BY <1>8, <1>10, <2>3, <3>1 DEF Counting
    <3>3. a.dur = LeaseTime[scene]
      BY <2>1, <3>2 DEF TunnelHeld
    <3>4. a.leased \in Nat /\ a.dur \in Nat /\ a.dur > 0 /\ a.gw \in Gateways
      BY <3>2 DEF Counting, Args
    <3>5. b.leased = IF a.leased + d <= MaxAge[scene] THEN a.leased + d ELSE MaxAge[scene]
      BY <1>2, <1>10, <3>1, <3>4, OlderNat
    <3>6. ASSUME 10 * b.leased <= 9 * b.dur
          PROVE  Holds(served'[b.gw], b.addr, Me, b.leased + MaxDelay)
      <4>1. LeaseTime[scene] <= MaxAge[scene]
        BY <1>15 DEF Timely
      <4>2. b.dur = a.dur /\ b.gw = a.gw /\ b.addr = a.addr
        BY <1>10, <3>1
      <4>3. b.leased = a.leased + d
        <5> DEFINE x == a.leased
                   y == MaxAge[scene]
                   z == b.leased
                   u == a.dur
        <5>1. x \in Nat /\ y \in Nat /\ u \in Nat /\ u > 0 /\ u <= y /\ d \in Nat
              /\ z = (IF x + d <= y THEN x + d ELSE y) /\ 10 * z <= 9 * u
          BY <1>2, <3>3, <3>4, <3>5, <3>6, <4>1, <4>2
        <5> HIDE DEF x, y, z, u
        <5>2. z = x + d
          BY <5>1
        <5> QED
          BY <5>2 DEF x, z
      <4>4. 10 * a.leased <= 9 * a.dur
        <5> DEFINE x == a.leased
                   u == a.dur
        <5>1. x \in Nat /\ u \in Nat /\ d \in Nat /\ 10 * (x + d) <= 9 * u
          BY <1>2, <3>4, <3>6, <4>2, <4>3
        <5> HIDE DEF x, u
        <5>2. 10 * x <= 9 * u
          BY <5>1
        <5> QED
          BY <5>2 DEF x, u
      <4>5. Holds(served[a.gw], a.addr, Me, a.leased + MaxDelay)
        BY <2>1, <3>2, <4>4 DEF TunnelHeld
      <4>6. a.addr \in Addrs /\ a.leased + MaxDelay \in Nat
        BY <1>2, <3>4, <4>5 DEF Holds, HeldBy
      <4>7. Holds(served'[a.gw], a.addr, Me, (a.leased + MaxDelay) + d)
        BY <1>6, <3>4, <4>5, <4>6
      <4>8. (a.leased + MaxDelay) + d = b.leased + MaxDelay
        BY <1>2, <3>4, <4>3
      <4> QED
        BY <4>2, <4>7, <4>8
    <3> QED
      BY <1>10, <3>1, <3>3, <3>6
  <2>4. TunnelHeld'
    BY <1>1, <2>3 DEF TunnelHeld
  <2> QED
    BY <2>2, <2>4
<1>16. LeasesOK'
  BY <1>1, <1>15 DEF LeasesOK, Timely
<1> QED
  BY <1>6, <1>7, <1>11, <1>14, <1>16 DEF TunnelInv

-----------------------------------------------------------------------------
(* tun_init: the plugin knows no gateway.                                    *)
LEMMA NoNodeSound ==
  ASSUME NEW s, DOMAIN s = {"n", "net"}, NEW rt, NEW pref, NEW unresp, s.n = NoNode(rt, pref, unresp),
         NEW r
  PROVE  Sound(s, r) /\ s.n.curr = None /\ s.n.args = None
<1> DEFINE n == s.n
<1>1. n = NoNode(rt, pref, unresp)
  OBVIOUS
<1> HIDE DEF n
<1>2. /\ DOMAIN n = NodeFields /\ n.curr = None /\ n.args = None /\ n.list = <<>>
      /\ n.tuno = [g \in Gateways |-> None] /\ n.serving = FALSE /\ n.announced = FALSE
      /\ n.rules = FALSE /\ n.route = FALSE /\ n.script = ""
  BY <1>1 DEF NoNode, NodeFields
<1>3. Listed(n)
  <2> DEFINE e == n.list
  <2>1. e \in Seq(Gateways) /\ Len(e) = 0
    BY <1>2, EmptySeq
  <2>2. DOMAIN e = {}
    BY <2>1
  <2> QED
    BY <1>2, <2>1, <2>2 DEF Listed
<1>4. Exclusive(n)
  BY <1>2 DEF Exclusive
<1>5. Known(n, r) /\ Current(n)
  BY <1>2 DEF Known, Current
<1>6. Routed(n)
  BY <1>2, Names DEF Routed, Unrouted
<1> QED
  BY <1>2, <1>3, <1>4, <1>5, <1>6 DEF Sound, IsState, n

(* The initial states of both scenes.                                        *)
LEMMA TunnelInit == Init => TunnelInv
<1> SUFFICES ASSUME Init PROVE TunnelInv
  OBVIOUS
<1>1. TheGateway \in Gateways /\ TwoWayAd \in Ads
  BY TunnelAssumption DEF TheGateway, TwoWayAd
<1>2. scene \in Scenes /\ RoutersOK /\ NetOK /\ net = {}
  <2>1. \/ router = [g \in Gateways |-> IF g = TheGateway THEN 1 ELSE NoRoute]
        \/ router = [g \in Gateways |-> NoRoute]
    BY DEF Init
  <2>2. router \in [Gateways -> Nat \cup {NoRoute}]
    BY <2>1
  <2> QED
    BY <2>2 DEF Init, RoutersOK, NetOK
<1>3. TablesOK
  <2>1. NoLeases \in LeaseTables /\ OneEach(NoLeases)
    BY DEF NoLeases, LeaseTables, OneEach, HeldBy
  <2> HIDE DEF NoLeases
  <2>2. served = [g \in Gateways |-> NoLeases]
    BY DEF Init
  <2> QED
    BY <2>1, <2>2 DEF TablesOK
<1>4. Sound(State, router) /\ ~Counting(node.args)
  <2>1. CASE scene = "leases" /\ node = UpdateGwList([n |-> NoNode(3, None, FALSE), net |-> {}],
                                                     TheGateway, TwoWayAd).n
    <3> DEFINE s == [n |-> NoNode(3, None, FALSE), net |-> {}]
               t == UpdateGwList(s, TheGateway, TwoWayAd)
    <3>1. DOMAIN s = {"n", "net"} /\ s.n = NoNode(3, None, FALSE)
      OBVIOUS
    <3> HIDE DEF s
    <3>2. Sound(s, router) /\ s.n.args = None
      BY <3>1, NoNodeSound
    <3>3. Sound(t, router) /\ Quiet(s, t)
      BY <1>1, <3>2, UpdateSound
    <3>4. node = t.n
      BY <2>1 DEF s
    <3> HIDE DEF t
    <3>5. Sound(State, router)
      BY <3>3, <3>4, StateFields, SoundNode
    <3>6. ~Counting(t.n.args)
      BY <3>2, <3>3 DEF Quiet, CountsOn, Counting
    <3> QED
      BY <3>4, <3>5, <3>6
  <2>2. CASE \E pref : node = NoNode(1, pref, TRUE)
    <3>1. PICK pref : node = NoNode(1, pref, TRUE)
      BY <2>2
    <3>2. Sound(State, router) /\ State.n.args = None
      BY <3>1, StateFields, NoNodeSound
    <3> QED
      BY <3>2, StateFields DEF Counting
  <2> QED
    BY <2>1, <2>2 DEF Init
<1>5. LeasesOK
  BY <1>2, <1>4 DEF LeasesOK, AnswersHeld, TunnelHeld
<1> QED
  BY <1>2, <1>3, <1>4, <1>5 DEF TunnelInv

(* Every step.                                                               *)
LEMMA TunnelStep == TunnelInv /\ [Next]_vars => TunnelInv'
<1> SUFFICES ASSUME TunnelInv, [Next]_vars PROVE TunnelInv'
  OBVIOUS
<1>1. CASE Client
  BY <1>1, ClientKeeps
<1>2. CASE \E m \in net : GwsRecvUdp(m) \/ Lose(m)
  <2>1. PICK m \in net : GwsRecvUdp(m) \/ Lose(m)
    BY <1>2
  <2>2. PICK g : g \in Gateways
    BY TunnelAssumption
  <2>3. CASE GwsRecvUdp(m) /\ m.t = "request" /\ AnswerRequest(m.to, m)
    BY <2>3, AnswerStep DEF GwsRecvUdp
  <2>4. CASE GwsRecvUdp(m) /\ m.t = "data" /\ TakeData(m.to, m)
    BY <2>4, OtherMessagesStep DEF GwsRecvUdp
  <2>5. CASE Lose(m)
    BY <2>2, <2>5, OtherMessagesStep DEF Lose
  <2> QED
    BY <2>1, <2>3, <2>4, <2>5 DEF GwsRecvUdp
<1>3. CASE \E g \in Gateways : GarbageCollector(g) \/ RestartService(g)
  BY <1>3, OthersStep, RestartStep
<1>4. CASE \E g \in Gateways, a \in Addrs : GwsRecvTun(g, a) \/ OtherExpires(g, a)
  <2>1. PICK g \in Gateways, a \in Addrs : GwsRecvTun(g, a) \/ OtherExpires(g, a)
    BY <1>4
  <2>2. CASE GwsRecvTun(g, a)
    BY <2>2, OtherMessagesStep DEF GwsRecvTun
  <2>3. CASE OtherExpires(g, a)
    BY <2>3, OthersStep
  <2> QED
    BY <2>1, <2>2, <2>3
<1>5. CASE \E g \in Gateways, c \in Others, pref \in Addrs \cup {NoAddr} : OtherRequest(g, c, pref)
  BY <1>5, OthersStep
<1>6. CASE \E d \in Skips[scene] : Pass(d)
  BY <1>6, PassStep
<1>7. CASE UNCHANGED vars
  <2>1. UNCHANGED <<node, router, scene, served>> /\ net' = net
    BY <1>7 DEF vars
  <2> QED
    BY <2>1, NetStep
<1> QED
  BY <1>1, <1>2, <1>3, <1>4, <1>5, <1>6, <1>7 DEF Next

(* The invariant holds always.                                               *)
THEOREM TunnelAlways == Spec => []TunnelInv
BY TunnelInit, TunnelStep, PTL DEF Spec

-----------------------------------------------------------------------------
(* What it says of the tunnel.                                               *)

(* A client, whatever it asks for and however often, has one address of a    *)
(* gateway: gws_get_ip_addr finds the entry it already has.                  *)
THEOREM AddressesDistinct == Spec => []OneAddressEach
<1>1. TunnelInv => OneAddressEach
  <2> SUFFICES ASSUME TunnelInv, NEW g \in Gateways, NEW c \in Clients
               PROVE  Cardinality({a \in Addrs : HeldBy(served[g], a, c)}) <= 1
    BY DEF OneAddressEach
  <2> DEFINE S == {a \in Addrs : HeldBy(served[g], a, c)}
  <2>1. \A a, b \in S : a = b
    BY DEF TunnelInv, TablesOK, OneEach
  <2>2. CASE S = {}
    BY <2>2, FS_EmptySet
  <2>3. CASE S # {}
    <3>1. PICK a \in S : TRUE
      BY <2>3
    <3>2. S = {a}
      BY <2>1, <3>1
    <3>3. Cardinality({a}) = 1
      BY FS_Singleton
    <3> HIDE DEF S
    <3>4. Cardinality(S) <= 1
      BY <3>2, <3>3
    <3> QED
      BY <3>4 DEF S
  <2> QED
    BY <2>2, <2>3
<1> QED
  BY <1>1, TunnelAlways, PTL

(* The tunnel that is up leads to the current gateway as it is announced     *)
(* now, and the host's rules, default route and script follow it: whichever  *)
(* function of the plugin ran last, and however far it got.                  *)
THEOREM TunnelLeadsRight == Spec => []TunnelInForce
<1>1. TunnelInv => TunnelInForce
  <2> SUFFICES ASSUME TunnelInv PROVE TunnelInForce
    OBVIOUS
  <2>1. Exclusive(node) /\ Known(node, router) /\ Current(node) /\ Routed(node)
    BY StateFields DEF TunnelInv, Sound
  <2>2. TunnelAsAnnounced
    BY <2>1 DEF TunnelAsAnnounced, Known, Current
  <2>3. node.curr = None \/ node.curr \in Gateways
    BY <2>1 DEF Known
  <2>4. CASE node.args # None /\ node.args.addr # NoAddr
    <3>1. node.route = TRUE /\ node.script = node.curr
      BY <2>1, <2>4 DEF Routed
    <3> QED
      BY <2>1, <2>2, <2>4, <3>1 DEF TunnelInForce, HostFollowsTunnel, Exclusive
  <2>5. CASE ~(node.args # None /\ node.args.addr # NoAddr)
    <3>1. node.route = FALSE /\ node.script \notin Gateways
      BY <2>1, <2>5 DEF Routed, Unrouted
    <3>2. node.script # node.curr
      BY <2>1, <2>3, <3>1, Names DEF Exclusive
    <3> QED
      BY <2>1, <2>2, <2>5, <3>1, <3>2 DEF TunnelInForce, HostFollowsTunnel, Exclusive
  <2> QED
    BY <2>4, <2>5
<1> QED
  BY <1>1, TunnelAlways, PTL

(* For the first 90 % of a lease the gateway that granted it, unless         *)
(* restarted, holds it for the client, when the network delays by less than  *)
(* a tenth of a lease.                                                       *)
THEOREM LeasesHonoured == Timely => (Spec => []LeaseHonoured)
<1> SUFFICES ASSUME Timely PROVE Spec => []LeaseHonoured
  OBVIOUS
<1>1. TunnelInv => LeaseHonoured
  BY DEF TunnelInv, LeasesOK, TunnelHeld, Counting, Holds, LeaseHonoured
<1> QED
  BY <1>1, TunnelAlways, PTL

-----------------------------------------------------------------------------
(* The choice: cb_choose_gw alone makes a gateway the current one, and the    *)
(* one its walk took last is the best.                                       *)

(* No other step makes a gateway the current one.                            *)
LEMMA OnlyChoose ==
  ASSUME TunnelInv, Next, node.curr = None, node'.curr # None
  PROVE  Here /\ \E step : Choose(step)
<1>1. Sound(State, router) /\ State.n = node /\ scene \in Scenes /\ RoutersOK
  BY StateFields DEF TunnelInv
<1>2. node.args = None
  BY <1>1 DEF Sound, Current
<1>3. node' # node
  OBVIOUS
<1>4. \A g \in Gateways : Stale(node, g) = node
  BY <1>2 DEF Stale
<1>5. \A d : Later(node, d).curr = None
  <2> SUFFICES ASSUME NEW d PROVE Later(node, d).curr = None
    OBVIOUS
  <2>1. DOMAIN node = NodeFields
    BY <1>1 DEF Sound, IsState
  <2> QED
    BY <2>1, LaterFields
<1>6. Client
  BY <1>3, <1>4, <1>5 DEF Next, GwsRecvUdp, Lose, GarbageCollector, RestartService, GwsRecvTun,
     OtherExpires, OtherRequest, Pass
<1>7. ~Maintain /\ ~HostPacket
  BY <1>2 DEF Maintain, TwoWayUp, HostPacket, RecvTun
<1>8. ASSUME NEW m, NEW assigned, RecvUdp(m, assigned)
      PROVE  FALSE
  <2> DEFINE u == [State EXCEPT !.net = @ \ {m}]
  <2>1. node' = Received(u, m, assigned).n
    BY <1>8 DEF RecvUdp
  <2>2. u.n = node
    BY StateFields
  <2> HIDE DEF u
  <2>3. Received(u, m, assigned) = u
    BY <1>2, <2>2 DEF Received
  <2> QED
    BY <1>3, <2>1, <2>2, <2>3
<1>9. ~Changes
  <2>1. ASSUME NEW g \in Gateways, NEW ad \in AdsOf[g], NEW wa \in MetricsOf[g], RecvOgm(g, ad, wa)
        PROVE  FALSE
    <3> DEFINE now == [router EXCEPT ![g] = wa]
    <3>1. PICK tuno : node' = OgmHook(State, g, ad, tuno, now).n
      BY <2>1 DEF RecvOgm
    <3> DEFINE s == OgmHook(State, g, ad, tuno, now)
    <3> HIDE DEF now
    <3>2. ad \in Ads \cup {None}
      BY TunnelAssumption
    <3>3. s.n.curr \in {None, State.n.curr}
      BY <1>1, <3>2, OgmHookSound
    <3> HIDE DEF s
    <3>4. node' = s.n
      BY <3>1 DEF s
    <3> QED
      BY <1>1, <3>3, <3>4
  <2>2. ASSUME NEW g \in Gateways, FlushOrig(g)
        PROVE  FALSE
    <3> DEFINE s == Flush(State, g)
    <3>1. node' = s.n
      BY <2>2 DEF FlushOrig
    <3>2. s.n.curr \in {None, State.n.curr}
      BY <1>1, FlushSound
    <3> HIDE DEF s
    <3> QED
      BY <1>1, <3>1, <3>2
  <2>3. ASSUME NEW changed, NEW step, ConfHook(changed, step)
        PROVE  FALSE
    <3> DEFINE s == ConfChanged(State, changed, step)
    <3>1. node' = s.n
      BY <2>3 DEF ConfHook
    <3>2. s.n.curr \in {None, State.n.curr}
      BY <1>1, ConfChangedSound
    <3> HIDE DEF s
    <3> QED
      BY <1>1, <3>1, <3>2
  <2>4. ASSUME NEW rt, NEW gwc, NEW step, SetClass(rt, gwc, step)
        PROVE  FALSE
    <3> DEFINE u == [State EXCEPT !.n.rt = rt, !.n.gwc = gwc]
               s == ConfChanged(u, FALSE, step)
    <3>1. node' = s.n
      BY <2>4 DEF SetClass
    <3>2. Alike(State, u)
      <4>1. IsState(State)
        BY <1>1 DEF Sound
      <4> QED
        BY <4>1, StateFields DEF Alike, IsState, NodeFields
    <3> HIDE DEF u
    <3>3. Sound(u, router) /\ u.n.curr = None
      BY <1>1, <3>2, AlikeSound DEF Alike
    <3>4. s.n.curr \in {None, u.n.curr}
      BY <1>1, <3>3, ConfChangedSound
    <3> HIDE DEF s
    <3> QED
      BY <3>1, <3>3, <3>4
  <2> QED
    BY <2>1, <2>2, <2>3, <2>4 DEF Changes
<1> QED
  BY <1>6, <1>7, <1>8, <1>9 DEF Client

(* Of the first values of a list and zero one is the largest.                 *)
LEMMA LargestExists ==
  ASSUME NEW N \in Nat, NEW f \in [1..N -> Nat], NEW i \in 0..N
  PROVE  \E u \in {0} \cup {f[j] : j \in 1..i} : \A w \in {0} \cup {f[j] : j \in 1..i} : u >= w
<1> DEFINE T(m) == {0} \cup {f[j] : j \in 1..m}
           Largest(m) == \E u \in T(m) : \A w \in T(m) : u >= w
           M == {m \in 0..N : ~Largest(m)}
<1> SUFFICES ASSUME M # {} PROVE FALSE
  OBVIOUS
<1>1. PICK m \in M : \A k \in M : m <= k
  <2>1. M \in SUBSET Nat
    OBVIOUS
  <2> QED
    BY <2>1, LeastExists
<1>2. m \in 0..N /\ ~Largest(m)
  OBVIOUS
<1>3. m # 0
  <2>1. T(0) = {0}
    OBVIOUS
  <2>2. Largest(0)
    BY <2>1
  <2> QED
    BY <1>2, <2>2
<1>4. m - 1 \in 0..N /\ Largest(m - 1)
  <2>1. m - 1 \in 0..N /\ m - 1 < m
    BY <1>2, <1>3
  <2>2. ASSUME m - 1 \in M PROVE FALSE
    <3>1. m <= m - 1
      BY <1>1, <2>2
    <3>2. m \in Nat
      BY <1>2
    <3> QED
      BY <3>1, <3>2
  <2> QED
    BY <2>1, <2>2
<1>5. T(m) = T(m - 1) \cup {f[m]}
  BY <1>2, <1>3
<1>6. f[m] \in Nat /\ \A w \in T(m - 1) : w \in Nat
  <2>1. m \in 1..N
    BY <1>2, <1>3
  <2> QED
    BY <1>4, <2>1
<1>7. PICK u \in T(m - 1) : \A w \in T(m - 1) : u >= w
  BY <1>4
<1> HIDE DEF T
<1>8. CASE f[m] >= u
  <2>1. \A w \in T(m) : f[m] >= w
    BY <1>5, <1>6, <1>7, <1>8
  <2> QED
    BY <1>2, <1>5, <2>1
<1>9. CASE ~(f[m] >= u)
  <2>1. \A w \in T(m) : u >= w
    BY <1>5, <1>6, <1>7, <1>9
  <2> QED
    BY <1>2, <1>5, <2>1
<1> QED
  BY <1>8, <1>9

(* The best value before a position of the walk: none before it has a         *)
(* larger, and one has it unless it is zero.                                  *)
BestOf(n, v, i) == Max({0} \cup {v[x] : x \in Before(n, i)})
LEMMA BestBefore ==
  ASSUME NEW n, Listed(n), NEW v, \A x \in Gateways : Eligible(n, x) => v[x] \in Nat,
         NEW i \in DOMAIN n.list,
         NEW b, b = BestOf(n, v, i)
  PROVE  /\ b \in Nat /\ \A x \in Before(n, i) : v[x] <= b
         /\ b = 0 \/ \E x \in Before(n, i) : v[x] = b
<1> DEFINE N == Len(n.list)
           f == [j \in 1..N |-> IF Eligible(n, n.list[j]) THEN v[n.list[j]] ELSE 0]
           T == {0} \cup {v[x] : x \in Before(n, i)}
           R == {0} \cup {f[j] : j \in 1..(i - 1)}
<1>1. n.list \in Seq(Gateways) /\ N \in Nat /\ DOMAIN n.list = 1..N /\ i \in 1..N
  BY DEF Listed
<1>2. \A j \in 1..N : n.list[j] \in Gateways
  BY <1>1
<1>3. f \in [1..N -> Nat]
  BY <1>2
<1>4. i - 1 \in 0..N /\ 1..(i - 1) \subseteq 1..N
  BY <1>1
<1>5. T = R
  <2>1. ASSUME NEW x \in Before(n, i) PROVE v[x] \in R
    <3>1. PICK j \in 1..(i - 1) : n.list[j] = x
      BY DEF Before
    <3>2. j \in 1..N /\ Eligible(n, x)
      BY <1>4 DEF Before
    <3>3. f[j] = v[x]
      BY <3>1, <3>2
    <3> QED
      BY <3>3
  <2>2. ASSUME NEW j \in 1..(i - 1) PROVE f[j] \in T
    <3>1. j \in 1..N
      BY <1>4
    <3>2. CASE Eligible(n, n.list[j])
      <4>1. n.list[j] \in Before(n, i)
        BY <1>2, <3>1, <3>2 DEF Before
      <4> QED
        BY <3>1, <3>2, <4>1
    <3>3. CASE ~Eligible(n, n.list[j])
      BY <3>1, <3>3
    <3> QED
      BY <3>2, <3>3
  <2> QED
    BY <2>1, <2>2
<1>6. \E u \in R : \A w \in R : u >= w
  BY <1>1, <1>3, <1>4, LargestExists
<1>7. \A w \in T : w \in Nat
  BY DEF Before
<1>8. b \in T /\ \A w \in T : b >= w
  <2> HIDE DEF T, R
  <2>1. b = Max(T)
    BY DEF T, BestOf
  <2> QED
    BY <1>5, <1>6, <2>1 DEF Max
<1>9. b \in Nat
  BY <1>7, <1>8
<1>10. \A x \in Before(n, i) : v[x] <= b
  <2> SUFFICES ASSUME NEW x \in Before(n, i) PROVE v[x] <= b
    OBVIOUS
  <2>1. v[x] \in T /\ v[x] \in Nat
    BY <1>7
  <2> QED
    BY <1>8, <1>9, <2>1
<1> QED
  BY <1>8, <1>9, <1>10

(* Who was taken last at position k has the best value of all: whoever comes *)
(* later and is better would have been taken.                                *)
LEMMA LastIsBest ==
  ASSUME NEW n, Listed(n), NEW v, \A x \in Gateways : Eligible(n, x) => v[x] \in Nat,
         NEW k \in DOMAIN n.list, Eligible(n, n.list[k]),
         v[n.list[k]] >= BestOf(n, v, k),
         \A i \in DOMAIN n.list : i > k /\ Eligible(n, n.list[i]) =>
             ~(v[n.list[i]] > BestOf(n, v, i))
  PROVE  \A x \in Gateways : Eligible(n, x) => v[x] <= v[n.list[k]]
<1> DEFINE N == Len(n.list)
           g == n.list[k]
           Beats(i) == Eligible(n, n.list[i]) /\ ~(v[n.list[i]] <= v[g])
           B == {i \in 1..N : Beats(i)}
<1>1. n.list \in Seq(Gateways) /\ N \in Nat /\ DOMAIN n.list = 1..N /\ k \in 1..N
  BY DEF Listed
<1>2. \A j \in 1..N : n.list[j] \in Gateways
  BY <1>1
<1>3. v[g] \in Nat
  BY <1>1, <1>2
<1>4. ASSUME B # {} PROVE FALSE
  <2>1. B \in SUBSET Nat
    BY <1>1
  <2>2. PICK i \in B : \A j \in B : i <= j
    BY <1>4, <2>1, LeastExists
  <2>3. i \in 1..N /\ Beats(i) /\ v[n.list[i]] \in Nat
    BY <1>2, <2>2
  <2> DEFINE b == BestOf(n, v, i)
             c == BestOf(n, v, k)
  <2>6. v[g] >= c /\ (i > k => ~(v[n.list[i]] > b))
    BY <1>1, <2>3
  <2>0. b = BestOf(n, v, i)
    OBVIOUS
  <2>5. /\ c \in Nat /\ \A x \in Before(n, k) : v[x] <= c
    BY <1>1, BestBefore
  <2> HIDE DEF b, c
  <2>4. /\ b \in Nat /\ \A x \in Before(n, i) : v[x] <= b
        /\ b = 0 \/ \E x \in Before(n, i) : v[x] = b
    BY <1>1, <2>0, <2>3, BestBefore
  <2>7. i \in Nat /\ k \in Nat /\ i # k
    BY <1>1, <1>3, <2>3
  <2>8. CASE i < k
    <3>1. i \in 1..(k - 1)
      BY <1>1, <2>3, <2>7, <2>8
    <3>2. n.list[i] \in Before(n, k)
      BY <1>2, <2>3, <3>1 DEF Before
    <3>3. v[n.list[i]] <= c
      BY <2>5, <3>2
    <3>4. v[n.list[i]] <= v[g]
      BY <1>3, <2>3, <2>5, <2>6, <3>3
    <3> QED
      BY <2>3, <3>4
  <2>9. CASE i > k
    <3>1. v[n.list[i]] <= b
      BY <2>3, <2>4, <2>6, <2>9
    <3>2. b # 0
      BY <1>3, <2>3, <3>1
    <3>3. PICK x \in Before(n, i) : v[x] = b
      BY <2>4, <3>2
    <3>4. PICK j \in 1..(i - 1) : n.list[j] = x
      BY <3>3 DEF Before
    <3>5. j \in 1..N /\ j < i /\ Eligible(n, n.list[j])
      BY <1>1, <2>3, <2>7, <3>3, <3>4 DEF Before
    <3>6. ~(v[n.list[j]] <= v[g])
      BY <1>3, <2>3, <2>4, <3>1, <3>3, <3>4
    <3>7. j \in B
      BY <3>5, <3>6
    <3>8. i <= j
      BY <2>2, <3>7
    <3> QED
      BY <2>7, <3>5, <3>8
  <2> QED
    BY <2>7, <2>8, <2>9
<1> SUFFICES ASSUME NEW x \in Gateways, Eligible(n, x) PROVE v[x] <= v[g]
  OBVIOUS
<1>5. PICK i \in 1..N : n.list[i] = x
  BY <1>1 DEF Listed, Eligible
<1>6. i \notin B
  BY <1>4
<1> QED
  BY <1>5, <1>6

(* The preferred gateway, if it can be chosen, or the one with the best      *)
(* metric, weighted by its class for the first routing class.                *)
LEMMA PickIsBest ==
  ASSUME RoutersOK, NEW n, Listed(n), NEW g, g = Pick(n), g # None
  PROVE  /\ g \in Gateways /\ Eligible(n, g)
         /\ n.pref \in Gateways /\ Eligible(n, n.pref) => g = n.pref
         /\ g # n.pref =>
              \A x \in Gateways : Eligible(n, x) =>
                  IF n.rt = 1 THEN Product(n, x) <= Product(n, g) ELSE router[x] <= router[g]
<1> DEFINE N == Len(n.list)
           k == Max(Taken(n))
<1>1. n.list \in Seq(Gateways) /\ N \in Nat /\ DOMAIN n.list = 1..N
  BY DEF Listed
<1>2. /\ g \in Gateways /\ Eligible(n, g) /\ g = n.list[k]
      /\ k \in Taken(n) /\ \A i \in Taken(n) : i <= k
  BY PickIs
<1> HIDE DEF k
<1>3. k \in 1..N /\ Takes(n, k)
  BY <1>1, <1>2 DEF Taken
<1>4. ASSUME n.pref \in Gateways, Eligible(n, n.pref), g # n.pref PROVE FALSE
  <2>1. PICK p \in 1..N : n.list[p] = n.pref
    BY <1>1, <1>4 DEF Listed, Eligible
  <2>2. n.pref \notin Before(n, p)
    <3> SUFFICES ASSUME NEW j \in 1..(p - 1), n.list[j] = n.pref PROVE FALSE
      BY DEF Before
    <3>1. j \in 1..N /\ j # p
      BY <1>1
    <3> QED
      BY <1>1, <2>1, <3>1 DEF Listed
  <2>3. p \in Taken(n)
    BY <1>1, <1>4, <2>1, <2>2 DEF Taken, Takes
  <2>4. p <= k /\ p # k
    BY <1>2, <1>4, <2>1, <2>3
  <2>5. p \in 1..(k - 1)
    BY <1>1, <1>3, <2>4
  <2>6. n.pref \in Before(n, k)
    BY <1>4, <2>1, <2>5 DEF Before
  <2> QED
    BY <1>3, <2>6 DEF Takes
<1>5. ASSUME g # n.pref
      PROVE  \A x \in Gateways : Eligible(n, x) =>
                 IF n.rt = 1 THEN Product(n, x) <= Product(n, g) ELSE router[x] <= router[g]
  <2>1. \A i : n.pref \notin Before(n, i)
    BY <1>4, <1>5 DEF Before
  <2>2. Better(n, n.list[k], Before(n, k))
    BY <1>2, <1>3, <1>5 DEF Takes
  <2>3. \A i \in 1..N : i > k /\ Eligible(n, n.list[i]) => ~Better(n, n.list[i], Before(n, i))
    <3> SUFFICES ASSUME NEW i \in 1..N, i > k, Eligible(n, n.list[i]), Better(n, n.list[i], Before(n, i))
                 PROVE  FALSE
      OBVIOUS
    <3>1. i \in Taken(n)
      BY <1>1, <2>1 DEF Taken, Takes
    <3> QED
      BY <1>1, <1>2, <1>3, <3>1
  <2>4. \A x \in Gateways : Eligible(n, x) => router[x] \in Nat /\ Product(n, x) \in Nat
    <3> SUFFICES ASSUME NEW x \in Gateways, Eligible(n, x)
                 PROVE  router[x] \in Nat /\ Product(n, x) \in Nat
      OBVIOUS
    <3>1. router[x] \in Nat
      BY DEF RoutersOK, Eligible
    <3>2. n.tuno[x].class \in Nat
      <4>1. n.tuno[x] \in Ads
        BY DEF Listed, Eligible
      <4>2. n.tuno[x] \in [twt : BOOLEAN, owt : BOOLEAN, class : Nat]
        BY <4>1, TunnelClientAssumption
      <4> QED
        BY <4>2
    <3> DEFINE a == router[x]
               c == n.tuno[x].class
    <3> HIDE DEF a, c
    <3>3. a * a * c \in Nat
      BY <3>1, <3>2 DEF a, c
    <3> QED
      BY <3>1, <3>3 DEF Product, a, c
  <2>5. Eligible(n, n.list[k]) /\ n.list[k] \in Gateways
    BY <1>2
  <2>6. CASE n.rt = 1
    <3> DEFINE v == [x \in Gateways |-> Product(n, x)]
    <3>1. \A x \in Gateways : v[x] = Product(n, x)
      OBVIOUS
    <3>2. \A i \in 1..N : BestOf(n, v, i) = BestProduct(n, Before(n, i))
      <4> SUFFICES ASSUME NEW i \in 1..N
                   PROVE  BestOf(n, v, i) = BestProduct(n, Before(n, i))
        OBVIOUS
      <4>1. {v[x] : x \in Before(n, i)} = {Product(n, x) : x \in Before(n, i)}
        BY DEF Before
      <4> QED
        BY <4>1 DEF BestProduct, BestOf
    <3>3. \A x \in Gateways : Eligible(n, x) => v[x] \in Nat
      BY <2>4
    <3> HIDE DEF v
    <3>4. \A i \in 1..N : BestOf(n, v, i) \in Nat
      <4> SUFFICES ASSUME NEW i \in 1..N PROVE BestOf(n, v, i) \in Nat
        OBVIOUS
      <4> DEFINE b == BestOf(n, v, i)
      <4>1. b = BestOf(n, v, i)
        OBVIOUS
      <4> HIDE DEF b
      <4>2. b \in Nat
        BY <1>1, <3>3, <4>1, BestBefore
      <4> QED
        BY <4>2 DEF b
    <3>5. v[n.list[k]] >= BestOf(n, v, k)
      BY <1>3, <2>2, <2>4, <2>5, <2>6, <3>1, <3>2, <3>4 DEF Better
    <3>6. \A i \in 1..N : i > k /\ Eligible(n, n.list[i]) =>
             ~(v[n.list[i]] > BestOf(n, v, i))
      BY <1>1, <2>3, <2>6, <3>1, <3>2 DEF Better
    <3>7. \A x \in Gateways : Eligible(n, x) => v[x] <= v[n.list[k]]
      BY <1>1, <1>3, <2>5, <3>3, <3>5, <3>6, LastIsBest
    <3> QED
      BY <1>2, <2>5, <2>6, <3>1, <3>7
  <2>7. CASE n.rt # 1
    <3>1. \A i \in 1..N : BestOf(n, router, i) \in Nat
      <4> SUFFICES ASSUME NEW i \in 1..N PROVE BestOf(n, router, i) \in Nat
        OBVIOUS
      <4> DEFINE b == BestOf(n, router, i)
      <4>1. b = BestOf(n, router, i)
        OBVIOUS
      <4> HIDE DEF b
      <4>2. b \in Nat
        BY <1>1, <2>4, <4>1, BestBefore
      <4> QED
        BY <4>2 DEF b
    <3>2. router[n.list[k]] >= BestOf(n, router, k)
      BY <1>3, <2>2, <2>4, <2>5, <2>7, <3>1 DEF Better, BestMetric, BestOf
    <3>3. \A i \in 1..N : i > k /\ Eligible(n, n.list[i]) =>
             ~(router[n.list[i]] > BestOf(n, router, i))
      BY <2>3, <2>7 DEF Better, BestMetric, BestOf
    <3>4. \A x \in Gateways : Eligible(n, x) => router[x] <= router[n.list[k]]
      BY <1>1, <1>3, <2>4, <2>5, <3>2, <3>3, LastIsBest
    <3> QED
      BY <1>2, <2>7, <3>4
  <2> QED
    BY <2>6, <2>7
<1> QED
  BY <1>2, <1>4, <1>5

(* The gateway that is chosen is the best of those that did not fail lately: *)
(* the preferred one, or by the routing class.                               *)
THEOREM BestIsChosen == Spec => ChoosesBest
<1> DEFINE Best ==
             node.curr = None /\ node'.curr # None =>
               LET g == node'.curr
                   open == {x \in Gateways : node.tuno[x] # None /\ Usable(node.tuno[x])
                                             /\ router[x] # NoRoute /\ ~Penalised(node, x)}
               IN  /\ g \in open
                   /\ node.pref \in open => g = node.pref
                   /\ g # node.pref =>
                        \A x \in open : IF node.rt = 1 THEN Product(node, x) <= Product(node, g)
                                        ELSE router[x] <= router[g]
<1>1. TunnelInv /\ [Next]_vars => [Best]_vars
  <2> SUFFICES ASSUME TunnelInv, Next, node.curr = None, node'.curr # None PROVE Best
    OBVIOUS
  <2>1. PICK step : Here /\ Choose(step)
    BY OnlyChoose
  <2>2. node'.curr = Pick(node)
    BY <2>1, ChooseStep
  <2>3. Listed(node) /\ RoutersOK
    BY StateFields DEF TunnelInv, Sound
  <2>4. \A x \in Gateways : Eligible(node, x) <=>
           node.tuno[x] # None /\ Usable(node.tuno[x]) /\ router[x] # NoRoute /\ ~Penalised(node, x)
    BY DEF Eligible
  <2> DEFINE g == node'.curr
  <2>5. /\ g \in Gateways /\ Eligible(node, g)
        /\ node.pref \in Gateways /\ Eligible(node, node.pref) => g = node.pref
        /\ g # node.pref =>
             \A x \in Gateways : Eligible(node, x) =>
                 IF node.rt = 1 THEN Product(node, x) <= Product(node, g) ELSE router[x] <= router[g]
    BY <2>2, <2>3, PickIsBest
  <2> HIDE DEF g
  <2>6. Best
    BY <2>4, <2>5 DEF g
  <2> QED
    BY <2>6
<1> QED
  BY <1>1, TunnelAlways, PTL DEF Spec, ChoosesBest
=============================================================================
