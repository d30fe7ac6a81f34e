--------------------------- MODULE RoutingProofs ---------------------------
(***************************************************************************)
(* Theorems about the kernel's tables and the announced networks: the      *)
(* registry never contradicts what is stored, the kernel has exactly what  *)
(* is tracked, networks follow their announcers, and the rules of          *)
(* interfaces are current as long as the checksum is.                      *)
(*                                                                         *)
(* The argument has three layers.  What add_del_route and its relatives do *)
(* to lists and kernel (Agrees).  What the operations of hna.c do to       *)
(* registry and routes (Sane, Carried), with the router by which networks  *)
(* were learnt as a parameter, since a handler changes the router before   *)
(* it learns them again.  And what every handler has restored when it is   *)
(* through (RoutingInv).                                                   *)
(***************************************************************************)
EXTENDS Routing, FiniteSetTheorems, TLAPS

(* Owners whose entries are there once. *)
Single == {"standard", "my_hna", "other_host", "other_hna"}

(* What is tracked and what the kernel has agree, and no two routes of a   *)
(* table have the same destination.                                        *)
KeysOf(list) == {e.key : e \in BagToSet(list)}

Agrees(k) ==
    /\ IsABag(k.routes)
    /\ {RouteKey(q) : q \in k.fib} = KeysOf(k.routes)
    /\ \A q, r \in k.fib : SamePlace(q, r) => q = r
    /\ \A q \in k.fib : q.type = "throw" => throw_rules
    /\ \A e \in BagToSet(k.routes) : e.track \in Single => k.routes[e] = 1

(* Nothing but the four fields.                                            *)
IsKernel(k) == k = [routes |-> k.routes, rules |-> k.rules, fib |-> k.fib, rpdb |-> k.rpdb]

(* The routes of a call that are not passed over. *)
Asked(S) == {r \in S : r.type = "throw" => throw_rules}

(* What (+) does to two bags that share no element.                        *)
LEMMA AddBag ==
  ASSUME NEW A, NEW B, IsABag(A), IsABag(B)
  PROVE  /\ IsABag(A (+) B)
         /\ BagToSet(A (+) B) = BagToSet(A) \cup BagToSet(B)
         /\ \A e \in BagToSet(A) : e \notin BagToSet(B) => (A (+) B)[e] = A[e]
         /\ \A e \in BagToSet(B) : e \notin BagToSet(A) => (A (+) B)[e] = B[e]
BY DEF IsABag, BagToSet, (+)

(* Throw routes are passed over when throw routes are disabled.            *)
LEMMA WantedBag ==
  ASSUME NEW bag, IsABag(bag)
  PROVE  /\ IsABag(Wanted(bag)) /\ BagToSet(Wanted(bag)) = Asked(BagToSet(bag))
         /\ \A r \in BagToSet(Wanted(bag)) : Wanted(bag)[r] = bag[r]
BY DEF IsABag, BagToSet, Wanted, Only, Asked

(* A set as a bag has each element once.                                   *)
LEMMA SetBag ==
  ASSUME NEW S
  PROVE  IsABag(SetToBag(S)) /\ BagToSet(SetToBag(S)) = S /\ \A e \in S : SetToBag(S)[e] = 1
BY DEF IsABag, BagToSet, SetToBag

(* Routes with one key have one place, and an entry tells key and owner.   *)
LEMMA SameKey ==
  ASSUME NEW q, NEW r
  PROVE  /\ RouteKey(q) = RouteKey(r) <=> q.dest = r.dest /\ q.table = r.table /\ q.type = r.type
         /\ RouteKey(q) = RouteKey(r) => SamePlace(q, r)
         /\ \A t, u : Entry(RouteKey(q), t) = Entry(RouteKey(r), u) <=>
                        RouteKey(q) = RouteKey(r) /\ t = u
         /\ \A t : Entry(RouteKey(q), t).key = RouteKey(q) /\ Entry(RouteKey(q), t).track = t
BY DEF RouteKey, SamePlace, Entry

(* The entries for routes of different places, counted as the routes are.  *)
LEMMA EntriesBag ==
  ASSUME NEW bag, IsABag(bag), NEW track,
         \A r, s \in BagToSet(bag) : SamePlace(r, s) => r = s
  PROVE  /\ IsABag(Entries(bag, track))
         /\ BagToSet(Entries(bag, track)) = {Entry(RouteKey(r), track) : r \in BagToSet(bag)}
         /\ \A r \in BagToSet(bag) : Entries(bag, track)[Entry(RouteKey(r), track)] = bag[r]
<1>1. \A r \in BagToSet(bag) :
        (CHOOSE s \in BagToSet(bag) : RouteKey(s) = Entry(RouteKey(r), track).key) = r
  BY SameKey
<1>2. \A r \in BagToSet(bag) : Entries(bag, track)[Entry(RouteKey(r), track)] = bag[r]
  BY <1>1 DEF Entries
<1>3. BagToSet(Entries(bag, track)) = {Entry(RouteKey(r), track) : r \in BagToSet(bag)}
  BY DEF Entries, BagToSet
<1>4. \A r \in BagToSet(bag) : bag[r] \in Nat /\ bag[r] > 0
  BY DEF IsABag, BagToSet
<1>5. IsABag(Entries(bag, track))
  <2> DEFINE F == Entries(bag, track)
  <2>1. F = [e \in DOMAIN F |-> F[e]]
    BY DEF Entries
  <2>2. \A e \in DOMAIN F : F[e] \in {n \in Nat : n > 0}
    BY <1>2, <1>3, <1>4 DEF BagToSet
  <2> HIDE DEF F
  <2>3. F \in [DOMAIN F -> {n \in Nat : n > 0}]
    BY <2>1, <2>2
  <2> QED
    BY <2>3 DEF IsABag, F
<1> QED
  BY <1>2, <1>3, <1>5

(* What add_del_route leaves alone when it adds.                           *)
LEMMA AddFields ==
  ASSUME NEW k, IsKernel(k), NEW bag, NEW track, NEW j, j = AddRoutes(k, bag, track)
  PROVE  /\ IsKernel(j) /\ j.rules = k.rules /\ j.rpdb = k.rpdb
         /\ j.routes = k.routes (+) Entries(Wanted(bag), track)
<1> DEFINE E == Entries(Wanted(bag), track)
           rs == {r \in BagToSet(Wanted(bag)) : Found(k.routes, RouteKey(r)) = {}}
<1>1. j = [k EXCEPT !.routes = @ (+) E, !.fib = FibAdd(@, rs)]
  BY DEF AddRoutes
<1> HIDE DEF E, rs
<1>2. IsKernel(j) /\ j.rules = k.rules /\ j.rpdb = k.rpdb /\ j.routes = k.routes (+) E
  BY <1>1 DEF IsKernel
<1> QED
  BY <1>2 DEF E

(* What add_del_route leaves alone when it deletes: only entries of the    *)
(* owner go.                                                               *)
LEMMA DelFields ==
  ASSUME NEW k, IsKernel(k), NEW rs, NEW track, NEW j, j = DelRoutes(k, rs, track)
  PROVE  /\ IsKernel(j) /\ j.rules = k.rules /\ j.rpdb = k.rpdb
         /\ \E G : /\ \A e \in G : e.track = track
                   /\ j.routes = k.routes (-) SetToBag(G)
<1> DEFINE old == BagToSet(Wanted(SetToBag(rs)))
           G == {Entry(RouteKey(r), track) : r \in old}
           last == {r \in old : LastOne(k.routes, RouteKey(r), track)}
<1>1. j = [k EXCEPT !.routes = @ (-) SetToBag(G), !.fib = FibDel(@, last)]
  BY DEF DelRoutes
<1>2. \A e \in G : e.track = track
  BY DEF Entry
<1> HIDE DEF G, last
<1>3. IsKernel(j) /\ j.rules = k.rules /\ j.rpdb = k.rpdb /\ j.routes = k.routes (-) SetToBag(G)
  BY <1>1 DEF IsKernel
<1> QED
  BY <1>2, <1>3

(* flush_tracked_routes drops the entries of the owners named.             *)
LEMMA FlushFields ==
  ASSUME NEW k, IsKernel(k), NEW tracks, NEW f, f = FlushTrackedRoutes(k, tracks)
  PROVE  /\ IsKernel(f) /\ f.rules = k.rules /\ f.rpdb = k.rpdb
         /\ f.routes = [e \in {x \in BagToSet(k.routes) : x.track \notin tracks} |-> k.routes[e]]
<1> DEFINE keep == [e \in {x \in BagToSet(k.routes) : x.track \notin tracks} |-> k.routes[e]]
           gone == {e.key : e \in BagToSet(k.routes)} \ {e.key : e \in BagToSet(keep)}
           fib == {q \in k.fib : ~\E x \in gone : SamePlace(q, x)}
<1>1. f = [k EXCEPT !.routes = keep, !.fib = fib]
  BY DEF FlushTrackedRoutes, Only
<1> HIDE DEF fib, keep
<1>2. IsKernel(f) /\ f.routes = keep /\ f.rules = k.rules /\ f.rpdb = k.rpdb
  BY <1>1 DEF IsKernel
<1> QED
  BY <1>2 DEF keep

(* flush_tracked_routes for rules keeps the shape of the tables.           *)
LEMMA FlushRulesKernel ==
  ASSUME NEW k, IsKernel(k), NEW tracks
  PROVE  IsKernel(FlushTrackedRules(k, tracks))
<1> DEFINE j == FlushTrackedRules(k, tracks)
           keep == [e \in {x \in BagToSet(k.rules) : x.track \notin tracks} |-> k.rules[e]]
           gone == {e.key : e \in BagToSet(k.rules)} \ {e.key : e \in BagToSet(keep)}
<1>1. j = [k EXCEPT !.rules = keep, !.rpdb = @ \ gone]
  BY DEF FlushTrackedRules, Only
<1> HIDE DEF j, keep, gone
<1>2. IsKernel(j)
  BY <1>1 DEF IsKernel
<1> QED
  BY <1>2 DEF j

(* Adding keeps tracking and kernel in agreement, provided a route the     *)
(* kernel has in the place of a new one has its key too: then the request  *)
(* is refused only when another owner has asked for the same.              *)
LEMMA AddAgrees ==
  ASSUME NEW k, IsKernel(k), Agrees(k), NEW bag, IsABag(bag), NEW track,
         NEW new, new = Asked(BagToSet(bag)),
         \A r, s \in new : SamePlace(r, s) => r = s,
         \A r \in new : \A q \in k.fib : SamePlace(q, r) => RouteKey(q) = RouteKey(r),
         track \in Single =>
            \A r \in new : bag[r] = 1 /\ Entry(RouteKey(r), track) \notin BagToSet(k.routes),
         NEW j, j = AddRoutes(k, bag, track)
  PROVE  /\ IsKernel(j) /\ Agrees(j)
         /\ BagToSet(j.routes) =
              BagToSet(k.routes) \cup {Entry(RouteKey(r), track) : r \in new}
         /\ j.fib = k.fib \cup {r \in new : RouteKey(r) \notin KeysOf(k.routes)}
         /\ j.rules = k.rules /\ j.rpdb = k.rpdb
<1> DEFINE W == Wanted(bag)
           E == Entries(W, track)
<1>1. IsABag(W) /\ BagToSet(W) = new /\ \A r \in new : W[r] = bag[r]
  BY WantedBag
<1>2. /\ IsABag(E) /\ BagToSet(E) = {Entry(RouteKey(r), track) : r \in new}
      /\ \A r \in new : E[Entry(RouteKey(r), track)] = bag[r]
  BY <1>1, EntriesBag
<1>3. /\ IsKernel(j) /\ j.routes = k.routes (+) E /\ j.rules = k.rules /\ j.rpdb = k.rpdb
      /\ j.fib = FibAdd(k.fib, {r \in new : Found(k.routes, RouteKey(r)) = {}})
  BY <1>1 DEF AddRoutes, IsKernel
<1>4. IsABag(k.routes)
  BY DEF Agrees
<1>5. /\ IsABag(j.routes)
      /\ BagToSet(j.routes) = BagToSet(k.routes) \cup {Entry(RouteKey(r), track) : r \in new}
  BY <1>2, <1>3, <1>4, AddBag
<1>6. \A key : Found(k.routes, key) = {} <=> key \notin KeysOf(k.routes)
  BY DEF Found, KeysOf
<1>7. ASSUME NEW r \in new, RouteKey(r) \notin KeysOf(k.routes)
      PROVE  ~\E q \in k.fib : SamePlace(q, r)
  BY <1>7 DEF Agrees
<1>8. j.fib = k.fib \cup {r \in new : RouteKey(r) \notin KeysOf(k.routes)}
  BY <1>3, <1>6, <1>7 DEF FibAdd
<1>9. {RouteKey(q) : q \in j.fib} = KeysOf(j.routes)
  <2>1. KeysOf(j.routes) = KeysOf(k.routes) \cup {RouteKey(r) : r \in new}
    BY <1>5, SameKey DEF KeysOf
  <2> QED
    BY <2>1, <1>8 DEF Agrees
<1>10. \A q, r \in j.fib : SamePlace(q, r) => q = r
  BY <1>8, <1>7 DEF Agrees, SamePlace
<1>11. ASSUME NEW e \in BagToSet(j.routes), e.track \in Single
       PROVE  j.routes[e] = 1
  <2>1. CASE e \in BagToSet(k.routes)
    <3>1. e \notin BagToSet(E)
      BY <2>1, <1>2, <1>11, SameKey
    <3> QED
      BY <3>1, <2>1, <1>2, <1>3, <1>4, <1>11, AddBag DEF Agrees
  <2>2. CASE e \notin BagToSet(k.routes)
    <3>1. PICK r \in new : e = Entry(RouteKey(r), track)
      BY <2>2, <1>5
    <3>2. bag[r] = 1
      BY <3>1, <1>11, SameKey
    <3> QED
      BY <3>1, <3>2, <2>2, <1>2, <1>3, <1>4, AddBag
  <2> QED
    BY <2>1, <2>2
<1>12. \A q \in j.fib : q.type = "throw" => throw_rules
  BY <1>8 DEF Agrees, Asked
<1> QED
  BY <1>3, <1>5, <1>8, <1>9, <1>10, <1>11, <1>12 DEF Agrees

(* Deleting keeps them in agreement, provided the request names the        *)
(* gateway and source the kernel has: the route goes with its last owner.  *)
LEMMA DelAgrees ==
  ASSUME NEW k, IsKernel(k), Agrees(k), NEW rs, NEW track \in Single,
         \A r \in rs : \A q \in k.fib : RouteKey(q) = RouteKey(r) =>
                                          r.gw \in {None, q.gw} /\ r.src \in {None, q.src},
         NEW j, j = DelRoutes(k, rs, track)
  PROVE  /\ IsKernel(j) /\ Agrees(j)
         /\ BagToSet(j.routes) =
              BagToSet(k.routes) \ {Entry(RouteKey(r), track) : r \in Asked(rs)}
         /\ j.fib = {q \in k.fib : RouteKey(q) \in KeysOf(j.routes)}
         /\ j.rules = k.rules /\ j.rpdb = k.rpdb
<1> DEFINE old == Asked(rs)
           gone == {Entry(RouteKey(r), track) : r \in old}
           last == {r \in old : LastOne(k.routes, RouteKey(r), track)}
<1>1. BagToSet(Wanted(SetToBag(rs))) = old
  BY WantedBag, SetBag
<1>2. /\ IsKernel(j) /\ j.routes = k.routes (-) SetToBag(gone)
      /\ j.rules = k.rules /\ j.rpdb = k.rpdb
      /\ j.fib = FibDel(k.fib, last)
  BY <1>1 DEF DelRoutes, IsKernel
<1>3. IsABag(k.routes)
  BY DEF Agrees
<1>4. \A e \in gone : e \in BagToSet(k.routes) => k.routes[e] = 1
  <2>1. \A e \in gone : e.track = track
    BY DEF Entry
  <2> QED
    BY <2>1 DEF Agrees
<1>5. /\ IsABag(j.routes) /\ BagToSet(j.routes) = BagToSet(k.routes) \ gone
      /\ \A e \in BagToSet(j.routes) : j.routes[e] = k.routes[e]
  <2> DEFINE B == [e \in DOMAIN k.routes |-> IF e \in gone THEN k.routes[e] - 1 ELSE k.routes[e]]
  <2>1. j.routes = [e \in {d \in DOMAIN B : B[d] > 0} |-> B[e]]
    BY <1>2 DEF SetToBag, (-)
  <2>2. \A e \in DOMAIN k.routes : k.routes[e] \in Nat /\ k.routes[e] > 0
    BY <1>3 DEF IsABag
  <2>3. {d \in DOMAIN B : B[d] > 0} = DOMAIN k.routes \ gone
    BY <2>2, <1>4 DEF BagToSet
  <2> QED
    BY <2>1, <2>2, <2>3 DEF IsABag, BagToSet
<1>6. \A r \in last : Found(k.routes, RouteKey(r)) = {Entry(RouteKey(r), track)}
  BY DEF LastOne
<1>7. j.fib = {q \in k.fib : RouteKey(q) \in KeysOf(j.routes)}
  <2>1. ASSUME NEW q \in k.fib, RouteKey(q) \in KeysOf(j.routes)
        PROVE  q \in j.fib
    <3>1. SUFFICES ASSUME NEW r \in last, SamePlace(q, r) PROVE FALSE
      BY <1>2 DEF FibDel
    <3>2. RouteKey(r) \in KeysOf(k.routes)
      BY <1>6, SameKey DEF Found, KeysOf
    <3>3. PICK p \in k.fib : RouteKey(p) = RouteKey(r)
      BY <3>2 DEF Agrees
    <3>4. SamePlace(p, r) /\ p = q
      BY <3>1, <3>3, SameKey DEF Agrees, SamePlace
    <3>5. PICK e \in BagToSet(j.routes) : e.key = RouteKey(r)
      BY <2>1, <3>3, <3>4 DEF KeysOf
    <3>6. e \in Found(k.routes, RouteKey(r))
      BY <3>5, <1>5 DEF Found
    <3>7. e \in gone
      BY <3>6, <1>6
    <3> QED
      BY <3>7, <3>5, <1>5
  <2>2. ASSUME NEW q \in j.fib
        PROVE  q \in k.fib /\ RouteKey(q) \in KeysOf(j.routes)
    <3>1. q \in k.fib
      BY <1>2 DEF FibDel
    <3>2. PICK e \in BagToSet(k.routes) : e.key = RouteKey(q)
      BY <3>1 DEF Agrees, KeysOf
    <3>3. CASE e \notin gone
      BY <3>1, <3>2, <3>3, <1>5 DEF KeysOf
    <3>4. CASE e \in gone
      <4>1. PICK r \in old : e = Entry(RouteKey(r), track)
        BY <3>4
      <4>2. RouteKey(q) = RouteKey(r)
        BY <3>2, <4>1, SameKey
      <4>3. r.gw \in {None, q.gw} /\ r.src \in {None, q.src} /\ SamePlace(q, r)
        BY <4>2, <3>1, SameKey DEF Asked
      <4>4. ~ LastOne(k.routes, RouteKey(r), track)
        BY <4>3, <1>2 DEF FibDel
      <4>5. Found(k.routes, RouteKey(r)) # {e}
        BY <4>4, <4>1, <1>4, <3>4 DEF LastOne
      <4>6. PICK f \in BagToSet(k.routes) : f # e /\ f.key = RouteKey(q)
        BY <4>5, <3>2, <4>2 DEF Found
      <4>7. f \notin gone
        BY <4>6, <4>1, <4>2 DEF Entry
      <4> QED
        BY <4>6, <4>7, <3>1, <1>5 DEF KeysOf
    <3> QED
      BY <3>3, <3>4
  <2> QED
    BY <2>1, <2>2
<1>8. {RouteKey(q) : q \in j.fib} = KeysOf(j.routes)
  <2>1. KeysOf(j.routes) \subseteq KeysOf(k.routes)
    BY <1>5 DEF KeysOf
  <2> QED
    BY <2>1, <1>7 DEF Agrees
<1> QED
  BY <1>2, <1>5, <1>7, <1>8 DEF Agrees

(* The same for one route that is not passed over.                         *)
LEMMA DelOne ==
  ASSUME NEW k, IsKernel(k), Agrees(k), NEW r, Asked({r}) = {r}, NEW track \in Single,
         \A q \in k.fib : RouteKey(q) = RouteKey(r) =>
                            r.gw \in {None, q.gw} /\ r.src \in {None, q.src},
         NEW j, j = DelRoute(k, r, track)
  PROVE  /\ IsKernel(j) /\ Agrees(j)
         /\ BagToSet(j.routes) = BagToSet(k.routes) \ {Entry(RouteKey(r), track)}
         /\ j.fib = {q \in k.fib : RouteKey(q) \in KeysOf(j.routes)}
         /\ j.rules = k.rules /\ j.rpdb = k.rpdb
<1> DEFINE rs == {r}
<1>1. /\ \A x \in rs : \A q \in k.fib : RouteKey(q) = RouteKey(x) =>
                                   x.gw \in {None, q.gw} /\ x.src \in {None, q.src}
      /\ j = DelRoutes(k, rs, track)
  BY DEF DelRoute
<1>2. {Entry(RouteKey(x), track) : x \in Asked(rs)} = {Entry(RouteKey(r), track)}
  OBVIOUS
<1> HIDE DEF rs
<1> QED
  BY <1>1, <1>2, DelAgrees

(* The same for one route that is not passed over.                         *)
LEMMA AddOne ==
  ASSUME NEW k, IsKernel(k), Agrees(k), NEW r, Asked({r}) = {r}, NEW track \in Single,
         \A q \in k.fib : SamePlace(q, r) => RouteKey(q) = RouteKey(r),
         Entry(RouteKey(r), track) \notin BagToSet(k.routes),
         NEW j, j = AddRoute(k, r, track)
  PROVE  /\ IsKernel(j) /\ Agrees(j)
         /\ BagToSet(j.routes) = BagToSet(k.routes) \cup {Entry(RouteKey(r), track)}
         /\ j.fib = k.fib \cup {x \in {r} : RouteKey(x) \notin KeysOf(k.routes)}
         /\ j.rules = k.rules /\ j.rpdb = k.rpdb
<1> DEFINE bag == SetToBag({r})
           new == {r}
<1>1. IsABag(bag) /\ BagToSet(bag) = {r} /\ bag[r] = 1
  BY SetBag
<1>2. /\ new = Asked(BagToSet(bag)) /\ j = AddRoutes(k, bag, track)
      /\ \A x, y \in new : SamePlace(x, y) => x = y
  BY <1>1 DEF AddRoute
<1>3. \A x \in new : \A q \in k.fib : SamePlace(q, x) => RouteKey(q) = RouteKey(x)
  OBVIOUS
<1>4. \A x \in new : bag[x] = 1 /\ Entry(RouteKey(x), track) \notin BagToSet(k.routes)
  BY <1>1
<1> HIDE DEF bag, new
<1>5. /\ IsKernel(j) /\ Agrees(j)
      /\ BagToSet(j.routes) = BagToSet(k.routes) \cup {Entry(RouteKey(x), track) : x \in new}
      /\ j.fib = k.fib \cup {x \in new : RouteKey(x) \notin KeysOf(k.routes)}
      /\ j.rules = k.rules /\ j.rpdb = k.rpdb
  BY <1>1, <1>2, <1>3, <1>4, AddAgrees
<1> QED
  BY <1>5 DEF new

(* Flushing what some owners asked for keeps them in agreement.            *)
LEMMA FlushAgrees ==
  ASSUME NEW k, IsKernel(k), Agrees(k), NEW tracks,
         NEW j, j = FlushTrackedRoutes(k, tracks)
  PROVE  /\ IsKernel(j) /\ Agrees(j)
         /\ BagToSet(j.routes) = {e \in BagToSet(k.routes) : e.track \notin tracks}
         /\ j.fib = {q \in k.fib : RouteKey(q) \in KeysOf(j.routes)}
         /\ \A e \in BagToSet(j.routes) : j.routes[e] = k.routes[e]
         /\ j.rules = k.rules /\ j.rpdb = k.rpdb
<1> DEFINE gone == KeysOf(k.routes) \ KeysOf(j.routes)
<1>1. /\ IsKernel(j) /\ j.rules = k.rules /\ j.rpdb = k.rpdb
      /\ j.routes = [e \in {x \in DOMAIN k.routes : x.track \notin tracks} |-> k.routes[e]]
      /\ j.fib = {q \in k.fib : ~\E x \in gone : SamePlace(q, x)}
  BY DEF FlushTrackedRoutes, IsKernel, Only, BagToSet, KeysOf
<1>2. /\ BagToSet(j.routes) = {e \in BagToSet(k.routes) : e.track \notin tracks}
      /\ \A e \in BagToSet(j.routes) : j.routes[e] = k.routes[e]
      /\ IsABag(j.routes)
  BY <1>1 DEF BagToSet, IsABag, Agrees
<1>3. ASSUME NEW q \in k.fib, NEW x \in KeysOf(k.routes)
      PROVE  SamePlace(q, x) <=> x = RouteKey(q)
  <2>1. PICK p \in k.fib : RouteKey(p) = x
    BY DEF Agrees
  <2>2. SamePlace(q, x) <=> SamePlace(q, p)
    BY <2>1 DEF SamePlace, RouteKey
  <2> QED
    BY <2>1, <2>2, SameKey DEF Agrees, SamePlace
<1>4. j.fib = {q \in k.fib : RouteKey(q) \in KeysOf(j.routes)}
  <2>1. \A q \in k.fib : RouteKey(q) \in KeysOf(k.routes)
    BY DEF Agrees
  <2> QED
    BY <1>1, <1>3, <2>1
<1>5. KeysOf(j.routes) \subseteq KeysOf(k.routes)
  BY <1>2 DEF KeysOf
<1>6. {RouteKey(q) : q \in j.fib} = KeysOf(j.routes)
  BY <1>4, <1>5 DEF Agrees
<1> QED
  BY <1>1, <1>2, <1>4, <1>6 DEF Agrees

-----------------------------------------------------------------------------
(* The state the functions of hna.c work on, with its types.               *)
IsState(s) ==
    /\ s = [reg |-> s.reg, hna |-> s.hna, router |-> s.router, kt |-> s.kt, bad |-> s.bad]
    /\ s.reg \in [AllNets -> Origs \cup {Me, None}]
    /\ s.hna \in [Origs -> SUBSET Nets]
    /\ s.router \in [Origs -> Neighbours \cup {None}]

(* Registry and stored announcements say the same, and nobody noticed      *)
(* otherwise.                                                              *)
Consistent(s) ==
    /\ ~s.bad
    /\ \A o \in Origs : s.hna[o] = {n \in AllNets : s.reg[n] = o}

Sane(s) == IsState(s) /\ Consistent(s)

(* update_routes does not touch the announcements.                         *)
LEMMA SetRouterSane ==
  ASSUME NEW s, Sane(s), NEW o \in Origs, NEW gw \in Neighbours \cup {None},
         NEW t, t = SetRouter(s, o, gw)
  PROVE  /\ Sane(t)
         /\ t.reg = s.reg /\ t.hna = s.hna /\ t.router = [s.router EXCEPT ![o] = gw]
<1>1. CASE gw = s.router[o]
  BY <1>1 DEF SetRouter, Sane, IsState
<1>2. CASE gw # s.router[o]
  <2>1. \E k : t = [s EXCEPT !.router[o] = gw, !.kt = k]
    BY <1>2 DEF SetRouter
  <2>2. /\ t = [reg |-> t.reg, hna |-> t.hna, router |-> t.router, kt |-> t.kt, bad |-> t.bad]
        /\ t.reg = s.reg /\ t.hna = s.hna /\ t.router = [s.router EXCEPT ![o] = gw]
        /\ t.bad = s.bad
    BY <2>1 DEF Sane, IsState
  <2> QED
    BY <2>2 DEF Sane, IsState, Consistent
<1> QED
  BY <1>1, <1>2

(* What update_other_hna without networks does to an originator that has   *)
(* some.                                                                   *)
Forgotten(s, o, t) ==
    /\ Sane(t) /\ t.router = s.router
    /\ t.hna[o] = {} /\ \A p \in Origs : p # o => t.hna[p] = s.hna[p]
    /\ \A n \in AllNets : t.reg[n] = IF s.reg[n] = o THEN None ELSE s.reg[n]
    /\ t.kt = DelRoutes(s.kt, {OtherRoute(n, None) : n \in s.hna[o]}, "other_hna")

(* It finds all its networks in the registry, so nothing is inconsistent.  *)
LEMMA ForgetSane ==
  ASSUME NEW s, Sane(s), NEW o \in Origs, s.hna[o] # {}, NEW t, t = Forget(s, o)
  PROVE  Forgotten(s, o, t)
<1>1. {n \in s.hna[o] : s.reg[n] = o} = s.hna[o]
  BY DEF Sane, Consistent
<1>2. t = [s EXCEPT
            !.bad = @ \/ s.hna[o] = {},
            !.hna[o] = {},
            !.reg = [n \in AllNets |-> IF n \in s.hna[o] THEN None ELSE @[n]],
            !.kt = DelRoutes(@, {OtherRoute(n, None) : n \in s.hna[o]}, "other_hna")]
  BY <1>1 DEF Forget
<1>3. /\ t = [reg |-> t.reg, hna |-> t.hna, router |-> t.router, kt |-> t.kt, bad |-> t.bad]
      /\ ~t.bad /\ t.hna = [s.hna EXCEPT ![o] = {}] /\ t.router = s.router
      /\ t.reg = [n \in AllNets |-> IF n \in s.hna[o] THEN None ELSE s.reg[n]]
      /\ t.kt = DelRoutes(s.kt, {OtherRoute(n, None) : n \in s.hna[o]}, "other_hna")
  BY <1>2 DEF Sane, IsState, Consistent
<1>4. \A n \in AllNets : t.reg[n] = IF s.reg[n] = o THEN None ELSE s.reg[n]
  BY <1>3 DEF Sane, Consistent
<1>5. IsState(t)
  BY <1>3 DEF Sane, IsState
<1>6. Consistent(t)
  BY <1>3, <1>4, HnaAssumption DEF Sane, IsState, Consistent
<1> QED
  BY <1>3, <1>4, <1>5, <1>6 DEF Sane, IsState, Forgotten

(* What update_other_hna with networks does to an originator that has      *)
(* none.                                                                   *)
Learnt(s, o, nets, t) ==
    /\ Sane(t) /\ t.router = s.router /\ t.hna = [s.hna EXCEPT ![o] = nets]
    /\ \A n \in AllNets : t.reg[n] = IF n \in nets THEN o ELSE s.reg[n]
    /\ t.kt = AddRoutes(s.kt, SetToBag({OtherRoute(n, s.router[o]) : n \in nets}), "other_hna")

(* When they are free it takes them all, so nothing is inconsistent.       *)
LEMMA LearnSane ==
  ASSUME NEW s, Sane(s), NEW o \in Origs, s.hna[o] = {},
         NEW nets \in SUBSET Nets, \A n \in nets : s.reg[n] = None,
         NEW t, t = Learn(s, o, nets)
  PROVE  Learnt(s, o, nets, t)
<1>1. {n \in nets : s.reg[n] = None} = nets
  OBVIOUS
<1>2. t = [s EXCEPT
            !.bad = @ \/ s.hna[o] # {} \/ nets # nets,
            !.hna[o] = nets,
            !.reg = [n \in AllNets |-> IF n \in nets THEN o ELSE @[n]],
            !.kt = AddRoutes(@, SetToBag({OtherRoute(n, s.router[o]) : n \in nets}),
                             "other_hna")]
  BY <1>1 DEF Learn
<1>3. /\ t = [reg |-> t.reg, hna |-> t.hna, router |-> t.router, kt |-> t.kt, bad |-> t.bad]
      /\ ~t.bad /\ t.hna = [s.hna EXCEPT ![o] = nets] /\ t.router = s.router
      /\ t.reg = [n \in AllNets |-> IF n \in nets THEN o ELSE s.reg[n]]
      /\ t.kt = AddRoutes(s.kt, SetToBag({OtherRoute(n, s.router[o]) : n \in nets}),
                             "other_hna")
  BY <1>2 DEF Sane, IsState, Consistent
<1>4. IsState(t)
  BY <1>3 DEF Sane, IsState
<1>5. Consistent(t)
  BY <1>3, HnaAssumption DEF Sane, IsState, Consistent, AllNets
<1> QED
  BY <1>3, <1>4, <1>5 DEF Sane, IsState, Learnt

(* What opt_hna does with networks to announce.                            *)
Announced(s, own, t) ==
    /\ Sane(t) /\ t.hna = s.hna /\ t.router = s.router
    /\ \A n \in AllNets : t.reg[n] = IF n \in own THEN Me ELSE s.reg[n]
    /\ t.kt = AddRoutes(s.kt, SetToBag(UNION {OwnRoutes(n) : n \in own}), "my_hna")

(* Free networks may be announced.                                         *)
LEMMA AddOwnSane ==
  ASSUME NEW s, Sane(s), NEW own \in SUBSET OwnNets, \A n \in own : s.reg[n] = None,
         NEW t, t = AddOwn(s, own)
  PROVE  Announced(s, own, t)
<1>1. /\ t = [reg |-> t.reg, hna |-> t.hna, router |-> t.router, kt |-> t.kt, bad |-> t.bad]
      /\ t.bad = s.bad /\ t.hna = s.hna /\ t.router = s.router
      /\ t.reg = [n \in AllNets |-> IF n \in own THEN Me ELSE s.reg[n]]
      /\ t.kt = AddRoutes(s.kt, SetToBag(UNION {OwnRoutes(n) : n \in own}), "my_hna")
  BY DEF AddOwn, Sane, IsState
<1>2. IsState(t)
  BY <1>1 DEF Sane, IsState
<1>3. Consistent(t)
  BY <1>1, HnaAssumption DEF Sane, IsState, Consistent
<1> QED
  BY <1>1, <1>2, <1>3 DEF Sane, Announced

(* An own network may be given up.                                         *)
LEMMA DelOwnSane ==
  ASSUME NEW s, Sane(s), NEW n \in OwnNets, s.reg[n] = Me, NEW t, t = DelOwn(s, n)
  PROVE  /\ Sane(t) /\ t.hna = s.hna /\ t.router = s.router
         /\ t.reg = [s.reg EXCEPT ![n] = None]
         /\ t.kt = DelRoutes(s.kt, OwnRoutes(n), "my_hna")
<1>1. /\ t = [reg |-> t.reg, hna |-> t.hna, router |-> t.router, kt |-> t.kt, bad |-> t.bad]
      /\ t.bad = s.bad /\ t.hna = s.hna /\ t.router = s.router
      /\ t.reg = [s.reg EXCEPT ![n] = None]
      /\ t.kt = DelRoutes(s.kt, OwnRoutes(n), "my_hna")
  BY DEF DelOwn, Sane, IsState
<1>2. IsState(t)
  BY <1>1 DEF Sane, IsState
<1>3. Consistent(t)
  BY <1>1, HnaAssumption DEF Sane, IsState, Consistent, AllNets
<1> QED
  BY <1>1, <1>2, <1>3 DEF Sane

-----------------------------------------------------------------------------
(* Networks of which interface rules and --throw make throw routes.        *)
LocalNets == LanNets \cup {LoNet} \cup ThrowNets

(* The assumption under which tables can be kept: the address of an        *)
(* originator is no network of this node, and what others announce is no   *)
(* local network of this node.  Without it two owners want different       *)
(* routes in one place of a table, and the kernel refuses the second       *)
(* (NLM_F_EXCL) although it is tracked.                                    *)
Disjoint ==
    /\ Origs \cap (OwnNets \cup LocalNets) = {}
    /\ Nets \cap LocalNets = {}

(* The keys of the three kinds of routes.                                  *)
HostKey(o) == RouteKey(HostRoute(o, None, None))
OtherKey(n) == RouteKey(OtherRoute(n, None))
LocalKey(n, t) == RouteKey(Throw(n, t))

(* Who owns an entry: a route to a host for each originator with a         *)
(* router, one to a network for each that has an announcer; throw routes   *)
(* for own networks and for local ones.                                    *)
Owned(k, reg, rt) ==
    /\ \A e \in BagToSet(k.routes) :
          \/ \E o \in Origs : rt[o] # None /\ e = Entry(HostKey(o), "other_host")
          \/ \E n \in Nets : reg[n] \in Origs /\ e = Entry(OtherKey(n), "other_hna")
          \/ \E n \in OwnNets, t \in Tables : reg[n] = Me /\ e = Entry(LocalKey(n, t), "my_hna")
          \/ \E n \in LocalNets, t \in Tables : e = Entry(LocalKey(n, t), "my_net")
    /\ \A o \in Origs : rt[o] # None => Entry(HostKey(o), "other_host") \in BagToSet(k.routes)
    /\ \A n \in Nets : reg[n] \in Origs => Entry(OtherKey(n), "other_hna") \in BagToSet(k.routes)

(* A host is reached by its router, a network by the router its announcer  *)
(* had when it was learnt.                                                 *)
Routed(k, reg, rt, via) ==
    /\ \A q \in k.fib, o \in Origs :
          RouteKey(q) = HostKey(o) => q = HostRoute(o, rt[o], PrimaryAddr)
    /\ \A q \in k.fib, n \in Nets :
          RouteKey(q) = OtherKey(n) => q = OtherRoute(n, via[reg[n]])

(* The kernel does what registry and routers say.                          *)
Carried(k, reg, rt, via) ==
    IsKernel(k) /\ Agrees(k) /\ Owned(k, reg, rt) /\ Routed(k, reg, rt, via)

Good(s, via) == Sane(s) /\ Carried(s.kt, s.reg, s.router, via)

(* A key tells the kind of its route, the destination and the table.       *)
LEMMA Keys ==
  /\ \A o, gw, src : RouteKey(HostRoute(o, gw, src)) = HostKey(o)
  /\ \A n, gw : RouteKey(OtherRoute(n, gw)) = OtherKey(n)
  /\ \A n, t : RouteKey(Throw(n, t)) = LocalKey(n, t)
  /\ \A o, p : HostKey(o) = HostKey(p) => o = p
  /\ \A n, m : OtherKey(n) = OtherKey(m) => n = m
  /\ \A n, m, t, u : LocalKey(n, t) = LocalKey(m, u) => n = m /\ t = u
  /\ \A o, n : HostKey(o) # OtherKey(n)
  /\ \A o, n, t : HostKey(o) # LocalKey(n, t)
  /\ \A o, n, t : OtherKey(o) # LocalKey(n, t)
BY DEF HostKey, OtherKey, LocalKey, RouteKey, HostRoute, OtherRoute, Throw, Route

(* An entry is its key and its owner.                                      *)
LEMMA EntryFields ==
  /\ \A x, u : Entry(x, u).key = x /\ Entry(x, u).track = u
  /\ \A x, y, u, v : Entry(x, u) = Entry(y, v) => x = y /\ u = v
BY DEF Entry

(* The place of a route of each kind.                                      *)
LEMMA Places ==
  /\ \A q, o, gw, src : SamePlace(q, HostRoute(o, gw, src)) <=> q.dest = o /\ q.table = "hosts"
  /\ \A q, n, gw : SamePlace(q, OtherRoute(n, gw)) <=> q.dest = n /\ q.table = "networks"
  /\ \A q, n, t : SamePlace(q, Throw(n, t)) <=> q.dest = n /\ q.table = t
  /\ \A q, o : RouteKey(q) = HostKey(o) => q.dest = o /\ q.table = "hosts"
  /\ \A q, n : RouteKey(q) = OtherKey(n) => q.dest = n /\ q.table = "networks"
  /\ \A q, n, t : RouteKey(q) = LocalKey(n, t) => q.dest = n /\ q.table = t
BY DEF SamePlace, HostKey, OtherKey, LocalKey, RouteKey, HostRoute, OtherRoute, Throw, Route

(* Every route of the kernel is of one of the four kinds.                  *)
LEMMA Kinds ==
  ASSUME NEW k, Agrees(k), NEW reg, NEW rt, Owned(k, reg, rt), NEW q \in k.fib
  PROVE  \/ \E o \in Origs : rt[o] # None /\ RouteKey(q) = HostKey(o)
         \/ \E n \in Nets : reg[n] \in Origs /\ RouteKey(q) = OtherKey(n)
         \/ \E n \in OwnNets, t \in Tables : reg[n] = Me /\ RouteKey(q) = LocalKey(n, t)
         \/ \E n \in LocalNets, t \in Tables : RouteKey(q) = LocalKey(n, t)
<1>1. PICK e \in BagToSet(k.routes) : e.key = RouteKey(q)
  BY DEF Agrees, KeysOf
<1> QED
  BY <1>1, EntryFields DEF Owned

-----------------------------------------------------------------------------
(* update_routes replaces the route to the host and nothing else.          *)
LEMMA SetRouterGood ==
  ASSUME Disjoint, NEW s, NEW via, Good(s, via), NEW o \in Origs,
         NEW gw \in Neighbours \cup {None}, NEW t, t = SetRouter(s, o, gw)
  PROVE  /\ Good(t, via)
         /\ t.kt.rules = s.kt.rules /\ t.kt.rpdb = s.kt.rpdb
<1>1. CASE gw = s.router[o]
  BY <1>1 DEF SetRouter
<1>2. CASE gw # s.router[o]
  <2> DEFINE old == s.router[o]
             router2 == [s.router EXCEPT ![o] = gw]
             mine == Entry(HostKey(o), "other_host")
             del == IF old = None THEN s.kt
                    ELSE DelRoute(s.kt, HostRoute(o, old, None), "other_host")
             k == IF gw = None THEN del
                  ELSE AddRoute(del, HostRoute(o, gw, PrimaryAddr), "other_host")
  <2> SUFFICES /\ IsKernel(k) /\ Agrees(k) /\ Owned(k, s.reg, router2)
               /\ Routed(k, s.reg, router2, via)
               /\ k.rules = s.kt.rules /\ k.rpdb = s.kt.rpdb
    <3>1. t = [s EXCEPT !.router[o] = gw, !.kt = k]
      BY <1>2 DEF SetRouter
    <3>2. t.kt = k
      BY <3>1 DEF Good, Sane, IsState
    <3> QED
      BY <3>2, SetRouterSane DEF Good, Carried
  <2>1. /\ IsKernel(s.kt) /\ Agrees(s.kt) /\ Owned(s.kt, s.reg, s.router)
        /\ Routed(s.kt, s.reg, s.router, via)
        /\ router2 \in [Origs -> Neighbours \cup {None}] /\ router2[o] = gw
        /\ \A p \in Origs : p # o => router2[p] = s.router[p]
    BY DEF Good, Carried, Sane, IsState
  <2>2. /\ IsKernel(del) /\ Agrees(del)
        /\ BagToSet(del.routes) = BagToSet(s.kt.routes) \ {mine}
        /\ del.fib = {q \in s.kt.fib : RouteKey(q) \in KeysOf(del.routes)}
        /\ del.rules = s.kt.rules /\ del.rpdb = s.kt.rpdb
    <3>1. CASE old = None
      <4>1. mine \notin BagToSet(s.kt.routes)
        <5>1. mine.track = "other_host" /\ mine.key = HostKey(o)
          BY EntryFields
        <5> QED
          BY <5>1, <2>1, <3>1, Keys, EntryFields DEF Owned
      <4>2. \A q \in s.kt.fib : RouteKey(q) \in KeysOf(s.kt.routes)
        BY <2>1 DEF Agrees
      <4> QED
        BY <4>1, <4>2, <3>1, <2>1
    <3>2. CASE old # None
      <4> DEFINE r == HostRoute(o, old, None)
      <4>1. \A q \in s.kt.fib : RouteKey(q) = RouteKey(r) => r.gw = q.gw /\ r.src = None
        BY <2>1, Keys DEF Routed, HostRoute, Route
      <4>2. Asked({r}) = {r} /\ RouteKey(r) = HostKey(o)
        BY Keys DEF Asked, HostRoute, Route
      <4>3. del = DelRoute(s.kt, r, "other_host")
        BY <3>2
      <4>4. "other_host" \in Single
        BY DEF Single
      <4> HIDE DEF r, del
      <4> QED
        BY <2>1, <4>1, <4>2, <4>3, <4>4, DelOne
    <3> QED
      BY <3>1, <3>2
  <2> DEFINE router1 == [s.router EXCEPT ![o] = None]
  <2>3. /\ router1[o] = None /\ \A p \in Origs : p # o => router1[p] = s.router[p]
        /\ mine.track = "other_host" /\ mine.key = HostKey(o)
    BY EntryFields DEF Good, Sane, IsState
  <2>4. HostKey(o) \notin KeysOf(del.routes)
    <3>1. SUFFICES ASSUME NEW e \in BagToSet(del.routes), e.key = HostKey(o) PROVE FALSE
      BY DEF KeysOf
    <3>2. e = mine
      BY <3>1, <2>1, <2>2, Keys, EntryFields DEF Owned
    <3> QED
      BY <3>2, <2>2
  <2> HIDE DEF del, router1, router2, mine
  <2>5. Owned(del, s.reg, router1)
    <3>1. ASSUME NEW e \in BagToSet(del.routes), NEW p \in Origs,
                 s.router[p] # None /\ e = Entry(HostKey(p), "other_host")
          PROVE  router1[p] # None
      BY <3>1, <2>2, <2>3 DEF mine
    <3>2. \A e \in BagToSet(del.routes) :
             \/ \E p \in Origs : router1[p] # None /\ e = Entry(HostKey(p), "other_host")
             \/ \E n \in Nets : s.reg[n] \in Origs /\ e = Entry(OtherKey(n), "other_hna")
             \/ \E n \in OwnNets, u \in Tables :
                   s.reg[n] = Me /\ e = Entry(LocalKey(n, u), "my_hna")
             \/ \E n \in LocalNets, u \in Tables : e = Entry(LocalKey(n, u), "my_net")
      BY <3>1, <2>1, <2>2 DEF Owned
    <3>3. \A p \in Origs : router1[p] # None =>
             Entry(HostKey(p), "other_host") \in BagToSet(del.routes)
      BY <2>1, <2>2, <2>3, EntryFields, Keys DEF Owned, mine
    <3>4. \A n \in Nets : Entry(OtherKey(n), "other_hna") # mine
      BY EntryFields DEF mine
    <3>5. \A n \in Nets : s.reg[n] \in Origs =>
             Entry(OtherKey(n), "other_hna") \in BagToSet(del.routes)
      BY <3>4, <2>1, <2>2 DEF Owned
    <3> QED
      BY <3>2, <3>3, <3>5 DEF Owned
  <2>6. Routed(del, s.reg, router1, via)
    BY <2>1, <2>2, <2>3, <2>4 DEF Routed
  <2>7. CASE gw = None
    <3>1. router2 = router1
      BY <2>7 DEF router1, router2
    <3> QED
      BY <2>2, <2>5, <2>6, <2>7, <3>1
  <2>8. CASE gw # None
    <3> DEFINE r == HostRoute(o, gw, PrimaryAddr)
    <3>1. RouteKey(r) = HostKey(o) /\ Asked({r}) = {r} /\ Entry(HostKey(o), "other_host") = mine
      BY Keys DEF Asked, HostRoute, Route, mine
    <3>2. ASSUME NEW q \in del.fib, SamePlace(q, r) PROVE RouteKey(q) = RouteKey(r)
      <4>1. q.dest = o /\ q.table = "hosts"
        BY <3>2, Places
      <4> QED
        BY <4>1, <2>2, <2>5, <3>1, Kinds, Places DEF Disjoint
    <3>3. k = AddRoute(del, r, "other_host")
      BY <2>8
    <3>5. mine \notin BagToSet(del.routes) /\ "other_host" \in Single
      BY <2>2 DEF Single
    <3> HIDE DEF r, k
    <3>6. /\ IsKernel(k) /\ Agrees(k)
          /\ BagToSet(k.routes) =
               BagToSet(del.routes) \cup {Entry(RouteKey(r), "other_host")}
          /\ k.fib = del.fib \cup {x \in {r} : RouteKey(x) \notin KeysOf(del.routes)}
          /\ k.rules = del.rules /\ k.rpdb = del.rpdb
      BY <2>2, <3>1, <3>2, <3>3, <3>5, AddOne
    <3>7. BagToSet(k.routes) = BagToSet(del.routes) \cup {mine} /\ k.fib = del.fib \cup {r}
      BY <3>6, <3>1, <2>4
    <3>8. Owned(k, s.reg, router2)
      BY <3>7, <2>1, <2>3, <2>5, <2>8 DEF Owned, mine
    <3>9. Routed(k, s.reg, router2, via)
      BY <3>7, <3>1, <2>1, <2>2, <2>3, <2>4, <2>6, Keys DEF Routed, r, Agrees
    <3> QED
      BY <3>6, <3>8, <3>9, <2>2
  <2> QED
    BY <2>7, <2>8
<1> QED
  BY <1>1, <1>2

(* Networks given back lose their routes, whatever router their announcer  *)
(* has by now.                                                             *)
LEMMA ForgetGood ==
  ASSUME NEW s, NEW via, Good(s, via), NEW o \in Origs, s.hna[o] # {},
         NEW t, t = Forget(s, o)
  PROVE  Good(t, via) /\ t.kt.rules = s.kt.rules /\ t.kt.rpdb = s.kt.rpdb
<1> DEFINE rs == {OtherRoute(n, None) : n \in s.hna[o]}
           k == t.kt
<1>1. /\ IsKernel(s.kt) /\ Agrees(s.kt) /\ Owned(s.kt, s.reg, s.router)
      /\ Routed(s.kt, s.reg, s.router, via)
      /\ Sane(s) /\ s.hna[o] \subseteq Nets
  BY DEF Good, Carried, Sane, IsState
<1>2. /\ Sane(t) /\ t.router = s.router /\ k = DelRoutes(s.kt, rs, "other_hna")
      /\ \A n \in AllNets : t.reg[n] = IF s.reg[n] = o THEN None ELSE s.reg[n]
      /\ \A n \in AllNets : s.reg[n] = o <=> n \in s.hna[o]
  <2>1. \A n \in AllNets : s.reg[n] = o <=> n \in s.hna[o]
    BY <1>1 DEF Sane, Consistent
  <2>2. Forgotten(s, o, t)
    BY <1>1, ForgetSane
  <2> QED
    BY <2>1, <2>2 DEF Forgotten
<1>3. \A r \in rs : \A q \in s.kt.fib : RouteKey(q) = RouteKey(r) =>
                                         r.gw \in {None, q.gw} /\ r.src \in {None, q.src}
  BY <1>1, Keys DEF Routed, OtherRoute, Route
<1>4. Asked(rs) = rs
  BY DEF Asked, OtherRoute, Route
<1>5. {Entry(RouteKey(r), "other_hna") : r \in rs}
        = {Entry(OtherKey(n), "other_hna") : n \in s.hna[o]}
  BY Keys
<1>6. /\ IsKernel(k) /\ Agrees(k)
      /\ BagToSet(k.routes) =
           BagToSet(s.kt.routes) \ {Entry(OtherKey(n), "other_hna") : n \in s.hna[o]}
      /\ k.fib = {q \in s.kt.fib : RouteKey(q) \in KeysOf(k.routes)}
      /\ k.rules = s.kt.rules /\ k.rpdb = s.kt.rpdb
  <2>1. "other_hna" \in Single
    BY DEF Single
  <2> HIDE DEF rs, k
  <2>2. /\ IsKernel(k) /\ Agrees(k)
        /\ BagToSet(k.routes) =
             BagToSet(s.kt.routes) \ {Entry(RouteKey(r), "other_hna") : r \in Asked(rs)}
        /\ k.fib = {q \in s.kt.fib : RouteKey(q) \in KeysOf(k.routes)}
        /\ k.rules = s.kt.rules /\ k.rpdb = s.kt.rpdb
    BY <1>1, <1>2, <1>3, <2>1, DelAgrees
  <2> QED
    BY <2>2, <1>4, <1>5
<1> HIDE DEF rs, k
<1>7. \A e \in BagToSet(k.routes) :
        \/ \E p \in Origs : s.router[p] # None /\ e = Entry(HostKey(p), "other_host")
        \/ \E n \in Nets : /\ t.reg[n] = s.reg[n] /\ s.reg[n] \in Origs
                            /\ e = Entry(OtherKey(n), "other_hna")
        \/ \E n \in OwnNets, u \in Tables : t.reg[n] = Me /\ e = Entry(LocalKey(n, u), "my_hna")
        \/ \E n \in LocalNets, u \in Tables : e = Entry(LocalKey(n, u), "my_net")
  BY <1>1, <1>2, <1>6, HnaAssumption DEF Owned, AllNets
<1>8. Owned(k, t.reg, t.router)
  <2>1. \A p \in Origs, n \in Nets : Entry(HostKey(p), "other_host") # Entry(OtherKey(n), "other_hna")
    BY EntryFields
  <2>2. ASSUME NEW n \in Nets, t.reg[n] \in Origs
        PROVE  Entry(OtherKey(n), "other_hna") \in BagToSet(k.routes)
    <3>1. s.reg[n] = t.reg[n] /\ n \notin s.hna[o]
      BY <1>2, <2>2, HnaAssumption DEF AllNets
    <3>2. \A m \in s.hna[o] : Entry(OtherKey(m), "other_hna") # Entry(OtherKey(n), "other_hna")
      BY <3>1, EntryFields, Keys
    <3> QED
      BY <3>1, <3>2, <2>2, <1>1, <1>6 DEF Owned
  <2>3. \A p \in Origs : s.router[p] # None => Entry(HostKey(p), "other_host") \in BagToSet(k.routes)
    BY <2>1, <1>1, <1>6 DEF Owned
  <2> QED
    BY <2>2, <2>3, <1>2, <1>7 DEF Owned
<1>9. Routed(k, t.reg, t.router, via)
  <2>1. ASSUME NEW q \in k.fib, NEW n \in Nets, RouteKey(q) = OtherKey(n)
        PROVE  t.reg[n] = s.reg[n]
    <3>1. PICK e \in BagToSet(k.routes) : e.key = OtherKey(n)
      BY <1>6, <2>1 DEF KeysOf
    <3> QED
      BY <3>1, <1>7, Keys, EntryFields
  <2> QED
    BY <2>1, <1>1, <1>2, <1>6 DEF Routed
<1> QED
  BY <1>2, <1>6, <1>8, <1>9 DEF Good, Carried, k

(* Free networks have no route, so those learnt get one by the present     *)
(* router.                                                                 *)
LEMMA LearnGood ==
  ASSUME Disjoint, NEW s, NEW via, Good(s, via), NEW o \in Origs, s.hna[o] = {},
         NEW nets \in SUBSET Nets, \A n \in nets : s.reg[n] = None,
         NEW via2, via2[o] = s.router[o], \A p \in Origs : p # o => via2[p] = via[p],
         NEW t, t = Learn(s, o, nets)
  PROVE  Good(t, via2) /\ t.kt.rules = s.kt.rules /\ t.kt.rpdb = s.kt.rpdb
<1> DEFINE new == {OtherRoute(n, s.router[o]) : n \in nets}
           bag == SetToBag(new)
           k == t.kt
<1>1. /\ IsKernel(s.kt) /\ Agrees(s.kt) /\ Owned(s.kt, s.reg, s.router)
      /\ Routed(s.kt, s.reg, s.router, via) /\ Sane(s)
  BY DEF Good, Carried
<1>2. /\ Sane(t) /\ t.router = s.router /\ k = AddRoutes(s.kt, bag, "other_hna")
      /\ \A n \in AllNets : t.reg[n] = IF n \in nets THEN o ELSE s.reg[n]
      /\ \A n \in AllNets : s.reg[n] # o
  <2>1. \A n \in AllNets : s.reg[n] # o
    BY <1>1 DEF Sane, Consistent
  <2>2. Learnt(s, o, nets, t)
    BY <1>1, LearnSane
  <2> QED
    BY <2>1, <2>2 DEF Learnt
<1>3. IsABag(bag) /\ BagToSet(bag) = new /\ \A r \in new : bag[r] = 1
  BY SetBag
<1>4. new = Asked(BagToSet(bag)) /\ \A r, q \in new : SamePlace(r, q) => r = q
  BY <1>3 DEF Asked, OtherRoute, Route, SamePlace
<1>5. ASSUME NEW n \in nets
      PROVE  OtherKey(n) \notin KeysOf(s.kt.routes)
  <2>1. SUFFICES ASSUME NEW e \in BagToSet(s.kt.routes), e.key = OtherKey(n) PROVE FALSE
    BY DEF KeysOf
  <2> QED
    BY <2>1, <1>1, Keys, EntryFields, HnaAssumption DEF Owned
<1>6. ASSUME NEW r \in new, NEW q \in s.kt.fib, SamePlace(q, r)
      PROVE  FALSE
  <2>1. PICK n \in nets : r = OtherRoute(n, s.router[o])
    OBVIOUS
  <2>2. q.dest = n /\ q.table = "networks" /\ n \in Nets /\ s.reg[n] = None
    BY <1>6, <2>1, Places
  <2> QED
    BY <2>2, <1>1, Kinds, Places, HnaAssumption DEF Disjoint
<1>7. \A r \in new : Entry(RouteKey(r), "other_hna") \notin BagToSet(s.kt.routes)
  BY <1>5, Keys, EntryFields DEF KeysOf
<1>8. /\ {Entry(RouteKey(r), "other_hna") : r \in new}
           = {Entry(OtherKey(n), "other_hna") : n \in nets}
      /\ {r \in new : RouteKey(r) \notin KeysOf(s.kt.routes)} = new
  <2>1. \A r \in new : \E n \in nets : RouteKey(r) = OtherKey(n)
    BY Keys
  <2>2. {Entry(RouteKey(r), "other_hna") : r \in new}
           = {Entry(OtherKey(n), "other_hna") : n \in nets}
    <3>1. \A n \in nets : RouteKey(OtherRoute(n, s.router[o])) = OtherKey(n)
      BY Keys
    <3> QED
      BY <3>1
  <2>3. {r \in new : RouteKey(r) \notin KeysOf(s.kt.routes)} = new
    <3> HIDE DEF new
    <3> QED
      BY <2>1, <1>5
  <2> QED
    BY <2>2, <2>3
<1>9. /\ IsKernel(k) /\ Agrees(k)
      /\ BagToSet(k.routes) =
           BagToSet(s.kt.routes) \cup {Entry(OtherKey(n), "other_hna") : n \in nets}
      /\ k.fib = s.kt.fib \cup new
      /\ k.rules = s.kt.rules /\ k.rpdb = s.kt.rpdb
  <2>1. /\ "other_hna" \in Single
        /\ \A r \in new : \A q \in s.kt.fib : SamePlace(q, r) => RouteKey(q) = RouteKey(r)
        /\ \A r \in new : bag[r] = 1 /\ Entry(RouteKey(r), "other_hna") \notin BagToSet(s.kt.routes)
    BY <1>3, <1>6, <1>7 DEF Single
  <2> HIDE DEF new, bag, k
  <2>2. /\ IsKernel(k) /\ Agrees(k)
        /\ BagToSet(k.routes) =
             BagToSet(s.kt.routes) \cup {Entry(RouteKey(r), "other_hna") : r \in new}
        /\ k.fib = s.kt.fib \cup {r \in new : RouteKey(r) \notin KeysOf(s.kt.routes)}
        /\ k.rules = s.kt.rules /\ k.rpdb = s.kt.rpdb
    BY <1>1, <1>2, <1>3, <1>4, <2>1, AddAgrees
  <2> QED
    BY <2>2, <1>8
<1> HIDE DEF bag, k
<1>10. Owned(k, t.reg, t.router)
  BY <1>1, <1>2, <1>9, HnaAssumption DEF Owned, AllNets
<1>11. Routed(k, t.reg, t.router, via2)
  <2>1. ASSUME NEW q \in s.kt.fib, NEW n \in Nets, RouteKey(q) = OtherKey(n)
        PROVE  q = OtherRoute(n, via2[t.reg[n]])
    <3>1. PICK e \in BagToSet(s.kt.routes) : e.key = OtherKey(n)
      BY <1>1, <2>1 DEF Agrees, KeysOf
    <3>2. s.reg[n] \in Origs
      BY <3>1, <1>1, Keys, EntryFields DEF Owned
    <3>3. t.reg[n] = s.reg[n] /\ s.reg[n] # o
      BY <3>2, <1>2, HnaAssumption DEF AllNets
    <3> QED
      BY <3>2, <3>3, <2>1, <1>1 DEF Routed
  <2>2. ASSUME NEW q \in new, NEW n \in Nets, RouteKey(q) = OtherKey(n)
        PROVE  q = OtherRoute(n, via2[t.reg[n]])
    BY <2>2, <1>2, Keys DEF AllNets
  <2>3. \A q \in new, p \in Origs : RouteKey(q) # HostKey(p)
    BY Keys
  <2> QED
    BY <2>1, <2>2, <2>3, <1>1, <1>2, <1>9 DEF Routed
<1> QED
  BY <1>2, <1>9, <1>10, <1>11 DEF Good, Carried, k

(* Own networks get their throw routes, unless the kernel has them for an  *)
(* interface.                                                              *)
LEMMA AddOwnGood ==
  ASSUME Disjoint, NEW s, NEW via, Good(s, via),
         NEW own \in SUBSET OwnNets, \A n \in own : s.reg[n] = None,
         NEW t, t = AddOwn(s, own)
  PROVE  Good(t, via) /\ t.kt.rules = s.kt.rules /\ t.kt.rpdb = s.kt.rpdb
<1> DEFINE all == UNION {OwnRoutes(n) : n \in own}
           new == Asked(all)
           bag == SetToBag(all)
           k == t.kt
<1>1. /\ IsKernel(s.kt) /\ Agrees(s.kt) /\ Owned(s.kt, s.reg, s.router)
      /\ Routed(s.kt, s.reg, s.router, via) /\ Sane(s)
  BY DEF Good, Carried
<1>2. /\ Sane(t) /\ t.router = s.router /\ k = AddRoutes(s.kt, bag, "my_hna")
      /\ \A n \in AllNets : t.reg[n] = IF n \in own THEN Me ELSE s.reg[n]
  <2>1. Announced(s, own, t)
    BY <1>1, AddOwnSane
  <2> QED
    BY <2>1 DEF Announced
<1>3. IsABag(bag) /\ BagToSet(bag) = all /\ \A r \in new : bag[r] = 1
  BY SetBag DEF Asked
<1>4. \A r \in new : \E n \in own, u \in Tables : r = Throw(n, u)
  BY <1>3 DEF Asked, OwnRoutes
<1>5. \A r, q \in new : SamePlace(r, q) => r = q
  BY <1>4 DEF Throw, Route, SamePlace
<1>6. ASSUME NEW r \in new, NEW q \in s.kt.fib, SamePlace(q, r)
      PROVE  RouteKey(q) = RouteKey(r)
  <2>1. PICK n \in own, u \in Tables : r = Throw(n, u)
    BY <1>4
  <2>2. q.dest = n /\ q.table = u /\ n \in OwnNets /\ s.reg[n] = None
    BY <1>6, <2>1, Places
  <2> QED
    BY <2>1, <2>2, <1>1, Kinds, Places, Keys, HnaAssumption DEF Disjoint
<1>7. ASSUME NEW r \in new
      PROVE  Entry(RouteKey(r), "my_hna") \notin BagToSet(s.kt.routes)
  <2>1. PICK n \in own, u \in Tables : r = Throw(n, u)
    BY <1>4
  <2>2. n \in OwnNets /\ s.reg[n] # Me
    BY <2>1, HnaAssumption
  <2> QED
    BY <2>1, <2>2, <1>1, Keys, EntryFields DEF Owned
<1>8. /\ IsKernel(k) /\ Agrees(k)
      /\ BagToSet(k.routes) =
           BagToSet(s.kt.routes) \cup {Entry(RouteKey(r), "my_hna") : r \in new}
      /\ k.fib = s.kt.fib \cup {r \in new : RouteKey(r) \notin KeysOf(s.kt.routes)}
      /\ k.rules = s.kt.rules /\ k.rpdb = s.kt.rpdb
  <2>1. /\ "my_hna" \in Single /\ IsABag(bag) /\ new = Asked(BagToSet(bag))
        /\ \A r \in new : \A q \in s.kt.fib : SamePlace(q, r) => RouteKey(q) = RouteKey(r)
        /\ \A r \in new : bag[r] = 1 /\ Entry(RouteKey(r), "my_hna") \notin BagToSet(s.kt.routes)
    BY <1>3, <1>6, <1>7 DEF Single
  <2> HIDE DEF new, bag, k
  <2> QED
    BY <1>1, <1>2, <1>5, <2>1, AddAgrees
<1> HIDE DEF bag, k, new
<1>9. \A e \in {Entry(RouteKey(r), "my_hna") : r \in new} :
        \E n \in own, u \in Tables : e = Entry(LocalKey(n, u), "my_hna")
  BY <1>4, Keys
<1>10. Owned(k, t.reg, t.router)
  <2>1. ASSUME NEW n \in AllNets, s.reg[n] # None
        PROVE  t.reg[n] = s.reg[n]
    BY <2>1, <1>2
  <2>2. \A n \in own : t.reg[n] = Me /\ n \in OwnNets
    BY <1>2 DEF AllNets
  <2>3. \A n \in AllNets : t.reg[n] \in Origs => s.reg[n] = t.reg[n]
    BY <1>2, HnaAssumption
  <2>4. \A e \in BagToSet(k.routes) :
          \/ \E o \in Origs : t.router[o] # None /\ e = Entry(HostKey(o), "other_host")
          \/ \E n \in Nets : t.reg[n] \in Origs /\ e = Entry(OtherKey(n), "other_hna")
          \/ \E n \in OwnNets, u \in Tables : t.reg[n] = Me /\ e = Entry(LocalKey(n, u), "my_hna")
          \/ \E n \in LocalNets, u \in Tables : e = Entry(LocalKey(n, u), "my_net")
    BY <1>1, <1>2, <1>8, <1>9, <2>1, <2>2, HnaAssumption DEF Owned, AllNets
  <2> QED
    BY <1>1, <1>2, <1>8, <2>3, <2>4 DEF Owned, AllNets
<1>11. Routed(k, t.reg, t.router, via)
  <2>1. \A q \in new : \A o : RouteKey(q) # HostKey(o) /\ RouteKey(q) # OtherKey(o)
    BY <1>4, Keys
  <2>2. ASSUME NEW q \in s.kt.fib, NEW n \in Nets, RouteKey(q) = OtherKey(n)
        PROVE  t.reg[n] = s.reg[n]
    <3>1. PICK e \in BagToSet(s.kt.routes) : e.key = OtherKey(n)
      BY <1>1, <2>2 DEF Agrees, KeysOf
    <3>2. s.reg[n] \in Origs
      BY <3>1, <1>1, Keys, EntryFields DEF Owned
    <3> QED
      BY <3>2, <1>2, HnaAssumption DEF AllNets
  <2> QED
    BY <2>1, <2>2, <1>1, <1>2, <1>8 DEF Routed
<1> QED
  BY <1>2, <1>8, <1>10, <1>11 DEF Good, Carried, k

(* Networks given up lose them, unless an interface wants them too.        *)
LEMMA DelOwnGood ==
  ASSUME NEW s, NEW via, Good(s, via), NEW n \in OwnNets, s.reg[n] = Me,
         NEW t, t = DelOwn(s, n)
  PROVE  Good(t, via) /\ t.kt.rules = s.kt.rules /\ t.kt.rpdb = s.kt.rpdb
<1> DEFINE rs == OwnRoutes(n)
           k == t.kt
<1>1. /\ IsKernel(s.kt) /\ Agrees(s.kt) /\ Owned(s.kt, s.reg, s.router)
      /\ Routed(s.kt, s.reg, s.router, via) /\ Sane(s)
  BY DEF Good, Carried
<1>2. /\ Sane(t) /\ t.router = s.router /\ t.reg = [s.reg EXCEPT ![n] = None]
      /\ k = DelRoutes(s.kt, rs, "my_hna")
  BY <1>1, DelOwnSane
<1>3. /\ \A r \in rs : r.gw = None /\ r.src = None
      /\ \A r \in rs : \E u \in Tables : r = Throw(n, u)
      /\ "my_hna" \in Single
  BY DEF OwnRoutes, Throw, Route, Single
<1>4. /\ IsKernel(k) /\ Agrees(k)
      /\ BagToSet(k.routes) =
           BagToSet(s.kt.routes) \ {Entry(RouteKey(r), "my_hna") : r \in Asked(rs)}
      /\ k.fib = {q \in s.kt.fib : RouteKey(q) \in KeysOf(k.routes)}
      /\ k.rules = s.kt.rules /\ k.rpdb = s.kt.rpdb
  <2>1. \A r \in rs : \A q \in s.kt.fib : RouteKey(q) = RouteKey(r) =>
                                         r.gw \in {None, q.gw} /\ r.src \in {None, q.src}
    BY <1>3
  <2> HIDE DEF rs, k
  <2> QED
    BY <1>1, <1>2, <1>3, <2>1, DelAgrees
<1>5. ASSUME NEW u \in Tables
      PROVE  Entry(LocalKey(n, u), "my_hna") \notin BagToSet(k.routes)
  <2>1. Throw(n, u) \in rs /\ Throw(n, u).type = "throw"
    BY DEF OwnRoutes, Throw, Route
  <2>2. CASE throw_rules
    <3>1. Throw(n, u) \in Asked(rs)
      BY <2>1, <2>2 DEF Asked
    <3> QED
      BY <3>1, <1>4, Keys
  <2>3. CASE ~throw_rules
    <3>1. SUFFICES ASSUME LocalKey(n, u) \in KeysOf(k.routes) PROVE FALSE
      BY EntryFields DEF KeysOf
    <3>2. PICK q \in k.fib : RouteKey(q) = LocalKey(n, u)
      BY <3>1, <1>4 DEF Agrees
    <3>3. q.type = "throw"
      BY <3>2 DEF RouteKey, LocalKey, Throw, Route
    <3> QED
      BY <3>3, <2>3, <1>4 DEF Agrees
  <2> QED
    BY <2>2, <2>3
<1>6. \A e \in {Entry(RouteKey(r), "my_hna") : r \in Asked(rs)} : e.track = "my_hna"
  BY EntryFields
<1>7. t.reg[n] = None /\ \A m \in AllNets : m # n => t.reg[m] = s.reg[m]
  BY <1>1, <1>2 DEF Sane, IsState, AllNets
<1> HIDE DEF rs, k
<1>8. Owned(k, t.reg, t.router)
  <2>1. \A e \in BagToSet(k.routes) :
          \/ \E o \in Origs : t.router[o] # None /\ e = Entry(HostKey(o), "other_host")
          \/ \E m \in Nets : t.reg[m] \in Origs /\ e = Entry(OtherKey(m), "other_hna")
          \/ \E m \in OwnNets, u \in Tables : t.reg[m] = Me /\ e = Entry(LocalKey(m, u), "my_hna")
          \/ \E m \in LocalNets, u \in Tables : e = Entry(LocalKey(m, u), "my_net")
    BY <1>1, <1>2, <1>4, <1>5, <1>7, HnaAssumption DEF Owned, AllNets
  <2>2. \A m \in Nets : t.reg[m] \in Origs => s.reg[m] = t.reg[m]
    BY <1>7, HnaAssumption DEF AllNets
  <2>3. \A e \in BagToSet(s.kt.routes) : e.track # "my_hna" => e \in BagToSet(k.routes)
    BY <1>4, <1>6
  <2> QED
    BY <2>1, <2>2, <2>3, <1>1, <1>2, EntryFields DEF Owned
<1>9. Routed(k, t.reg, t.router, via)
  <2>1. ASSUME NEW q \in k.fib, NEW m \in Nets, RouteKey(q) = OtherKey(m)
        PROVE  t.reg[m] = s.reg[m]
    <3>1. PICK e \in BagToSet(k.routes) : e.key = OtherKey(m)
      BY <1>4, <2>1 DEF KeysOf
    <3>2. t.reg[m] \in Origs
      BY <3>1, <1>8, Keys, EntryFields DEF Owned
    <3> QED
      BY <3>2, <1>7, HnaAssumption DEF AllNets
  <2> QED
    BY <2>1, <1>1, <1>2, <1>4 DEF Routed
<1> QED
  BY <1>2, <1>4, <1>8, <1>9 DEF Good, Carried, k

-----------------------------------------------------------------------------
(* The kernel has the rules that are tracked, and none when rules are      *)
(* disabled.                                                               *)
RulesAgree(k) ==
    /\ k.rpdb = KeysOf(k.rules)
    /\ \A e \in BagToSet(k.rules) : e.track \in {"standard", "my_net"}
    /\ ~prio_rules => k.rpdb = {}

(* Adding rules keeps that.                                                *)
LEMMA AddRulesAgree ==
  ASSUME NEW k, IsKernel(k), RulesAgree(k), NEW bag, ~prio_rules => BagToSet(bag) = {},
         NEW track \in {"standard", "my_net"}, NEW j, j = AddRules(k, bag, track)
  PROVE  IsKernel(j) /\ RulesAgree(j) /\ j.routes = k.routes /\ j.fib = k.fib
<1>1. /\ IsKernel(j) /\ j.routes = k.routes /\ j.fib = k.fib
      /\ j.rpdb = k.rpdb \cup BagToSet(bag) /\ j.rules = TrackRules(k.rules, bag, track)
  BY DEF AddRules, IsKernel
<1>2. BagToSet(j.rules) = BagToSet(k.rules) \cup {Entry(r, track) : r \in BagToSet(bag)}
  BY <1>1 DEF TrackRules, BagToSet, (+)
<1>3. KeysOf(j.rules) = KeysOf(k.rules) \cup BagToSet(bag)
  BY <1>2, EntryFields DEF KeysOf
<1> QED
  BY <1>1, <1>2, <1>3, EntryFields DEF RulesAgree

(* Flushing rules keeps that.                                              *)
LEMMA FlushRulesAgree ==
  ASSUME NEW k, IsKernel(k), RulesAgree(k), NEW tracks, NEW j, j = FlushTrackedRules(k, tracks)
  PROVE  IsKernel(j) /\ RulesAgree(j) /\ j.routes = k.routes /\ j.fib = k.fib
<1> DEFINE keep == [e \in {x \in BagToSet(k.rules) : x.track \notin tracks} |-> k.rules[e]]
<1>1. /\ IsKernel(j) /\ j.routes = k.routes /\ j.fib = k.fib /\ j.rules = keep
      /\ j.rpdb = k.rpdb \ (KeysOf(k.rules) \ KeysOf(keep))
  BY DEF FlushTrackedRules, IsKernel, Only, KeysOf
<1>2. KeysOf(keep) \subseteq KeysOf(k.rules)
  BY DEF KeysOf, BagToSet
<1>3. BagToSet(keep) \subseteq BagToSet(k.rules)
  BY DEF BagToSet
<1> QED
  BY <1>1, <1>2, <1>3 DEF RulesAgree

(* How often something is wanted: by the members of I, and by more.        *)
Tally(I, W, more) ==
    [r \in more \cup UNION {W[i] : i \in I} |->
        Cardinality({i \in I : r \in W[i]}) + Cardinality({r} \cap more)]

(* It is a bag of all that is wanted.                                      *)
LEMMA Counted ==
  ASSUME NEW I, IsFiniteSet(I), NEW W, NEW more
  PROVE  /\ IsABag(Tally(I, W, more))
         /\ BagToSet(Tally(I, W, more)) = more \cup UNION {W[i] : i \in I}
<1> DEFINE B == Tally(I, W, more)
<1>1. ASSUME NEW r \in more \cup UNION {W[i] : i \in I}
      PROVE  B[r] \in {n \in Nat : n > 0}
  <2> DEFINE J == {i \in I : r \in W[i]}
             M == {r} \cap more
  <2>1. IsFiniteSet(J) /\ IsFiniteSet(M) /\ (J # {} \/ M # {})
    <3>1. J \subseteq I /\ M \subseteq {r} /\ (J # {} \/ M # {})
      BY <1>1
    <3>2. IsFiniteSet({r})
      BY FS_Singleton
    <3> HIDE DEF J, M
    <3> QED
      BY <3>1, <3>2, FS_Subset
  <2>2. /\ Cardinality(J) \in Nat /\ Cardinality(M) \in Nat
        /\ J # {} => Cardinality(J) # 0
        /\ M # {} => Cardinality(M) # 0
    BY <2>1, FS_CardinalityType, FS_EmptySet
  <2>3. B[r] = Cardinality(J) + Cardinality(M)
    BY <1>1 DEF Tally
  <2> HIDE DEF J, M, B
  <2> QED
    BY <2>1, <2>2, <2>3
<1>2. DOMAIN B = more \cup UNION {W[i] : i \in I}
  BY DEF Tally
<1>3. B = [r \in DOMAIN B |-> B[r]]
  BY DEF Tally
<1> HIDE DEF B
<1>4. B \in [DOMAIN B -> {n \in Nat : n > 0}]
  BY <1>1, <1>2, <1>3
<1> QED
  BY <1>2, <1>4 DEF IsABag, BagToSet, B

(* Flushing the throw routes of interfaces leaves all other routes.        *)
LEMMA FlushMyNetCarried ==
  ASSUME NEW k, NEW reg, NEW rt, NEW via, Carried(k, reg, rt, via), RulesAgree(k),
         NEW j, j = FlushMyNet(k)
  PROVE  Carried(j, reg, rt, via) /\ RulesAgree(j)
<1> DEFINE f == FlushTrackedRoutes(k, {"my_net"})
<1>1. /\ IsKernel(f) /\ Agrees(f)
      /\ BagToSet(f.routes) = {e \in BagToSet(k.routes) : e.track \notin {"my_net"}}
      /\ f.fib = {q \in k.fib : RouteKey(q) \in KeysOf(f.routes)}
      /\ f.rules = k.rules /\ f.rpdb = k.rpdb
  BY FlushAgrees DEF Carried
<1> HIDE DEF f
<1>2. Owned(f, reg, rt) /\ Routed(f, reg, rt, via)
  BY <1>1, EntryFields DEF Carried, Owned, Routed
<1>3. j = FlushTrackedRules(f, {"my_net"}) /\ RulesAgree(f)
  BY <1>1 DEF FlushMyNet, f, RulesAgree
<1>4. IsKernel(j) /\ RulesAgree(j) /\ j.routes = f.routes /\ j.fib = f.fib
  BY <1>1, <1>3, FlushRulesAgree
<1> QED
  BY <1>1, <1>2, <1>4 DEF Carried, Agrees, Owned, Routed

(* The interfaces that are up in configuration c, and what is hashed of    *)
(* them.                                                                   *)
UpIn(c) == {i \in Ifaces : c[i] # Down}
AddressesIn(c) == {<<i, c[i]>> : i \in UpIn(c)}
Confs == [Ifaces -> LanNets \cup {LoNet, Down}]

(* The throw routes and rules configuration c calls for.                   *)
RouteBag(c, tunnel, throws) ==
    Tally(UpIn(c),
          [i \in UpIn(c) |->
              {r \in {Throw(c[i], "tunnel"), Throw(c[i], "networks")} :
                  IF r.table = "tunnel" THEN tunnel ELSE i \notin BatmanIfs}],
          ThrowRoutes(throws))

RuleBag(c, tunnel, throws) ==
    Tally(UpIn(c),
          [i \in UpIn(c) |->
              {r \in {SrcRule(c[i]), LoRule} :
                  /\ prio_rules /\ tunnel
                  /\ IF r = LoRule THEN Lo_rule /\ i = "lo"
                     ELSE c[i] \notin throws /\ (i = "lo" => Lo_rule)}],
          {})

(* update_interface_rules installs those of the present configuration.     *)
LEMMA Installed ==
  ASSUME NEW k, NEW tunnel, NEW throws
  PROVE  Install(k, tunnel, throws) =
           AddRules(AddRoutes(k, RouteBag(conf, tunnel, throws), "my_net"),
                    RuleBag(conf, tunnel, throws), "my_net")
<1>1. UpIn(conf) = Up
  BY DEF UpIn, Up
<1>2. RouteBag(conf, tunnel, throws) = Count(LAMBDA i : IfRoutes(i, tunnel), ThrowRoutes(throws))
  <2> DEFINE R == [i \in Up |-> IfRoutes(i, tunnel)]
  <2>1. RouteBag(conf, tunnel, throws) = Tally(Up, R, ThrowRoutes(throws))
    BY <1>1 DEF RouteBag, IfRoutes
  <2>2. Tally(Up, R, ThrowRoutes(throws))
          = Count(LAMBDA i : IfRoutes(i, tunnel), ThrowRoutes(throws))
    BY DEF Count, Tally
  <2> QED
    BY <2>1, <2>2
<1>3. RuleBag(conf, tunnel, throws) = Count(LAMBDA i : IfRules(i, tunnel, throws), {})
  <2> DEFINE Q == [i \in Up |-> IfRules(i, tunnel, throws)]
  <2>1. RuleBag(conf, tunnel, throws) = Tally(Up, Q, {})
    BY <1>1 DEF RuleBag, IfRules
  <2>2. Tally(Up, Q, {}) = Count(LAMBDA i : IfRules(i, tunnel, throws), {})
    BY DEF Count, Tally
  <2> QED
    BY <2>1, <2>2
<1> QED
  BY <1>2, <1>3 DEF Install

(* They are throw routes for local networks, and no rules when disabled.   *)
LEMMA ConfBags ==
  ASSUME NEW c, NEW tunnel, NEW throws
  PROVE  /\ IsABag(RouteBag(c, tunnel, throws)) /\ IsABag(RuleBag(c, tunnel, throws))
         /\ \A r \in BagToSet(RouteBag(c, tunnel, throws)) : \E n : \E u : r = Throw(n, u)
         /\ c \in Confs /\ throws \in SUBSET ThrowNets =>
              \A r \in BagToSet(RouteBag(c, tunnel, throws)) :
                  \E n \in LocalNets, u \in Tables : r = Throw(n, u)
         /\ ~prio_rules => BagToSet(RuleBag(c, tunnel, throws)) = {}
<1>1. IsFiniteSet(UpIn(c))
  BY FS_Subset, IfaceAssumption DEF UpIn
<1> DEFINE R == [i \in UpIn(c) |->
              {r \in {Throw(c[i], "tunnel"), Throw(c[i], "networks")} :
                  IF r.table = "tunnel" THEN tunnel ELSE i \notin BatmanIfs}]
           Q == [i \in UpIn(c) |->
              {r \in {SrcRule(c[i]), LoRule} :
                  /\ prio_rules /\ tunnel
                  /\ IF r = LoRule THEN Lo_rule /\ i = "lo"
                     ELSE c[i] \notin throws /\ (i = "lo" => Lo_rule)}]
<1>2. /\ IsABag(RouteBag(c, tunnel, throws))
      /\ BagToSet(RouteBag(c, tunnel, throws)) = ThrowRoutes(throws) \cup UNION {R[i] : i \in UpIn(c)}
  <2>1. RouteBag(c, tunnel, throws) = Tally(UpIn(c), R, ThrowRoutes(throws))
    BY DEF RouteBag
  <2> HIDE DEF R
  <2> QED
    BY <2>1, <1>1, Counted
<1>3. /\ IsABag(RuleBag(c, tunnel, throws))
      /\ BagToSet(RuleBag(c, tunnel, throws)) = {} \cup UNION {Q[i] : i \in UpIn(c)}
  <2>1. RuleBag(c, tunnel, throws) = Tally(UpIn(c), Q, {})
    BY DEF RuleBag
  <2> HIDE DEF Q
  <2> QED
    BY <2>1, <1>1, Counted
<1>4. \A r \in ThrowRoutes(throws) : \E n \in throws, u \in Tables : r = Throw(n, u)
  BY DEF ThrowRoutes
<1>5. \A i \in UpIn(c) : \A r \in R[i] : \E u \in Tables : r = Throw(c[i], u)
  BY DEF Tables
<1>6. c \in Confs => \A i \in UpIn(c) : c[i] \in LocalNets
  BY DEF UpIn, LocalNets, Confs
<1>7. \A i \in UpIn(c) : ~prio_rules => Q[i] = {}
  OBVIOUS
<1> HIDE DEF R, Q
<1>8. \A r \in BagToSet(RouteBag(c, tunnel, throws)) :
         (\E n \in throws, u \in Tables : r = Throw(n, u))
           \/ (\E i \in UpIn(c), u \in Tables : r = Throw(c[i], u))
  BY <1>2, <1>4, <1>5
<1>9. c \in Confs /\ throws \in SUBSET ThrowNets =>
              \A r \in BagToSet(RouteBag(c, tunnel, throws)) :
                  \E n \in LocalNets, u \in Tables : r = Throw(n, u)
  BY <1>6, <1>8 DEF LocalNets
<1>10. ~prio_rules => BagToSet(RuleBag(c, tunnel, throws)) = {}
  BY <1>3, <1>7
<1> QED
  BY <1>2, <1>3, <1>8, <1>9, <1>10

(* Installing them changes no route to a host or an announced network.     *)
LEMMA InstallCarried ==
  ASSUME Disjoint, conf \in Confs,
         NEW k, NEW reg, NEW rt, NEW via, Carried(k, reg, rt, via), RulesAgree(k),
         NEW tunnel, NEW throws \in SUBSET ThrowNets,
         NEW j, j = Install(k, tunnel, throws)
  PROVE  Carried(j, reg, rt, via) /\ RulesAgree(j)
<1> DEFINE routes == RouteBag(conf, tunnel, throws)
           rules == RuleBag(conf, tunnel, throws)
           a == AddRoutes(k, routes, "my_net")
<1>2. j = AddRules(a, rules, "my_net")
  BY Installed
<1>3. IsABag(routes)
  BY ConfBags
<1>4. \A r \in BagToSet(routes) : \E n \in LocalNets, u \in Tables : r = Throw(n, u)
  BY ConfBags
<1>5. ~prio_rules => BagToSet(rules) = {}
  BY ConfBags
<1> HIDE DEF routes, rules
<1>6. /\ IsKernel(k) /\ Agrees(k) /\ Owned(k, reg, rt) /\ Routed(k, reg, rt, via)
  BY DEF Carried
<1> DEFINE new == Asked(BagToSet(routes))
<1>7. \A r \in new : \E n \in LocalNets, u \in Tables : r = Throw(n, u)
  BY <1>4 DEF Asked
<1>8. \A r, q \in new : SamePlace(r, q) => r = q
  BY <1>7 DEF Throw, Route, SamePlace
<1>9. ASSUME NEW r \in new, NEW q \in k.fib, SamePlace(q, r)
      PROVE  RouteKey(q) = RouteKey(r)
  <2>1. PICK n \in LocalNets, u \in Tables : r = Throw(n, u)
    BY <1>7
  <2>2. q.dest = n /\ q.table = u
    BY <1>9, <2>1, Places
  <2> QED
    BY <2>1, <2>2, <1>6, Kinds, Places, Keys DEF Disjoint
<1>10. /\ IsKernel(a) /\ Agrees(a)
       /\ BagToSet(a.routes) = BagToSet(k.routes) \cup {Entry(RouteKey(r), "my_net") : r \in new}
       /\ a.fib = k.fib \cup {r \in new : RouteKey(r) \notin KeysOf(k.routes)}
       /\ a.rules = k.rules /\ a.rpdb = k.rpdb
  <2>1. /\ "my_net" \notin Single /\ IsABag(routes) /\ new = Asked(BagToSet(routes))
        /\ \A r \in new : \A q \in k.fib : SamePlace(q, r) => RouteKey(q) = RouteKey(r)
    BY <1>3, <1>9 DEF Single
  <2> HIDE DEF new, a
  <2>2. a = AddRoutes(k, routes, "my_net")
    BY DEF a
  <2> QED
    BY <1>6, <1>8, <2>1, <2>2, AddAgrees
<1> HIDE DEF new, a
<1>11. \A e \in {Entry(RouteKey(r), "my_net") : r \in new} :
        \E n \in LocalNets, u \in Tables : e = Entry(LocalKey(n, u), "my_net")
  BY <1>7, Keys
<1>12. Owned(a, reg, rt)
  BY <1>6, <1>10, <1>11 DEF Owned
<1>13. Routed(a, reg, rt, via)
  <2>1. \A q \in new : \A o : RouteKey(q) # HostKey(o) /\ RouteKey(q) # OtherKey(o)
    BY <1>7, Keys
  <2> QED
    BY <2>1, <1>6, <1>10 DEF Routed
<1>14. RulesAgree(a)
  BY <1>10 DEF RulesAgree
<1>15. IsKernel(j) /\ RulesAgree(j) /\ j.routes = a.routes /\ j.fib = a.fib
  BY <1>2, <1>5, <1>10, <1>14, AddRulesAgree
<1> QED
  BY <1>10, <1>12, <1>13, <1>15 DEF Carried, Agrees, Owned, Routed

-----------------------------------------------------------------------------
(* The entries interfaces and --throw are the reason for.                  *)
MyNet(list) == [e \in {x \in BagToSet(list) : x.track = "my_net"} |-> list[e]]

(* The part of the tables that hna.c must not touch.                       *)
Local(k) == [routes |-> MyNet(k.routes), rules |-> k.rules]

(* Each entry counts at least one.                                         *)
Whole(loc) == \A e \in DOMAIN loc.routes : loc.routes[e] \in Nat /\ loc.routes[e] > 0

(* The entries configuration c calls for.                                  *)
RoutesFor(c, tunnel, throws) == Entries(Wanted(RouteBag(c, tunnel, throws)), "my_net")

RulesFor(c, tunnel, throws) ==
    [e \in {Entry(r, "my_net") : r \in BagToSet(RuleBag(c, tunnel, throws))} |->
        RuleBag(c, tunnel, throws)[e.key]]

(* Entries added where there were none are exactly what is there then.     *)
LEMMA OnTop ==
  ASSUME NEW A, \A e \in BagToSet(A) : e.track # "my_net",
         NEW E, IsABag(E), \A e \in BagToSet(E) : e.track = "my_net"
  PROVE  /\ MyNet(A (+) E) = E
         /\ \A e \in BagToSet(A (+) E) : e \in BagToSet(A) \/ e.track = "my_net"
<1> DEFINE S == {x \in BagToSet(A (+) E) : x.track = "my_net"}
<1>1. E = [e \in DOMAIN E |-> E[e]] /\ \A e \in DOMAIN E : E[e] \in Nat
  BY DEF IsABag
<1>2. S = DOMAIN E
  BY DEF BagToSet, (+)
<1>3. \A e \in DOMAIN E : (A (+) E)[e] = E[e]
  BY <1>1 DEF BagToSet, (+)
<1>4. MyNet(A (+) E) = [e \in S |-> (A (+) E)[e]]
  BY DEF MyNet
<1>5. \A e \in BagToSet(A (+) E) : e \in BagToSet(A) \/ e.track = "my_net"
  BY DEF BagToSet, (+)
<1> QED
  BY <1>1, <1>2, <1>3, <1>4, <1>5

(* What a configuration calls for are bags of entries of interfaces.       *)
LEMMA ForBags ==
  ASSUME NEW c, NEW tunnel, NEW throws
  PROVE  /\ IsABag(RoutesFor(c, tunnel, throws)) /\ IsABag(RulesFor(c, tunnel, throws))
         /\ \A e \in BagToSet(RoutesFor(c, tunnel, throws)) : e.track = "my_net"
         /\ \A e \in BagToSet(RulesFor(c, tunnel, throws)) : e.track = "my_net"
<1> DEFINE W == Wanted(RouteBag(c, tunnel, throws))
           B == RuleBag(c, tunnel, throws)
<1>1. IsABag(W) /\ \A r \in BagToSet(W) : \E n : \E u : r = Throw(n, u)
  BY ConfBags, WantedBag DEF Asked
<1>2. \A r, q \in BagToSet(W) : SamePlace(r, q) => r = q
  BY <1>1 DEF Throw, Route, SamePlace
<1> HIDE DEF W
<1>3. /\ IsABag(Entries(W, "my_net"))
      /\ \A e \in BagToSet(Entries(W, "my_net")) : e.track = "my_net"
  BY <1>1, <1>2, EntriesBag, EntryFields
<1>4. IsABag(B)
  BY ConfBags
<1>5. RulesFor(c, tunnel, throws) = [e \in {Entry(r, "my_net") : r \in BagToSet(B)} |-> B[e.key]]
  BY DEF RulesFor
<1> HIDE DEF B
<1>6. /\ IsABag(RulesFor(c, tunnel, throws))
      /\ \A e \in BagToSet(RulesFor(c, tunnel, throws)) : e.track = "my_net"
  <2> DEFINE F == RulesFor(c, tunnel, throws)
             D == {Entry(r, "my_net") : r \in BagToSet(B)}
  <2>1. F = [e \in D |-> B[e.key]]
    BY <1>5
  <2>2. \A r \in BagToSet(B) : B[r] \in {n \in Nat : n > 0}
    BY <1>4 DEF IsABag, BagToSet
  <2>3. \A e \in D : e.track = "my_net" /\ B[e.key] \in {n \in Nat : n > 0}
    BY <2>2, EntryFields
  <2> HIDE DEF D, F
  <2>4. F \in [D -> {n \in Nat : n > 0}]
    BY <2>1, <2>3
  <2> QED
    BY <2>3, <2>4 DEF IsABag, BagToSet, F
<1> QED
  BY <1>3, <1>6 DEF RoutesFor, W

(* Installing where nothing was installed leaves what the configuration    *)
(* calls for.                                                              *)
LEMMA InstallLocal ==
  ASSUME NEW k, IsKernel(k), \A e \in BagToSet(k.routes) : e.track # "my_net",
         \A e \in BagToSet(k.rules) : e.track # "my_net",
         NEW tunnel, NEW throws, NEW j, j = Install(k, tunnel, throws)
  PROVE  /\ IsKernel(j)
         /\ MyNet(j.routes) = RoutesFor(conf, tunnel, throws)
         /\ MyNet(j.rules) = RulesFor(conf, tunnel, throws)
         /\ \A e \in BagToSet(j.routes) : e \in BagToSet(k.routes) \/ e.track = "my_net"
         /\ \A e \in BagToSet(j.rules) : e \in BagToSet(k.rules) \/ e.track = "my_net"
<1> DEFINE a == AddRoutes(k, RouteBag(conf, tunnel, throws), "my_net")
<1>1. IsKernel(a) /\ a.routes = k.routes (+) RoutesFor(conf, tunnel, throws) /\ a.rules = k.rules
  BY AddFields DEF RoutesFor
<1>2. j = AddRules(a, RuleBag(conf, tunnel, throws), "my_net")
  BY Installed
<1> HIDE DEF a
<1>3. /\ IsKernel(j) /\ j.routes = a.routes
      /\ j.rules = k.rules (+) RulesFor(conf, tunnel, throws)
  BY <1>1, <1>2 DEF AddRules, IsKernel, TrackRules, RulesFor
<1> QED
  BY <1>1, <1>3, ForBags, OnTop

(* FlushMyNet leaves no entry of an interface.                             *)
LEMMA FlushLocal ==
  ASSUME NEW k, IsKernel(k), NEW j, j = FlushMyNet(k)
  PROVE  /\ IsKernel(j) /\ Whole(Local(j))
         /\ \A e \in BagToSet(j.routes) : e.track # "my_net"
         /\ \A e \in BagToSet(j.rules) : e.track # "my_net"
<1> DEFINE f == FlushTrackedRoutes(k, {"my_net"})
<1>1. /\ IsKernel(f)
      /\ f.routes = [e \in {x \in BagToSet(k.routes) : x.track \notin {"my_net"}} |-> k.routes[e]]
      /\ f.rules = k.rules
  BY FlushFields
<1>2. j = FlushTrackedRules(f, {"my_net"})
  BY DEF FlushMyNet
<1> HIDE DEF f
<1>3. /\ IsKernel(j) /\ j.routes = f.routes
      /\ j.rules = [e \in {x \in BagToSet(f.rules) : x.track \notin {"my_net"}} |-> f.rules[e]]
  BY <1>1, <1>2 DEF FlushTrackedRules, IsKernel, Only
<1>4. /\ \A e \in BagToSet(j.routes) : e.track # "my_net"
      /\ \A e \in BagToSet(j.rules) : e.track # "my_net"
  BY <1>1, <1>3 DEF BagToSet
<1>5. DOMAIN Local(j).routes = {}
  BY <1>4 DEF Local, MyNet
<1> QED
  BY <1>3, <1>4, <1>5 DEF Whole

(* So rebuilding installs exactly what the present configuration calls     *)
(* for, whatever was there.                                                *)
LEMMA RebuildLocal ==
  ASSUME NEW k, IsKernel(k), NEW tunnel, NEW throws, NEW j, j = Rebuild(k, tunnel, throws)
  PROVE  /\ IsKernel(j) /\ Whole(Local(j))
         /\ MyNet(j.routes) = RoutesFor(conf, tunnel, throws)
         /\ MyNet(j.rules) = RulesFor(conf, tunnel, throws)
<1> DEFINE f == FlushMyNet(k)
<1>1. /\ IsKernel(f)
      /\ \A e \in BagToSet(f.routes) : e.track # "my_net"
      /\ \A e \in BagToSet(f.rules) : e.track # "my_net"
  BY FlushLocal
<1>2. j = Install(f, tunnel, throws)
  BY DEF Rebuild
<1> HIDE DEF f
<1>3. /\ IsKernel(j)
      /\ MyNet(j.routes) = RoutesFor(conf, tunnel, throws)
      /\ MyNet(j.rules) = RulesFor(conf, tunnel, throws)
  BY <1>1, <1>2, InstallLocal
<1>4. Whole(Local(j))
  BY <1>3, ForBags DEF Whole, Local, IsABag
<1> QED
  BY <1>3, <1>4

(* Other owners add nothing to it,                                         *)
LEMMA AddOthers ==
  ASSUME NEW k, IsKernel(k), Whole(Local(k)), NEW bag, NEW track, track # "my_net",
         NEW j, j = AddRoutes(k, bag, track)
  PROVE  IsKernel(j) /\ Local(j) = Local(k)
<1> DEFINE E == Entries(Wanted(bag), track)
           S == {x \in BagToSet(k.routes) : x.track = "my_net"}
<1>1. /\ IsKernel(j) /\ j.routes = k.routes (+) E /\ j.rules = k.rules
      /\ \A e \in BagToSet(E) : e.track # "my_net"
  BY EntryFields, AddFields DEF Entries, BagToSet
<1>2. \A e \in S : k.routes[e] \in Nat
  BY DEF Whole, Local, MyNet
<1> HIDE DEF E
<1>3. {x \in BagToSet(k.routes (+) E) : x.track = "my_net"} = S
  BY <1>1 DEF BagToSet, (+)
<1>4. \A e \in S : (k.routes (+) E)[e] = k.routes[e]
  BY <1>1, <1>2 DEF BagToSet, (+)
<1>5. MyNet(k.routes (+) E) = MyNet(k.routes)
  BY <1>3, <1>4 DEF MyNet
<1> QED
  BY <1>1, <1>5 DEF Local

(* and take nothing away from it.                                          *)
LEMMA DelOthers ==
  ASSUME NEW k, IsKernel(k), Whole(Local(k)), NEW rs, NEW track, track # "my_net",
         NEW j, j = DelRoutes(k, rs, track)
  PROVE  IsKernel(j) /\ Local(j) = Local(k)
<1>1. PICK G : /\ IsKernel(j) /\ j.routes = k.routes (-) SetToBag(G) /\ j.rules = k.rules
               /\ \A e \in G : e.track # "my_net"
  BY DelFields
<1> DEFINE B == [e \in DOMAIN k.routes |-> IF e \in G THEN k.routes[e] - 1 ELSE k.routes[e]]
           S == {x \in BagToSet(k.routes) : x.track = "my_net"}
<1>2. j.routes = [e \in {d \in DOMAIN B : B[d] > 0} |-> B[e]]
  BY <1>1 DEF SetToBag, (-)
<1>3. \A e \in S : k.routes[e] > 0
  BY DEF Whole, Local, MyNet
<1>4. \A e \in S : e \in DOMAIN B /\ B[e] = k.routes[e] /\ B[e] > 0
  BY <1>1, <1>3 DEF BagToSet
<1>5. {x \in BagToSet(j.routes) : x.track = "my_net"} = S
  BY <1>2, <1>4 DEF BagToSet
<1>6. \A e \in S : j.routes[e] = k.routes[e]
  BY <1>2, <1>4
<1>7. MyNet(j.routes) = MyNet(k.routes)
  BY <1>5, <1>6 DEF MyNet
<1> QED
  BY <1>1, <1>7 DEF Local

-----------------------------------------------------------------------------
(* What holds between the steps of a handler of hna.c; via is the router   *)
(* each announcer had when its networks were learnt, loc the part of       *)
(* interface rules.                                                        *)
Held(s, via, loc) ==
    /\ Sane(s) /\ IsKernel(s.kt) /\ Local(s.kt) = loc /\ Whole(loc)
    /\ Disjoint => Carried(s.kt, s.reg, s.router, via) /\ RulesAgree(s.kt)

(* Whoever has networks has a router.                                      *)
Reached(s) == \A o \in Origs : s.hna[o] # {} => s.router[o] # None

(* What holds when a handler is through.                                   *)
Final(s, loc) == Held(s, s.router, loc) /\ Reached(s)

(* The routes of networks are right again when every announcer left has    *)
(* the router its networks were learnt by.                                 *)
LEMMA Settle ==
  ASSUME NEW s, NEW via, NEW loc, Held(s, via, loc), Reached(s),
         \A p \in Origs : s.hna[p] # {} => via[p] = s.router[p]
  PROVE  Final(s, loc)
<1>1. SUFFICES ASSUME Disjoint
               PROVE  Routed(s.kt, s.reg, s.router, s.router)
  BY DEF Held, Final, Carried
<1>2. /\ Agrees(s.kt) /\ Owned(s.kt, s.reg, s.router) /\ Routed(s.kt, s.reg, s.router, via)
      /\ Sane(s)
  BY <1>1 DEF Held, Carried
<1>3. ASSUME NEW q \in s.kt.fib, NEW n \in Nets, RouteKey(q) = OtherKey(n)
      PROVE  via[s.reg[n]] = s.router[s.reg[n]]
  <2>1. PICK e \in BagToSet(s.kt.routes) : e.key = OtherKey(n)
    BY <1>2, <1>3 DEF Agrees, KeysOf
  <2>2. s.reg[n] \in Origs
    BY <2>1, <1>2, Keys, EntryFields DEF Owned
  <2>3. n \in s.hna[s.reg[n]]
    BY <2>2, <1>2 DEF Sane, Consistent, AllNets
  <2> QED
    BY <2>2, <2>3
<1> QED
  BY <1>2, <1>3 DEF Routed

(* update_routes does not touch the part of interface rules.               *)
LEMMA SetRouterLocal ==
  ASSUME NEW s, Sane(s), IsKernel(s.kt), Whole(Local(s.kt)), NEW o, NEW gw,
         NEW t, t = SetRouter(s, o, gw)
  PROVE  IsKernel(t.kt) /\ Local(t.kt) = Local(s.kt)
<1> DEFINE old == s.router[o]
           del == IF old = None THEN s.kt
                  ELSE DelRoute(s.kt, HostRoute(o, old, None), "other_host")
           k == IF gw = None THEN del
                ELSE AddRoute(del, HostRoute(o, gw, PrimaryAddr), "other_host")
<1>1. IsKernel(del) /\ Local(del) = Local(s.kt)
  BY DelOthers DEF DelRoute
<1> HIDE DEF del
<1>2. IsKernel(k) /\ Local(k) = Local(s.kt)
  BY <1>1, AddOthers DEF AddRoute
<1>3. t = s \/ t = [s EXCEPT !.router[o] = gw, !.kt = k]
  BY DEF SetRouter, del
<1> HIDE DEF k
<1>4. t = s \/ t.kt = k
  BY <1>3 DEF Sane, IsState
<1> QED
  BY <1>2, <1>4

(* The five operations between which handlers choose keep all that.        *)
LEMMA SetRouterHeld ==
  ASSUME NEW s, NEW via, NEW loc, Held(s, via, loc), NEW o \in Origs,
         NEW gw \in Neighbours \cup {None}, NEW t, t = SetRouter(s, o, gw)
  PROVE  /\ Held(t, via, loc)
         /\ t.reg = s.reg /\ t.hna = s.hna /\ t.router = [s.router EXCEPT ![o] = gw]
<1>1. /\ Sane(t)
      /\ t.reg = s.reg /\ t.hna = s.hna /\ t.router = [s.router EXCEPT ![o] = gw]
  BY SetRouterSane DEF Held
<1>2. ASSUME Disjoint
      PROVE  Good(t, via) /\ t.kt.rules = s.kt.rules /\ t.kt.rpdb = s.kt.rpdb
  BY <1>2, SetRouterGood DEF Held, Good
<1>3. IsKernel(t.kt) /\ Local(t.kt) = Local(s.kt)
  BY SetRouterLocal DEF Held
<1> QED
  BY <1>1, <1>2, <1>3 DEF Held, Good, RulesAgree

(* del_hna_node keeps what is announced held.                                *)
LEMMA ForgetHeld ==
  ASSUME NEW s, NEW via, NEW loc, Held(s, via, loc), NEW o \in Origs, s.hna[o] # {}, NEW t, t = Forget(s, o)
  PROVE  Held(t, via, loc) /\ Forgotten(s, o, t)
<1>1. Forgotten(s, o, t)
  BY ForgetSane DEF Held
<1>2. ASSUME Disjoint
      PROVE  Good(t, via) /\ t.kt.rules = s.kt.rules /\ t.kt.rpdb = s.kt.rpdb
  BY <1>2, ForgetGood DEF Held, Good
<1>3. IsKernel(t.kt) /\ Local(t.kt) = Local(s.kt)
  BY <1>1, DelOthers DEF Held, Forgotten
<1> QED
  BY <1>1, <1>2, <1>3 DEF Held, Good, RulesAgree, Forgotten

(* A new announcement is held.                                               *)
LEMMA LearnHeld ==
  ASSUME NEW s, NEW via, NEW loc, Held(s, via, loc), NEW o \in Origs, s.hna[o] = {},
         NEW nets \in SUBSET Nets, \A n \in nets : s.reg[n] = None,
         NEW via2, via2[o] = s.router[o], \A p \in Origs : p # o => via2[p] = via[p],
         NEW t, t = Learn(s, o, nets)
  PROVE  Held(t, via2, loc) /\ Learnt(s, o, nets, t)
<1>1. Learnt(s, o, nets, t)
  BY LearnSane DEF Held
<1>2. ASSUME Disjoint
      PROVE  Good(t, via2) /\ t.kt.rules = s.kt.rules /\ t.kt.rpdb = s.kt.rpdb
  BY <1>2, LearnGood DEF Held, Good
<1>3. IsKernel(t.kt) /\ Local(t.kt) = Local(s.kt)
  BY <1>1, AddOthers DEF Held, Learnt
<1> QED
  BY <1>1, <1>2, <1>3 DEF Held, Good, RulesAgree, Learnt

(* An own network is held once it is announced.                              *)
LEMMA AddOwnHeld ==
  ASSUME NEW s, NEW via, NEW loc, Held(s, via, loc), NEW own \in SUBSET OwnNets, \A n \in own : s.reg[n] = None,
         NEW t, t = AddOwn(s, own)
  PROVE  Held(t, via, loc) /\ Announced(s, own, t)
<1>1. Announced(s, own, t)
  BY AddOwnSane DEF Held
<1>2. ASSUME Disjoint
      PROVE  Good(t, via) /\ t.kt.rules = s.kt.rules /\ t.kt.rpdb = s.kt.rpdb
  BY <1>2, AddOwnGood DEF Held, Good
<1>3. IsKernel(t.kt) /\ Local(t.kt) = Local(s.kt)
  BY <1>1, AddOthers DEF Held, Announced
<1> QED
  BY <1>1, <1>2, <1>3 DEF Held, Good, RulesAgree, Announced

(* One that is withdrawn is not.                                             *)
LEMMA DelOwnHeld ==
  ASSUME NEW s, NEW via, NEW loc, Held(s, via, loc), NEW n \in OwnNets, s.reg[n] = Me, NEW t, t = DelOwn(s, n)
  PROVE  /\ Held(t, via, loc)
         /\ t.hna = s.hna /\ t.router = s.router /\ t.reg = [s.reg EXCEPT ![n] = None]
<1>1. /\ Sane(t) /\ t.hna = s.hna /\ t.router = s.router /\ t.reg = [s.reg EXCEPT ![n] = None]
      /\ t.kt = DelRoutes(s.kt, OwnRoutes(n), "my_hna")
  BY DelOwnSane DEF Held
<1>2. ASSUME Disjoint
      PROVE  Good(t, via) /\ t.kt.rules = s.kt.rules /\ t.kt.rpdb = s.kt.rpdb
  BY <1>2, DelOwnGood DEF Held, Good
<1>3. IsKernel(t.kt) /\ Local(t.kt) = Local(s.kt)
  BY <1>1, DelOthers DEF Held
<1> QED
  BY <1>1, <1>2, <1>3 DEF Held, Good, RulesAgree

(* flush_orig: the originator has neither router nor networks after it.    *)
LEMMA FlushHeld ==
  ASSUME NEW s, NEW via, NEW loc, Held(s, via, loc), NEW o \in Origs, NEW t, t = Flush(s, o)
  PROVE  /\ Held(t, via, loc)
         /\ t.hna[o] = {}
         /\ \A p \in Origs : p # o => t.hna[p] = s.hna[p] /\ t.router[p] = s.router[p]
<1> DEFINE r == SetRouter(s, o, None)
<1>1. Held(r, via, loc) /\ r.hna = s.hna /\ r.router = [s.router EXCEPT ![o] = None]
  BY SetRouterHeld
<1>2. t = IF r.hna[o] = {} THEN r ELSE Forget(r, o)
  BY DEF Flush, Destroy
<1>3. s.router \in [Origs -> Neighbours \cup {None}]
  BY DEF Held, Sane, IsState
<1> HIDE DEF r
<1>4. CASE r.hna[o] = {}
  BY <1>1, <1>2, <1>3, <1>4
<1>5. CASE r.hna[o] # {}
  <2>1. Held(t, via, loc) /\ Forgotten(r, o, t)
    BY <1>1, <1>2, <1>5, ForgetHeld
  <2> QED
    BY <2>1, <1>1, <1>3 DEF Forgotten
<1> QED
  BY <1>4, <1>5

(* An OGM that is accepted: networks are given back and learnt again when  *)
(* the router or the announcement is new, and nothing has to be done when  *)
(* neither is.                                                             *)
LEMMA AcceptHeld ==
  ASSUME NEW s, NEW via, NEW loc, Held(s, via, loc), NEW o \in Origs,
         NEW nets \in SUBSET Nets, \A n \in nets : s.reg[n] \in {None, o},
         \A p \in Origs : p # o => via[p] = s.router[p],
         \A p \in Origs : s.hna[p] # {} => via[p] # None,
         NEW t, t = Accept(s, o, nets, via[o])
  PROVE  Final(t, loc)
<1> DEFINE dropped == IF s.hna[o] = {} THEN s ELSE Forget(s, o)
           learnt == IF s.router[o] # None /\ nets # {} THEN Learn(dropped, o, nets) ELSE dropped
<1>1. /\ Sane(s) /\ s.reg \in [AllNets -> Origs \cup {Me, None}]
      /\ s.hna \in [Origs -> SUBSET Nets]
  BY DEF Held, Sane, IsState
<1>2. CASE via[o] = s.router[o] /\ nets = s.hna[o]
  <2>1. t = s
    BY <1>2 DEF Accept
  <2> QED
    BY <2>1, <1>2, Settle DEF Reached
<1>3. CASE ~(via[o] = s.router[o] /\ nets = s.hna[o])
  <2>1. t = learnt
    BY <1>3 DEF Accept
  <2>2. /\ Held(dropped, via, loc) /\ dropped.hna[o] = {} /\ dropped.router = s.router
        /\ \A p \in Origs : p # o => dropped.hna[p] = s.hna[p]
        /\ \A n \in nets : dropped.reg[n] = None
    <3>1. CASE s.hna[o] = {}
      <4>1. \A n \in nets : s.reg[n] # o
        BY <3>1, <1>1 DEF Sane, Consistent, AllNets
      <4> QED
        BY <4>1, <3>1
    <3>2. CASE s.hna[o] # {}
      <4>1. Held(dropped, via, loc) /\ Forgotten(s, o, dropped)
        BY <3>2, ForgetHeld
      <4>2. \A n \in nets : dropped.reg[n] = None
        BY <4>1 DEF Forgotten, AllNets
      <4> QED
        BY <4>1, <4>2 DEF Forgotten
    <3> QED
      BY <3>1, <3>2
  <2> HIDE DEF dropped
  <2>3. CASE s.router[o] # None /\ nets # {}
    <3> DEFINE via2 == [p \in Origs |-> IF p = o THEN s.router[o] ELSE via[p]]
    <3>1. t = Learn(dropped, o, nets)
      BY <2>1, <2>3
    <3>2. via2[o] = dropped.router[o] /\ \A p \in Origs : p # o => via2[p] = via[p]
      BY <2>2
    <3>3. \A p \in Origs : via2[p] = s.router[p]
      OBVIOUS
    <3> HIDE DEF via2
    <3>4. Held(t, via2, loc) /\ Learnt(dropped, o, nets, t)
      BY <2>2, <3>1, <3>2, LearnHeld
    <3>5. t.router = s.router /\ t.hna = [dropped.hna EXCEPT ![o] = nets]
      BY <3>4, <2>2 DEF Learnt
    <3>6. dropped.hna \in [Origs -> SUBSET Nets]
      BY <2>2 DEF Held, Sane, IsState
    <3>7. Reached(t)
      BY <3>5, <3>6, <2>2, <2>3 DEF Reached
    <3> QED
      BY <3>3, <3>4, <3>5, <3>7, Settle
  <2>4. CASE ~(s.router[o] # None /\ nets # {})
    <3>1. t = dropped
      BY <2>1, <2>4
    <3>2. \A p \in Origs : t.hna[p] # {} => via[p] = t.router[p]
      BY <3>1, <2>2
    <3>3. Reached(t)
      BY <3>1, <3>2, <2>2 DEF Reached
    <3> QED
      BY <3>1, <3>2, <3>3, <2>2, Settle
  <2> QED
    BY <2>3, <2>4
<1> QED
  BY <1>2, <1>3

(* cb_hna_ogm_hook in all its cases, the eviction of an owner that is      *)
(* overdue and the rejection of the OGM among them.                        *)
LEMMA HookHeld ==
  ASSUME NEW s, NEW via, NEW loc, Held(s, via, loc), NEW o \in Origs, NEW nets \in SUBSET Nets,
         \A p \in Origs : p # o => via[p] = s.router[p],
         \A p \in Origs : s.hna[p] # {} => via[p] # None,
         NEW t \in Hook(s, o, nets, via[o])
  PROVE  Final(t, loc)
<1>1. Sane(s)
  BY DEF Held
<1>2. CASE t = Accept(s, o, nets, via[o]) /\ \A n \in nets : s.reg[n] \in {None, o}
  BY <1>2, AcceptHeld
<1>3. ASSUME NEW u, Held(u, via, loc), t = Flush(u, o), u.router = s.router,
             \A p \in Origs : u.hna[p] # {} => s.hna[p] # {}
      PROVE  Final(t, loc)
  <2>1. /\ Held(t, via, loc)
        /\ t.hna[o] = {}
        /\ \A p \in Origs : p # o => t.hna[p] = u.hna[p] /\ t.router[p] = u.router[p]
    BY <1>3, FlushHeld
  <2>2. \A p \in Origs : t.hna[p] # {} => via[p] = t.router[p] /\ t.router[p] # None
    BY <1>3, <2>1
  <2> QED
    BY <2>1, <2>2, Settle DEF Reached
<1>4. CASE nets = {} \/ nets = s.hna[o]
  <2>1. t = Accept(s, o, nets, via[o])
    BY <1>4 DEF Hook
  <2>2. \A n \in nets : s.reg[n] \in {None, o}
    BY <1>1, <1>4 DEF Sane, Consistent
  <2> QED
    BY <2>1, <2>2, <1>2
<1>5. CASE ~(nets = {} \/ nets = s.hna[o]) /\ o \notin Vservers
  BY <1>3, <1>5 DEF Hook
<1>6. CASE ~(nets = {} \/ nets = s.hna[o]) /\ o \in Vservers /\ Blocked(s, o, nets) # {}
  <2>1. PICK n \in Blocked(s, o, nets) : t = Flush(Evict(s, n), o)
    BY <1>6 DEF Hook
  <2> DEFINE u == Evict(s, n)
  <2>2. Held(u, via, loc) /\ u.router = s.router /\ \A p \in Origs : u.hna[p] # {} => s.hna[p] # {}
    <3>1. CASE u = s
      BY <3>1
    <3>2. CASE u # s
      <4>1. s.reg[n] \in Origs /\ u = Forget(s, s.reg[n]) /\ n \in Nets
        BY <3>2, <2>1 DEF Evict, Blocked
      <4>2. s.hna[s.reg[n]] # {}
        BY <4>1, <1>1 DEF Sane, Consistent, AllNets
      <4>3. Held(u, via, loc) /\ Forgotten(s, s.reg[n], u)
        BY <4>1, <4>2, ForgetHeld
      <4> QED
        BY <4>1, <4>3 DEF Forgotten
    <3> QED
      BY <3>1, <3>2
  <2> QED
    BY <2>1, <2>2, <1>3
<1>7. CASE ~(nets = {} \/ nets = s.hna[o]) /\ o \in Vservers /\ Blocked(s, o, nets) = {}
  <2>1. t = Accept(s, o, nets, via[o])
    BY <1>7 DEF Hook
  <2>2. \A n \in nets : s.reg[n] \in {None, o}
    BY <1>7 DEF Blocked
  <2> QED
    BY <2>1, <2>2, <1>2
<1> QED
  BY <1>4, <1>5, <1>6, <1>7

-----------------------------------------------------------------------------
(* What the kernel may keep from a bmxd that was killed.                   *)
LeftOver(k) ==
    /\ IsKernel(k) /\ k.routes = EmptyBag /\ k.rules = EmptyBag
    /\ \A q \in k.fib : q.type = "throw" => throw_rules
    /\ ~prio_rules => k.rpdb = {}

(* The rules are those of the configuration the checksum was taken of,     *)
(* which need not be the present one.                                      *)
InForce(loc) ==
    \E c \in Confs :
        /\ checksum = AddressesIn(c)
        /\ loc.routes = RoutesFor(c, setup_tunnel, throw_list)
        /\ MyNet(loc.rules) = RulesFor(c, setup_tunnel, throw_list)

(* The inductive invariant.                                                *)
RoutingInv ==
    /\ conf \in Confs /\ conf["lo"] = LoNet
    /\ throw_list \in SUBSET ThrowNets
    /\ Sane(State) /\ Reached(State)
    /\ ~running => \A n \in AllNets : registry[n] = None
    /\ IsKernel(kt)
    /\ running => Whole(Local(kt)) /\ (checksum # Unknown => InForce(Local(kt)))
    /\ Disjoint => IF running THEN Carried(kt, registry, router, router) /\ RulesAgree(kt)
                   ELSE LeftOver(kt)

(* The fields of the state.                                                *)
LEMMA StateOf ==
  /\ State.reg = registry /\ State.hna = hna /\ State.router = router
  /\ State.kt = kt /\ State.bad = fatal
BY DEF State

(* The state of a fresh process.                                           *)
LEMMA Blank ==
  ASSUME NEW k, NEW s,
         s = [reg |-> [n \in AllNets |-> None], hna |-> [o \in Origs |-> {}],
              router |-> [o \in Origs |-> None], kt |-> k, bad |-> FALSE]
  PROVE  Sane(s) /\ Reached(s)
BY HnaAssumption DEF Sane, IsState, Consistent, Reached

(* Nothing is announced, and nobody has a router.                          *)
LEMMA FreshState ==
  /\ Fresh(Nothing).reg = [n \in AllNets |-> None]
  /\ Fresh(Nothing).hna = [o \in Origs |-> {}]
  /\ Fresh(Nothing).router = [o \in Origs |-> None]
<1> DEFINE s == [reg |-> [n \in AllNets |-> None], hna |-> [o \in Origs |-> {}],
                 router |-> [o \in Origs |-> None], kt |-> Nothing, bad |-> FALSE]
<1>1. Fresh(Nothing) = AddOwn(s, {})
  BY DEF Fresh, StartHna
<1>2. AddOwn(s, {}).reg = [n \in AllNets |-> s.reg[n]] /\ AddOwn(s, {}).hna = s.hna
      /\ AddOwn(s, {}).router = s.router
  BY DEF AddOwn
<1> QED
  BY <1>1, <1>2

(* Then empty tables are right.                                            *)
LEMMA NothingCarried ==
  ASSUME NEW reg, \A n \in Nets : reg[n] \notin Origs, NEW rt, \A o \in Origs : rt[o] = None
  PROVE  Carried(Nothing, reg, rt, rt) /\ RulesAgree(Nothing)
<1>1. /\ Nothing.routes = EmptyBag /\ Nothing.rules = EmptyBag
      /\ Nothing.fib = {} /\ Nothing.rpdb = {} /\ IsKernel(Nothing)
  BY DEF Nothing, IsKernel
<1>2. BagToSet(EmptyBag) = {} /\ IsABag(EmptyBag)
  BY SetBag DEF EmptyBag
<1> QED
  BY <1>1, <1>2 DEF Carried, RulesAgree, Agrees, Owned, Routed, KeysOf

(* update_interface_rules changes no route to a host or an announced       *)
(* network.                                                                *)
LEMMA RebuildCarried ==
  ASSUME Disjoint, conf \in Confs,
         NEW k, NEW reg, NEW rt, NEW via, Carried(k, reg, rt, via), RulesAgree(k),
         NEW tunnel, NEW throws \in SUBSET ThrowNets,
         NEW j, j = Rebuild(k, tunnel, throws)
  PROVE  Carried(j, reg, rt, via) /\ RulesAgree(j)
<1> DEFINE f == FlushMyNet(k)
<1>1. Carried(f, reg, rt, via) /\ RulesAgree(f)
  BY FlushMyNetCarried
<1>2. j = Install(f, tunnel, throws)
  BY DEF Rebuild
<1> HIDE DEF f
<1> QED
  BY <1>1, <1>2, InstallCarried

(* Other kernel tables in the same lists.                                  *)
LEMMA KernelExcept ==
  /\ \A k, f, g : IsKernel(k) => [k EXCEPT !.fib = f, !.rpdb = g] =
                     [routes |-> k.routes, rules |-> k.rules, fib |-> f, rpdb |-> g]
  /\ \A f, g : [Nothing EXCEPT !.fib = f, !.rpdb = g] =
                     [routes |-> EmptyBag, rules |-> EmptyBag, fib |-> f, rpdb |-> g]
<1>1. ASSUME NEW k, IsKernel(k), NEW f, NEW g, NEW j, j = [k EXCEPT !.fib = f, !.rpdb = g]
      PROVE  j = [routes |-> k.routes, rules |-> k.rules, fib |-> f, rpdb |-> g]
  <2>1. /\ IsKernel(j) /\ j.routes = k.routes /\ j.rules = k.rules
        /\ j.fib = f /\ j.rpdb = g
    BY <1>1 DEF IsKernel
  <2> QED
    BY <2>1 DEF IsKernel
<1>2. IsKernel(Nothing) /\ Nothing.routes = EmptyBag /\ Nothing.rules = EmptyBag
  BY DEF Nothing, IsKernel
<1> QED
  BY <1>1, <1>2

(* flush_routes_rules keeps the shape of the tables.                       *)
LEMMA OrphansKernel ==
  ASSUME NEW k, IsKernel(k)
  PROVE  IsKernel(FlushOrphans(k))
<1> DEFINE fib == IF throw_rules THEN {} ELSE {q \in k.fib : q.type = "throw"}
           rpdb == IF prio_rules THEN {} ELSE k.rpdb
<1>1. FlushOrphans(k) = [k EXCEPT !.fib = fib, !.rpdb = rpdb]
  BY DEF FlushOrphans
<1> HIDE DEF fib, rpdb
<1> QED
  BY <1>1, KernelExcept DEF IsKernel

(* So does adding rules.                                                   *)
LEMMA AddRulesKernel ==
  ASSUME NEW k, IsKernel(k), NEW bag, NEW track
  PROVE  IsKernel(AddRules(k, bag, track))
<1> DEFINE j == AddRules(k, bag, track)
<1>1. j = [k EXCEPT !.rules = TrackRules(@, bag, track), !.rpdb = @ \cup BagToSet(bag)]
  BY DEF AddRules
<1> HIDE DEF j
<1>2. IsKernel(j)
  BY <1>1 DEF IsKernel
<1> QED
  BY <1>2 DEF j

(* The addresses hashed are those of the present configuration.            *)
LEMMA AddressesOfConf == Addresses = AddressesIn(conf) /\ Up = UpIn(conf)
BY DEF Addresses, AddressesIn, Up, UpIn

(* flush_routes_rules leaves nothing of an earlier bmxd.                   *)
LEMMA OrphansLeft ==
  ASSUME NEW k, IsKernel(k), k.routes = EmptyBag, k.rules = EmptyBag,
         \A q \in k.fib : q.type = "throw" => throw_rules, ~prio_rules => k.rpdb = {}
  PROVE  FlushOrphans(k) = Nothing
<1> DEFINE fib == IF throw_rules THEN {} ELSE {q \in k.fib : q.type = "throw"}
           rpdb == IF prio_rules THEN {} ELSE k.rpdb
<1>1. FlushOrphans(k) = [k EXCEPT !.fib = fib, !.rpdb = rpdb]
  BY DEF FlushOrphans
<1>2. fib = {} /\ rpdb = {}
  OBVIOUS
<1> HIDE DEF fib, rpdb
<1>3. [k EXCEPT !.fib = fib, !.rpdb = rpdb]
        = [routes |-> k.routes, rules |-> k.rules, fib |-> fib, rpdb |-> rpdb]
  BY KernelExcept DEF IsKernel
<1> QED
  BY <1>1, <1>2, <1>3 DEF Nothing

(* The steps of the system.  At first there is nothing.                    *)
LEMMA RoutingInit == Init => RoutingInv
<1> SUFFICES ASSUME Init PROVE RoutingInv
  OBVIOUS
<1>1. State = [reg |-> [n \in AllNets |-> None], hna |-> [o \in Origs |-> {}],
               router |-> [o \in Origs |-> None], kt |-> Nothing, bad |-> FALSE]
  BY FreshState DEF Init, State
<1>2. Sane(State) /\ Reached(State)
  BY <1>1, Blank
<1>3. conf \in Confs /\ throw_list \in SUBSET ThrowNets
  BY DEF Init, Confs
<1>4. LeftOver(kt)
  BY DEF Init, LeftOver, Nothing, IsKernel
<1>5. ~running /\ \A n \in AllNets : registry[n] = None
  BY FreshState DEF Init
<1>6. conf["lo"] = LoNet /\ IsKernel(kt)
  BY DEF Init, Nothing, IsKernel
<1> QED
  BY <1>2, <1>3, <1>4, <1>5, <1>6 DEF RoutingInv

(* The start flushes what an earlier bmxd left and installs from nothing.  *)
LEMMA RoutingStart == RoutingInv /\ Start => RoutingInv'
<1> SUFFICES ASSUME RoutingInv, Start PROVE RoutingInv'
  OBVIOUS
<1>1. PICK own \in SUBSET OwnNets, throws \in SUBSET ThrowNets :
        LET s == StartHna(FlushOrphans(kt), own)
        IN  /\ registry' = s.reg /\ hna' = s.hna /\ router' = s.router
            /\ fatal' = s.bad
            /\ StartRules(s.kt, throws)
  BY DEF Start
<1> DEFINE b == [reg |-> [n \in AllNets |-> None], hna |-> [o \in Origs |-> {}],
                 router |-> [o \in Origs |-> None], kt |-> FlushOrphans(kt), bad |-> FALSE]
           s == AddOwn(b, own)
           standard == IF prio_rules THEN AddRules(s.kt, SetToBag(StandardRules), "standard")
                       ELSE s.kt
<1>2. /\ registry' = s.reg /\ hna' = s.hna /\ router' = s.router /\ fatal' = s.bad
      /\ throw_list' = throws /\ conf' = conf
      /\ kt' = Rebuild(standard, FALSE, throws)
  BY <1>1 DEF StartHna, StartRules
<1>3. /\ Sane(b) /\ \A n \in own : b.reg[n] = None
      /\ \A n \in Nets : b.reg[n] \notin Origs
      /\ \A o \in Origs : b.router[o] = None /\ b.hna[o] = {}
      /\ b.kt = FlushOrphans(kt)
  BY Blank, HnaAssumption DEF AllNets
<1> HIDE DEF b
<1>4. Announced(b, own, s)
  BY <1>3, AddOwnSane
<1>5. Sane(State') /\ Reached(State')
  BY <1>2, <1>3, <1>4 DEF Announced, Sane, IsState, Consistent, State, Reached
<1>6. running' /\ throw_list' \in SUBSET ThrowNets /\ conf' = conf
  BY <1>2 DEF Start
<1>8. IsKernel(kt') /\ Whole(Local(kt')) /\ InForce(Local(kt))'
  <2>1. IsKernel(FlushOrphans(kt))
    BY OrphansKernel DEF RoutingInv
  <2>2. IsKernel(s.kt)
    BY <1>3, <1>4, <2>1, AddFields DEF Announced
  <2> HIDE DEF s
  <2>3. IsKernel(standard)
    BY <2>2, AddRulesKernel
  <2> HIDE DEF standard
  <2>5. checksum' = AddressesIn(conf) /\ setup_tunnel' = FALSE
    BY <1>1, AddressesOfConf DEF StartRules
  <2>4. /\ IsKernel(kt') /\ Whole(Local(kt'))
        /\ MyNet(kt'.routes) = RoutesFor(conf, setup_tunnel', throws)
        /\ MyNet(kt'.rules) = RulesFor(conf, setup_tunnel', throws)
    <3>1. kt' = Rebuild(standard, setup_tunnel', throws)
      BY <1>2, <2>5
    <3> QED
      BY <2>3, <3>1, RebuildLocal
  <2> QED
    BY <1>2, <2>4, <2>5 DEF RoutingInv, InForce, Local
<1>7. ASSUME Disjoint
      PROVE  Carried(kt', registry', router', router') /\ RulesAgree(kt')
  <2>1. ~running
    BY DEF Start
  <2>2. b.kt = Nothing
    BY <1>3, <1>7, <2>1, OrphansLeft DEF RoutingInv, LeftOver
  <2> DEFINE loc == Local(Nothing)
  <2>3. Held(b, b.router, loc)
    <3>1. IsKernel(Nothing) /\ DOMAIN loc.routes = {}
      BY SetBag DEF Nothing, IsKernel, Local, MyNet, EmptyBag, BagToSet
    <3> HIDE DEF loc
    <3>2. Whole(loc)
      BY <3>1 DEF Whole
    <3> QED
      BY <1>3, <2>2, <3>1, <3>2, NothingCarried DEF Held, loc
  <2>4. Held(s, b.router, loc) /\ s.router = b.router
    BY <1>3, <1>4, <2>3, AddOwnHeld DEF Announced
  <2> HIDE DEF s
  <2>5. Carried(s.kt, registry', router', router') /\ RulesAgree(s.kt)
    BY <1>2, <1>7, <2>4 DEF Held
  <2>6. Carried(standard, registry', router', router') /\ RulesAgree(standard)
    <3>1. CASE ~prio_rules
      BY <2>5, <3>1
    <3>2. CASE prio_rules
      <4>1. IsKernel(standard) /\ RulesAgree(standard)
            /\ standard.routes = s.kt.routes /\ standard.fib = s.kt.fib
        BY <2>5, <3>2, AddRulesAgree DEF Carried
      <4> QED
        BY <2>5, <4>1 DEF Carried, Agrees, Owned, Routed
    <3> QED
      BY <3>1, <3>2
  <2> HIDE DEF standard
  <2> QED
    BY <1>2, <1>7, <2>6, RebuildCarried DEF RoutingInv
<1> QED
  BY <1>5, <1>6, <1>7, <1>8 DEF RoutingInv

(* A process that ends keeps nothing but the kernel.                       *)
LEMMA RoutingGone ==
  ASSUME RoutingInv, NEW k, Gone(k), IsKernel(k), Disjoint => LeftOver(k)
  PROVE  RoutingInv'
<1>1. State' = [reg |-> [n \in AllNets |-> None], hna |-> [o \in Origs |-> {}],
                router |-> [o \in Origs |-> None], kt |-> k, bad |-> FALSE]
  BY FreshState DEF Gone, State
<1>2. Sane(State') /\ Reached(State')
  BY <1>1, Blank
<1>3. conf' = conf /\ throw_list' \in SUBSET ThrowNets
  BY DEF Gone
<1>4. ~running' /\ kt' = k /\ \A n \in AllNets : registry'[n] = None
  BY FreshState DEF Gone
<1> QED
  BY <1>2, <1>3, <1>4 DEF RoutingInv

(* A crash leaves the kernel as it was.                                    *)
LEMMA RoutingCrash == RoutingInv /\ Crash => RoutingInv'
<1> SUFFICES ASSUME RoutingInv, Crash PROVE RoutingInv'
  OBVIOUS
<1> DEFINE k == [Nothing EXCEPT !.fib = kt.fib, !.rpdb = kt.rpdb]
<1>1. Gone(k) /\ running
  BY DEF Crash, Gone
<1>2. IsKernel(k) /\ (Disjoint => LeftOver(k))
  <2>1. /\ k.fib = kt.fib /\ k.rpdb = kt.rpdb /\ IsKernel(k)
        /\ k.routes = EmptyBag /\ k.rules = EmptyBag
    <3>1. k = [routes |-> EmptyBag, rules |-> EmptyBag, fib |-> kt.fib, rpdb |-> kt.rpdb]
      BY KernelExcept
    <3> HIDE DEF k
    <3> QED
      BY <3>1 DEF IsKernel
  <2> QED
    BY <1>1, <2>1 DEF RoutingInv, LeftOver, Carried, RulesAgree, Agrees
<1> QED
  BY <1>1, <1>2, RoutingGone

(* cleanup_all leaves nothing.                                             *)
LEMMA RoutingTerminate == RoutingInv /\ Terminate => RoutingInv'
<1> SUFFICES ASSUME RoutingInv, Terminate PROVE RoutingInv'
  OBVIOUS
<1> DEFINE f == FlushTrackedRoutes(kt, Everyone)
           g == FlushTrackedRules(f, Everyone)
           k == FlushOrphans(g)
<1>1. Gone(k) /\ running
  BY DEF Terminate, Gone
<1>3. IsKernel(k)
  <2>1. IsKernel(f)
    BY FlushFields DEF RoutingInv
  <2> HIDE DEF f
  <2>2. IsKernel(g)
    BY <2>1, FlushRulesKernel
  <2> HIDE DEF g
  <2> QED
    BY <2>2, OrphansKernel
<1>2. ASSUME Disjoint
      PROVE  LeftOver(k)
  <2>1. /\ IsKernel(kt) /\ Agrees(kt) /\ Owned(kt, registry, router)
        /\ RulesAgree(kt)
    BY <1>1, <1>2 DEF RoutingInv, Carried
  <2>2. /\ IsKernel(f) /\ Agrees(f)
        /\ f.rules = kt.rules /\ f.rpdb = kt.rpdb
    BY <2>1, FlushAgrees
  <2>3. /\ f.routes = [e \in {x \in BagToSet(kt.routes) : x.track \notin Everyone} |-> kt.routes[e]]
        /\ g.rules = [e \in {x \in BagToSet(f.rules) : x.track \notin Everyone} |-> f.rules[e]]
    BY <2>1, <2>2 DEF FlushTrackedRoutes, FlushTrackedRules, IsKernel, Only
  <2>4. /\ {x \in BagToSet(kt.routes) : x.track \notin Everyone} = {}
        /\ {x \in BagToSet(f.rules) : x.track \notin Everyone} = {}
    BY <2>1, <2>2, EntryFields DEF Owned, RulesAgree, Everyone
  <2>5. f.routes = EmptyBag /\ g.rules = EmptyBag
    BY <2>3, <2>4 DEF EmptyBag, SetToBag
  <2> HIDE DEF f
  <2>6. RulesAgree(f)
    BY <2>1, <2>2 DEF RulesAgree
  <2>7. IsKernel(g) /\ RulesAgree(g) /\ g.routes = f.routes /\ g.fib = f.fib
    BY <2>2, <2>6, FlushRulesAgree
  <2> HIDE DEF g
  <2>8. k = Nothing
    BY <2>2, <2>5, <2>7, OrphansLeft DEF Agrees, RulesAgree
  <2> QED
    BY <2>8 DEF LeftOver, Nothing, IsKernel
<1> HIDE DEF k
<1> QED
  BY <1>1, <1>2, <1>3, RoutingGone

(* check_interfaces, opt_throw and the tunnel.                             *)
LEMMA RoutingRules ==
  RoutingInv /\ running /\ (CheckInterfaces \/ CheckFails \/ OptThrow \/ \E on \in BOOLEAN : SetTunnel(on))
    /\ UNCHANGED <<hnaVars, running>> => RoutingInv'
<1> SUFFICES ASSUME RoutingInv, running, UNCHANGED <<hnaVars, running>>,
                    CheckInterfaces \/ CheckFails \/ OptThrow \/ \E on \in BOOLEAN : SetTunnel(on)
             PROVE  RoutingInv'
  OBVIOUS
<1>1. /\ conf' = conf /\ throw_list' \in SUBSET ThrowNets
      /\ \/ /\ kt' = kt
            /\ \/ checksum' = checksum /\ setup_tunnel' = setup_tunnel /\ throw_list' = throw_list
               \/ checksum' = Unknown
         \/ kt' = FlushMyNet(kt) /\ checksum' = Unknown
         \/ kt' = Rebuild(kt, setup_tunnel', throw_list') /\ checksum' = Addresses
  <2>1. throw_list \in SUBSET ThrowNets
    BY DEF RoutingInv
  <2>2. CASE CheckInterfaces
    BY <2>1, <2>2 DEF CheckInterfaces
  <2>3. CASE CheckFails
    BY <2>1, <2>3 DEF CheckFails
  <2>4. CASE OptThrow
    BY <2>4 DEF OptThrow
  <2>5. CASE \E on \in BOOLEAN : SetTunnel(on)
    BY <2>1, <2>5 DEF SetTunnel
  <2> QED
    BY <2>2, <2>3, <2>4, <2>5
<1>2. Sane(State') /\ Reached(State')
  BY DEF RoutingInv, hnaVars, Sane, IsState, Consistent, Reached, State
<1>4. IsKernel(kt') /\ Whole(Local(kt')) /\ (checksum' # Unknown => InForce(Local(kt))')
  <2>1. IsKernel(kt) /\ Whole(Local(kt)) /\ (checksum # Unknown => InForce(Local(kt)))
    BY DEF RoutingInv
  <2>2. CASE /\ kt' = kt
             /\ \/ checksum' = checksum /\ setup_tunnel' = setup_tunnel /\ throw_list' = throw_list
                \/ checksum' = Unknown
    BY <2>1, <2>2 DEF InForce
  <2>3. CASE kt' = FlushMyNet(kt) /\ checksum' = Unknown
    BY <2>1, <2>3, FlushLocal
  <2>4. CASE kt' = Rebuild(kt, setup_tunnel', throw_list') /\ checksum' = Addresses
    <3>1. /\ IsKernel(kt') /\ Whole(Local(kt'))
          /\ MyNet(kt'.routes) = RoutesFor(conf, setup_tunnel', throw_list')
          /\ MyNet(kt'.rules) = RulesFor(conf, setup_tunnel', throw_list')
      BY <2>1, <2>4, RebuildLocal
    <3> QED
      BY <3>1, <2>4, AddressesOfConf DEF RoutingInv, InForce, Local
  <2> QED
    BY <1>1, <2>2, <2>3, <2>4
<1>3. ASSUME Disjoint
      PROVE  Carried(kt', registry', router', router') /\ RulesAgree(kt')
  <2>1. Carried(kt, registry, router, router) /\ RulesAgree(kt)
        /\ registry' = registry /\ router' = router
    BY <1>3 DEF RoutingInv, hnaVars
  <2> QED
    BY <1>1, <1>3, <2>1, FlushMyNetCarried, RebuildCarried DEF RoutingInv
<1> QED
  BY <1>1, <1>2, <1>3, <1>4 DEF RoutingInv

(* A handler of hna.c that is through keeps the invariant.                 *)
LEMMA BecomeFinal ==
  ASSUME RoutingInv, running, NEW s, Final(s, Local(kt)), Become(s), UNCHANGED <<ifVars, running>>
  PROVE  RoutingInv'
<1>1. State' = s
  <2>1. s = [reg |-> s.reg, hna |-> s.hna, router |-> s.router, kt |-> s.kt, bad |-> s.bad]
    BY DEF Final, Held, Sane, IsState
  <2> QED
    BY <2>1 DEF State, Become
<1>2. Sane(State') /\ Reached(State')
  BY <1>1 DEF Final, Held
<1>3. Disjoint => Carried(kt', registry', router', router') /\ RulesAgree(kt')
  BY DEF Final, Held, Become
<1>4. IsKernel(kt') /\ Local(kt') = Local(kt) /\ Whole(Local(kt'))
  BY DEF Final, Held, Become
<1>5. /\ conf' = conf /\ setup_tunnel' = setup_tunnel /\ checksum' = checksum
      /\ throw_list' = throw_list /\ running' = running
  BY DEF ifVars
<1>6. checksum' # Unknown => InForce(Local(kt))'
  BY <1>4, <1>5 DEF RoutingInv, InForce
<1> QED
  BY <1>2, <1>3, <1>4, <1>5, <1>6 DEF RoutingInv

(* All handlers of hna.c.                                                  *)
LEMMA RoutingAnnouncements == RoutingInv /\ running /\ Announcements => RoutingInv'
<1> SUFFICES ASSUME RoutingInv, running, Announcements PROVE RoutingInv'
  OBVIOUS
<1> DEFINE loc == Local(kt)
<1>1. Final(State, loc) /\ Held(State, router, loc) /\ Sane(State) /\ State.router = router
  BY StateOf DEF RoutingInv, Final, Held
<1> HIDE DEF loc
<1>2. UNCHANGED <<ifVars, running>>
  BY DEF Announcements
<1>3. ASSUME NEW o \in Origs, RecvOgm(o)
      PROVE  RoutingInv'
  <2>1. PICK nets \in SUBSET Nets, rt \in Neighbours \cup {None} :
          \E s \in Hook(SetRouter(State, o, rt), o, nets, router[o]) : Become(s)
    BY <1>3 DEF RecvOgm
  <2>2. PICK s \in Hook(SetRouter(State, o, rt), o, nets, router[o]) : Become(s)
    BY <2>1
  <2> DEFINE r == SetRouter(State, o, rt)
  <2>3. /\ Held(r, router, loc) /\ r.hna = hna /\ r.router = [router EXCEPT ![o] = rt]
    BY <1>1, SetRouterHeld, StateOf
  <2>4. /\ \A p \in Origs : p # o => router[p] = r.router[p]
        /\ \A p \in Origs : r.hna[p] # {} => router[p] # None
    BY <1>1, <2>3, StateOf DEF Final, Reached, Sane, IsState
  <2> HIDE DEF r
  <2>5. Final(s, loc)
    BY <2>2, <2>3, <2>4, HookHeld DEF r
  <2> QED
    BY <1>2, <2>2, <2>5, BecomeFinal DEF loc
<1>4. ASSUME NEW o \in Origs, Purge(o)
      PROVE  RoutingInv'
  <2> DEFINE s == Flush(State, o)
  <2>1. Become(s)
    BY <1>4 DEF Purge
  <2>2. /\ Held(s, router, loc) /\ s.hna[o] = {}
        /\ \A p \in Origs : p # o => s.hna[p] = State.hna[p] /\ s.router[p] = router[p]
    BY <1>1, FlushHeld
  <2> HIDE DEF s
  <2>3. \A p \in Origs : s.hna[p] # {} => router[p] = s.router[p] /\ s.router[p] # None
    BY <2>2, <1>1 DEF Final, Reached
  <2>4. Final(s, loc)
    BY <2>2, <2>3, Settle DEF Reached
  <2> QED
    BY <1>2, <2>1, <2>4, BecomeFinal DEF loc
<1>5. ASSUME NEW o \in Origs, Silence(o)
      PROVE  RoutingInv'
  <2>1. State' = State /\ kt' = kt /\ registry' = registry /\ router' = router
    BY <1>5 DEF Silence, State
  <2> QED
    BY <2>1, <1>2 DEF RoutingInv, ifVars, InForce
<1>6. ASSUME NEW n \in OwnNets, OptHnaAdd(n)
      PROVE  RoutingInv'
  <2> DEFINE s == AddOwn(State, {n})
  <2>1. Become(s) /\ registry[n] = None
    BY <1>6 DEF OptHnaAdd
  <2>2. Held(s, router, loc) /\ Announced(State, {n}, s)
    BY <2>1, <1>1, AddOwnHeld, StateOf
  <2> HIDE DEF s
  <2>3. Final(s, loc)
    BY <2>2, <1>1 DEF Final, Announced, Reached
  <2> QED
    BY <1>2, <2>1, <2>3, BecomeFinal DEF loc
<1>7. ASSUME NEW n \in OwnNets, OptHnaDel(n)
      PROVE  RoutingInv'
  <2> DEFINE s == DelOwn(State, n)
  <2>1. Become(s) /\ registry[n] = Me
    BY <1>7 DEF OptHnaDel
  <2>2. /\ Held(s, router, loc) /\ s.hna = State.hna /\ s.router = State.router
        /\ s.reg = [registry EXCEPT ![n] = None]
    BY <2>1, <1>1, DelOwnHeld, StateOf
  <2> HIDE DEF s
  <2>3. Final(s, loc)
    BY <2>2, <1>1 DEF Final, Reached
  <2> QED
    BY <1>2, <2>1, <2>3, BecomeFinal DEF loc
<1>8. ASSUME NEW old \in OwnNets, NEW new \in OwnNets, OptHnaChange(old, new)
      PROVE  RoutingInv'
  <2> DEFINE d == DelOwn(State, old)
             s == AddOwn(d, {new})
  <2>1. Become(s) /\ registry[old] = Me /\ registry[new] = None
    BY <1>8 DEF OptHnaChange
  <2>2. /\ Held(d, router, loc) /\ d.hna = State.hna /\ d.router = State.router
        /\ d.reg = [registry EXCEPT ![old] = None]
    BY <2>1, <1>1, DelOwnHeld, StateOf
  <2>3. d.reg[new] = None
    BY <2>1, <2>2, <1>1, StateOf DEF Sane, IsState, AllNets
  <2> HIDE DEF d
  <2>4. Held(s, router, loc) /\ Announced(d, {new}, s)
    BY <2>2, <2>3, AddOwnHeld
  <2> HIDE DEF s
  <2>5. Final(s, loc)
    BY <2>2, <2>4, <1>1 DEF Final, Announced, Reached
  <2> QED
    BY <1>2, <2>1, <2>5, BecomeFinal DEF loc
<1> QED
  BY <1>3, <1>4, <1>5, <1>6, <1>7, <1>8 DEF Announcements

(* Every step keeps the invariant.                                         *)
LEMMA RoutingStep == RoutingInv /\ [Next]_vars => RoutingInv'
<1> SUFFICES ASSUME RoutingInv, [Next]_vars PROVE RoutingInv'
  OBVIOUS
<1>1. CASE System
  <2>1. PICK i \in Ifaces : Reconfigure(i) /\ UNCHANGED <<hnaVars, running>>
    BY <1>1 DEF System
  <2>2. /\ conf' \in Confs /\ conf'["lo"] = LoNet /\ kt' = kt /\ throw_list' = throw_list
        /\ checksum' = checksum /\ setup_tunnel' = setup_tunnel
    BY <2>1, IfaceAssumption DEF Reconfigure, RoutingInv, Confs
  <2>3. State' = State /\ registry' = registry /\ router' = router /\ running' = running
    BY <2>1, <2>2 DEF State, hnaVars
  <2> QED
    BY <2>2, <2>3 DEF RoutingInv, InForce
<1>2. CASE running /\ Rules
  BY <1>2, RoutingRules DEF Rules
<1>3. CASE UNCHANGED vars
  <2>1. State' = State
    BY <1>3 DEF vars, hnaVars, State
  <2> QED
    BY <1>3, <2>1 DEF vars, hnaVars, ifVars, RoutingInv, InForce
<1> QED
  BY <1>1, <1>2, <1>3, RoutingStart, RoutingCrash, RoutingTerminate, RoutingAnnouncements DEF Next

(* So it always holds.                                                     *)
LEMMA RoutingAlways == Spec => []RoutingInv
<1> QED
  BY RoutingInit, RoutingStep, PTL DEF Spec

(* The registry of networks and what is stored for each originator always  *)
(* say the same, so add_del_hna and update_other_hna never end the         *)
(* daemon, for any number of nodes and networks and whatever overlaps.     *)
THEOREM RegistryNeverContradicts == Spec => []NeverContradicts
<1>1. RoutingInv => NeverContradicts
  BY StateOf DEF RoutingInv, Sane, Consistent, NeverContradicts
<1> QED
  BY <1>1, RoutingAlways, PTL

(* While bmxd runs the kernel has exactly the routes and rules it tracks,  *)
(* unless an address is a network of this node or a foreign network a      *)
(* local one.                                                              *)
THEOREM KernelIsTracked == Disjoint => (Spec => []KernelAsTracked)
<1> SUFFICES ASSUME Disjoint PROVE Spec => []KernelAsTracked
  OBVIOUS
<1>1. RoutingInv => KernelAsTracked
  BY DEF RoutingInv, KernelAsTracked, Carried, Agrees, RulesAgree, KeysOf
<1> QED
  BY <1>1, RoutingAlways, PTL

(* Under the same assumption every network somebody announces is routed    *)
(* the way its announcer is.                                               *)
THEOREM NetworksFollowHosts == Disjoint => (Spec => []NetworkFollowsHost)
<1> SUFFICES ASSUME Disjoint PROVE Spec => []NetworkFollowsHost
  OBVIOUS
<1>1. ASSUME RoutingInv PROVE NetworkFollowsHost
  <2>1. SUFFICES ASSUME NEW n \in Nets, registry[n] \in Origs
                 PROVE  /\ router[registry[n]] # None
                        /\ OtherRoute(n, router[registry[n]]) \in kt.fib
                        /\ HostRoute(registry[n], router[registry[n]], PrimaryAddr) \in kt.fib
    BY DEF NetworkFollowsHost
  <2>2. running
    BY <1>1, <2>1, HnaAssumption DEF RoutingInv, AllNets
  <2>3. Agrees(kt) /\ Owned(kt, registry, router) /\ Routed(kt, registry, router, router)
    BY <1>1, <2>2 DEF RoutingInv, Carried
  <2>4. router[registry[n]] # None
    BY <1>1, <2>1, StateOf DEF RoutingInv, Sane, Consistent, Reached, AllNets
  <2>5. HostKey(registry[n]) \in KeysOf(kt.routes) /\ OtherKey(n) \in KeysOf(kt.routes)
    BY <2>1, <2>3, <2>4, EntryFields DEF Owned, KeysOf
  <2>6. PICK p \in kt.fib : RouteKey(p) = HostKey(registry[n])
    BY <2>3, <2>5 DEF Agrees
  <2>7. PICK q \in kt.fib : RouteKey(q) = OtherKey(n)
    BY <2>3, <2>5 DEF Agrees
  <2> QED
    BY <2>1, <2>3, <2>4, <2>6, <2>7 DEF Routed
<1> QED
  BY <1>1, RoutingAlways, PTL

(* What a fresh installation would make.                                   *)
LEMMA FreshInstall ==
  ASSUME NEW tunnel, NEW throws, NEW want, want = Install(Nothing, tunnel, throws)
  PROVE  /\ want.routes = RoutesFor(conf, tunnel, throws)
         /\ want.rules = RulesFor(conf, tunnel, throws)
<1>1. BagToSet(Nothing.routes) = {} /\ BagToSet(Nothing.rules) = {} /\ IsKernel(Nothing)
  BY SetBag DEF Nothing, EmptyBag, IsKernel
<1>2. /\ MyNet(want.routes) = RoutesFor(conf, tunnel, throws)
      /\ MyNet(want.rules) = RulesFor(conf, tunnel, throws)
      /\ \A e \in BagToSet(want.routes) : e.track = "my_net"
      /\ \A e \in BagToSet(want.rules) : e.track = "my_net"
  BY <1>1, InstallLocal
<1>3. /\ want.routes = [e \in DOMAIN want.routes |-> want.routes[e]]
      /\ want.rules = [e \in DOMAIN want.rules |-> want.rules[e]]
  <2> DEFINE a == AddRoutes(Nothing, RouteBag(conf, tunnel, throws), "my_net")
  <2>1. IsKernel(a) /\ \E E : a.routes = Nothing.routes (+) E
    BY <1>1, AddFields
  <2>2. want = AddRules(a, RuleBag(conf, tunnel, throws), "my_net")
    BY Installed
  <2> HIDE DEF a
  <2>3. want.routes = a.routes /\ \E E : want.rules = a.rules (+) E
    BY <2>1, <2>2 DEF AddRules, TrackRules, IsKernel
  <2>4. \A A, E : A (+) E = [e \in DOMAIN (A (+) E) |-> (A (+) E)[e]]
    BY DEF (+)
  <2> QED
    BY <2>1, <2>3, <2>4
<1>4. ASSUME NEW list, list = [e \in DOMAIN list |-> list[e]],
             \A e \in BagToSet(list) : e.track = "my_net"
      PROVE  MyNet(list) = list
  BY <1>4 DEF MyNet, BagToSet
<1> QED
  BY <1>2, <1>3, <1>4

(* While the checksum is that of the addresses the throw routes and rules  *)
(* are those a fresh installation would make: whatever invalidates them    *)
(* also resets the checksum.                                               *)
THEOREM RulesStayCurrent == Spec => []RulesCurrent
<1>1. ASSUME RoutingInv, running, checksum = Addresses
      PROVE  /\ MyNet(kt.routes) = RoutesFor(conf, setup_tunnel, throw_list)
             /\ MyNet(kt.rules) = RulesFor(conf, setup_tunnel, throw_list)
  <2>1. <<"lo", LoNet>> \in Addresses
    BY <1>1, IfaceAssumption DEF RoutingInv, Addresses, Up
  <2>2. PICK c \in Confs :
          /\ checksum = AddressesIn(c)
          /\ MyNet(kt.routes) = RoutesFor(c, setup_tunnel, throw_list)
          /\ MyNet(kt.rules) = RulesFor(c, setup_tunnel, throw_list)
    BY <1>1, <2>1 DEF RoutingInv, Unknown, InForce, Local
  <2>3. AddressesIn(c) = AddressesIn(conf) /\ conf \in Confs
    BY <1>1, <2>2, AddressesOfConf DEF RoutingInv
  <2>4. UpIn(c) = UpIn(conf) /\ \A i \in UpIn(c) : c[i] = conf[i]
    <3>1. ASSUME NEW i \in UpIn(c)
          PROVE  i \in UpIn(conf) /\ c[i] = conf[i]
      <4>1. <<i, c[i]>> \in AddressesIn(conf)
        BY <2>3 DEF AddressesIn
      <4> QED
        BY <4>1 DEF AddressesIn
    <3>2. ASSUME NEW i \in UpIn(conf)
          PROVE  i \in UpIn(c)
      <4>1. <<i, conf[i]>> \in AddressesIn(c)
        BY <2>3 DEF AddressesIn
      <4> QED
        BY <4>1 DEF AddressesIn
    <3> QED
      BY <3>1, <3>2
  <2>5. /\ RouteBag(c, setup_tunnel, throw_list) = RouteBag(conf, setup_tunnel, throw_list)
        /\ RuleBag(c, setup_tunnel, throw_list) = RuleBag(conf, setup_tunnel, throw_list)
    BY <2>4 DEF RouteBag, RuleBag
  <2> QED
    BY <2>2, <2>5 DEF RoutesFor, RulesFor
<1>2. ASSUME RoutingInv PROVE RulesCurrent
  <2>1. SUFFICES ASSUME running, checksum = Addresses
                 PROVE  /\ MyNet(kt.routes) = Install(Nothing, setup_tunnel, throw_list).routes
                        /\ MyNet(kt.rules) = Install(Nothing, setup_tunnel, throw_list).rules
    BY DEF RulesCurrent, Only, MyNet
  <2> QED
    BY <2>1, <1>1, <1>2, FreshInstall
<1> QED
  BY <1>2, RoutingAlways, PTL
=============================================================================
