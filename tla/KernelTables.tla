---------------------------- MODULE KernelTables ----------------------------
(* The routes and rules bmxd asks the kernel for, and the lists in which   *)
(* it remembers what it asked for (linux/route.c).  Two owners may want    *)
(* the same route: each has an entry in routes_list, the kernel is asked   *)
(* for the first and told about the last.  What the kernel answers is only *)
(* logged, so a refused request leaves the lists and the kernel different. *)
EXTENDS Naturals, FiniteSets, Bags

CONSTANTS
    None,            \* no gateway, no source address, no interface
    throw_rules,     \* option: bmxd installs throw routes
    prio_rules       \* option: bmxd installs rules

ASSUME OptionAssumption == throw_rules \in BOOLEAN /\ prio_rules \in BOOLEAN

VARIABLE
    kt   \* routes_list, rules_list, and the kernel's fib and rules

Tables == {"hosts", "networks", "tunnel"}

Nothing == [routes |-> EmptyBag, rules |-> EmptyBag, fib |-> {}, rpdb |-> {}]

Route(d, t, ty, g, s) == [dest |-> d, table |-> t, type |-> ty, gw |-> g, src |-> s]

Throw(d, t) == Route(d, t, "throw", None, None)

(* Gateway and source are no part of the key of an entry.                  *)
RouteKey(r) == [dest |-> r.dest, table |-> r.table, type |-> r.type]

-----------------------------------------------------------------------------
(* The lists.                                                              *)

Only(list, P(_)) == [e \in {x \in BagToSet(list) : P(x)} |-> list[e]]

(* found_rns: the entries with this key, whoever they belong to.           *)
Found(list, key) == {e \in BagToSet(list) : e.key = key}

Entry(key, track) == [key |-> key, track |-> track]

(* Mutant: the first owner that goes takes the route with it. *)
AnyOne(list, key, track) == BagIn(Entry(key, track), list)

(* The kernel is only told about the last entry, and never about an orphan.*)
LastOne(list, key, track) ==
    /\ Found(list, key) = {Entry(key, track)}
    /\ list[Entry(key, track)] = 1

-----------------------------------------------------------------------------
(* The kernel.                                                             *)

SamePlace(q, r) == q.dest = r.dest /\ q.table = r.table

(* NLM_F_EXCL: refused when the table has a route to the destination, of   *)
(* whatever type.                                                          *)
FibAdd(fib, rs) == fib \cup {r \in rs : ~\E q \in fib : SamePlace(q, r)}

(* The request names no type; an attribute that is absent matches all.     *)
FibDel(fib, rs) ==
    {q \in fib : ~\E r \in rs : /\ SamePlace(q, r)
                               /\ r.gw \in {None, q.gw}
                               /\ r.src \in {None, q.src}}

-----------------------------------------------------------------------------
(* add_del_route and add_del_rule, for one or for a bag of them.           *)

Wanted(bag) == Only(bag, LAMBDA r : r.type = "throw" => throw_rules)

(* The entries for a bag of routes, no two of which have the same key.     *)
Entries(bag, track) ==
    [e \in {Entry(RouteKey(r), track) : r \in BagToSet(bag)} |->
        bag[CHOOSE r \in BagToSet(bag) : RouteKey(r) = e.key]]

AddRoutes(k, bag, track) ==
    LET new == Wanted(bag)
    IN  [k EXCEPT
            !.routes = @ (+) Entries(new, track),
            !.fib = FibAdd(@, {r \in BagToSet(new) : Found(k.routes, RouteKey(r)) = {}})]

DelRoutes(k, rs, track) ==
    LET old == BagToSet(Wanted(SetToBag(rs)))
    IN  [k EXCEPT
            !.routes = @ (-) SetToBag({Entry(RouteKey(r), track) : r \in old}),
            !.fib = FibDel(@, {r \in old : LastOne(k.routes, RouteKey(r), track)})]

AddRoute(k, r, track) == AddRoutes(k, SetToBag({r}), track)
DelRoute(k, r, track) == DelRoutes(k, {r}, track)

TrackRules(list, bag, track) ==
    list (+) [e \in {Entry(r, track) : r \in BagToSet(bag)} |-> bag[e.key]]

AddRules(k, bag, track) ==
    [k EXCEPT
        !.rules = TrackRules(@, bag, track),
        !.rpdb = @ \cup BagToSet(bag)]

(* Entry by entry; a key goes from the kernel when its last entry goes.    *)
FlushTrackedRoutes(k, tracks) ==
    LET keep == Only(k.routes, LAMBDA e : e.track \notin tracks)
        gone == {e.key : e \in BagToSet(k.routes)} \ {e.key : e \in BagToSet(keep)}
    IN  [k EXCEPT
            !.routes = keep,
            !.fib = {q \in @ : ~\E x \in gone : SamePlace(q, x)}]

FlushTrackedRules(k, tracks) ==
    LET keep == Only(k.rules, LAMBDA e : e.track \notin tracks)
        gone == {e.key : e \in BagToSet(k.rules)} \ {e.key : e \in BagToSet(keep)}
    IN  [k EXCEPT !.rules = keep, !.rpdb = @ \ gone]

(* flush_routes_rules: whatever the kernel's dump of bmxd's tables shows   *)
(* is deleted without a look at the lists, but add_del_route still returns *)
(* early for a throw route when throw routes are disabled.                 *)
FlushOrphans(k) ==
    [k EXCEPT
        !.fib = IF throw_rules THEN {} ELSE {q \in @ : q.type = "throw"},
        !.rpdb = IF prio_rules THEN {} ELSE @]
=============================================================================
