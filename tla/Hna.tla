-------------------------------- MODULE Hna --------------------------------
(* Announced networks (hna.c): the registry that gives every network to at *)
(* most one announcer, the networks each originator is known to announce,  *)
(* and the kernel's routes that follow its router.                         *)
EXTENDS KernelTables

CONSTANTS
    Origs,        \* the other originators
    Vservers,     \* those within the address range ddmesh_ignore_hna allows
    Neighbours,   \* possible routers
    Nets,         \* networks others announce
    OwnNets,      \* networks the option --hna may name
    PrimaryAddr   \* primary_addr, on an interface that is always up

Me == "me"

ASSUME HnaAssumption ==
    /\ Vservers \subseteq Origs
    /\ Me \notin Origs \cup {None}
    /\ None \notin Origs \cup Neighbours \cup {PrimaryAddr}

VARIABLES
    registry,   \* hna_avl: the owner of a network, or None
    hna,        \* plugin_data: the networks stored for an originator
    router,     \* orig_node->router, or None
    overdue,    \* no valid OGM of it for dad_to seconds
    fatal       \* cleanup_all was called for an inconsistency

hnaVars == <<registry, hna, router, overdue, fatal>>

AllNets == Nets \cup OwnNets

-----------------------------------------------------------------------------
OwnRoutes(n) == {Throw(n, t) : t \in Tables}
OtherRoute(n, gw) == Route(n, "networks", "unicast", gw, PrimaryAddr)
HostRoute(o, gw, src) == Route(o, "hosts", "unicast", gw, src)

(* The state the functions below work on.                                  *)
State == [reg |-> registry, hna |-> hna, router |-> router, kt |-> kt, bad |-> fatal]

(* update_other_hna without networks: add_del_hna gives back those that    *)
(* are the originator's.                                                   *)
Forget(s, o) ==
    LET his == {n \in s.hna[o] : s.reg[n] = o}
    IN  [s EXCEPT
            !.bad = @ \/ s.hna[o] = {},
            !.hna[o] = {},
            !.reg = [n \in AllNets |-> IF n \in his THEN None ELSE @[n]],
            !.kt = DelRoutes(@, {OtherRoute(n, None) : n \in his}, "other_hna")]

(* update_other_hna with networks: add_del_hna takes those that are free,  *)
(* and ends the daemon over any other.                                     *)
Learn(s, o, nets) ==
    LET free == {n \in nets : s.reg[n] = None}
    IN  [s EXCEPT
            !.bad = @ \/ s.hna[o] # {} \/ free # nets,
            !.hna[o] = nets,
            !.reg = [n \in AllNets |-> IF n \in free THEN o ELSE @[n]],
            !.kt = AddRoutes(@, SetToBag({OtherRoute(n, s.router[o]) : n \in free}),
                             "other_hna")]

(* cb_hna_orig_destroy.                                                    *)
Destroy(s, o) == IF s.hna[o] = {} THEN s ELSE Forget(s, o)

(* update_routes.                                                          *)
SetRouter(s, o, rt) ==
    LET old == s.router[o]
        del == IF old = None THEN s.kt
               ELSE DelRoute(s.kt, HostRoute(o, old, None), "other_host")
    IN  IF rt = old THEN s
        ELSE [s EXCEPT !.router[o] = rt,
                       !.kt = IF rt = None THEN del
                              ELSE AddRoute(del, HostRoute(o, rt, PrimaryAddr), "other_host")]

(* flush_orig without an interface.                                        *)
Flush(s, o) == Destroy(SetRouter(s, o, None), o)

-----------------------------------------------------------------------------
(* Mutant: own networks are not looked at. *)
BlockedByOthers(s, o, nets) == {n \in nets : s.reg[n] \in Origs \ {o}}

(* cb_hna_ogm_hook.  Networks are compared with what is stored only when   *)
(* some are announced; the first one that is taken decides.                *)
Blocked(s, o, nets) == {n \in nets : s.reg[n] \notin {None, o}}

(* The owner that is overdue loses all its networks, yet this OGM is still *)
(* rejected.                                                               *)
Evict(s, n) ==
    LET owner == s.reg[n]
    IN  IF owner \in Origs /\ overdue[owner] THEN Forget(s, owner) ELSE s

(* Mutant: only a changed announcement is acted upon. *)
AcceptChanged(s, o, nets, old_router) ==
    LET dropped == IF s.hna[o] = {} THEN s ELSE Forget(s, o)
        learnt == IF s.router[o] # None /\ nets # {} THEN Learn(dropped, o, nets) ELSE dropped
    IN  IF nets # s.hna[o] THEN learnt ELSE s

(* Another router, or another announcement: the old routes go first.       *)
Accept(s, o, nets, old_router) ==
    LET dropped == IF s.hna[o] = {} THEN s ELSE Forget(s, o)
        learnt == IF s.router[o] # None /\ nets # {} THEN Learn(dropped, o, nets) ELSE dropped
    IN  IF old_router # s.router[o] \/ nets # s.hna[o] THEN learnt ELSE s

(* process_ogm: routes follow the new router before the hook is asked; an  *)
(* OGM it rejects costs its originator the route.                          *)
Hook(s, o, nets, old_router) ==
    IF nets = {} \/ nets = s.hna[o] THEN {Accept(s, o, nets, old_router)}
    ELSE IF o \notin Vservers THEN {Flush(s, o)}
    ELSE IF Blocked(s, o, nets) # {}
         THEN {Flush(Evict(s, n), o) : n \in Blocked(s, o, nets)}
    ELSE {Accept(s, o, nets, old_router)}

Become(s) ==
    /\ registry' = s.reg
    /\ hna' = s.hna
    /\ router' = s.router
    /\ kt' = s.kt
    /\ fatal' = s.bad

RecvOgm(o) ==
    \E nets \in SUBSET Nets, rt \in Neighbours \cup {None} :
        /\ overdue' \in {overdue, [overdue EXCEPT ![o] = FALSE]}
        /\ \E routed \in {SetRouter(State, o, rt)} :
           \E s \in Hook(routed, o, nets, router[o]) : Become(s)

(* purge_orig, and flush_orig for an interface that went away.             *)
Purge(o) ==
    /\ \E s \in {Flush(State, o)} : Become(s)
    /\ UNCHANGED overdue

(* dad_to seconds pass without a valid OGM; that only matters to one that  *)
(* owns networks.                                                          *)
Silence(o) ==
    /\ hna[o] # {}
    /\ ~overdue[o]
    /\ overdue' = [overdue EXCEPT ![o] = TRUE]
    /\ UNCHANGED <<registry, hna, router, kt, fatal>>

-----------------------------------------------------------------------------
(* opt_hna: a network that somebody has is refused.                        *)
AddOwn(s, own) ==
    [s EXCEPT !.reg = [n \in AllNets |-> IF n \in own THEN Me ELSE @[n]],
              !.kt = AddRoutes(@, SetToBag(UNION {OwnRoutes(n) : n \in own}), "my_hna")]

DelOwn(s, n) ==
    [s EXCEPT !.reg[n] = None, !.kt = DelRoutes(@, OwnRoutes(n), "my_hna")]

OptHnaAdd(n) ==
    /\ registry[n] = None
    /\ \E s \in {AddOwn(State, {n})} : Become(s)
    /\ UNCHANGED overdue

OptHnaDel(n) ==
    /\ registry[n] = Me
    /\ \E s \in {DelOwn(State, n)} : Become(s)
    /\ UNCHANGED overdue

(* A named announcement gets another network.                              *)
OptHnaChange(old, new) ==
    /\ registry[old] = Me /\ registry[new] = None
    /\ \E s \in {AddOwn(DelOwn(State, old), {new})} : Become(s)
    /\ UNCHANGED overdue

(* The part of the start that concerns announcements: those configured.    *)
StartHna(k, own) ==
    AddOwn([reg |-> [n \in AllNets |-> None], hna |-> [o \in Origs |-> {}],
            router |-> [o \in Origs |-> None], kt |-> k, bad |-> FALSE], own)
=============================================================================
