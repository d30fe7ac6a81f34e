------------------------------ MODULE Routing ------------------------------
(* The kernel's tables under both their writers, announced networks and    *)
(* interface rules, with the daemon killed and started again: the kernel   *)
(* keeps what it was given.                                                *)
EXTENDS InterfaceRules, Hna

VARIABLE running

vars == <<kt, ifVars, hnaVars, running>>

-----------------------------------------------------------------------------
Fresh(k) == StartHna(k, {})

Init ==
    /\ conf \in {c \in [Ifaces -> LanNets \cup {Down, LoNet}] : c["lo"] = LoNet}
    /\ \A i \in Ifaces \ {"lo"} : conf[i] # LoNet
    /\ setup_tunnel = FALSE /\ checksum = Unknown /\ throw_list = {}
    /\ registry = Fresh(Nothing).reg /\ hna = Fresh(Nothing).hna
    /\ router = Fresh(Nothing).router /\ kt = Nothing
    /\ overdue = [o \in Origs |-> FALSE]
    /\ fatal = FALSE
    /\ running = FALSE

(* The options of order four flush what an earlier bmxd left behind, those *)
(* of order five configure, and the rules come last.                       *)
Start ==
    /\ ~running /\ running' = TRUE
    /\ \E own \in SUBSET OwnNets, throws \in SUBSET ThrowNets :
        LET s == StartHna(FlushOrphans(kt), own)
        IN  /\ registry' = s.reg /\ hna' = s.hna /\ router' = s.router
            /\ fatal' = s.bad
            /\ StartRules(s.kt, throws)
    /\ UNCHANGED overdue

(* What the process knew is gone.                                          *)
Gone(k) ==
    /\ running /\ running' = FALSE
    /\ kt' = k
    /\ registry' = Fresh(Nothing).reg /\ hna' = Fresh(Nothing).hna
    /\ router' = Fresh(Nothing).router
    /\ overdue' = [o \in Origs |-> FALSE]
    /\ fatal' = FALSE
    /\ setup_tunnel' = FALSE /\ checksum' = Unknown /\ throw_list' = {}
    /\ UNCHANGED conf

Crash == Gone([Nothing EXCEPT !.fib = kt.fib, !.rpdb = kt.rpdb])

(* cleanup_route: what is tracked, then whatever is left.                  *)
Everyone == {"standard", "my_net", "my_hna", "other_host", "other_hna"}

Terminate ==
    Gone(FlushOrphans(FlushTrackedRules(FlushTrackedRoutes(kt, Everyone), Everyone)))

-----------------------------------------------------------------------------
Rules ==
    /\ \/ CheckInterfaces
       \/ CheckFails
       \/ OptThrow
       \/ \E on \in BOOLEAN : SetTunnel(on)
    /\ UNCHANGED <<hnaVars, running>>

Announcements ==
    /\ \/ \E o \in Origs : RecvOgm(o) \/ Purge(o) \/ Silence(o)
       \/ \E n \in OwnNets : OptHnaAdd(n) \/ OptHnaDel(n)
       \/ \E old, new \in OwnNets : OptHnaChange(old, new)
    /\ UNCHANGED <<ifVars, running>>

System ==
    /\ \E i \in Ifaces : Reconfigure(i)
    /\ UNCHANGED <<hnaVars, running>>

Next ==
    \/ Start \/ Crash \/ Terminate \/ System
    \/ running /\ (Rules \/ Announcements)

Spec == Init /\ [][Next]_vars

-----------------------------------------------------------------------------
TypeOK ==
    /\ registry \in [AllNets -> Origs \cup {Me, None}]
    /\ hna \in [Origs -> SUBSET Nets]
    /\ router \in [Origs -> Neighbours \cup {None}]
    /\ overdue \in [Origs -> BOOLEAN]
    /\ conf \in [Ifaces -> LanNets \cup {LoNet, Down}]
    /\ throw_list \subseteq ThrowNets
    /\ {fatal, running, setup_tunnel} \subseteq BOOLEAN

(* No sequence of OGMs, evictions, purges and options makes the registry   *)
(* and the stored announcements contradict each other, which add_del_hna   *)
(* and update_other_hna answer with cleanup_all, the end of the daemon.    *)
NeverContradicts ==
    /\ ~fatal
    /\ \A o \in Origs : hna[o] = {n \in AllNets : registry[n] = o}

(* Whoever owns a network is routed to, and the kernel sends the network   *)
(* the way it sends the owner.                                             *)
NetworkFollowsHost ==
    \A n \in Nets : registry[n] \in Origs =>
        /\ router[registry[n]] # None
        /\ OtherRoute(n, router[registry[n]]) \in kt.fib
        /\ HostRoute(registry[n], router[registry[n]], PrimaryAddr) \in kt.fib

(* While bmxd runs the kernel has exactly the routes and rules that are    *)
(* tracked, through restarts and for networks with several owners.         *)
KernelAsTracked ==
    running =>
        /\ {RouteKey(q) : q \in kt.fib} = {e.key : e \in BagToSet(kt.routes)}
        /\ kt.rpdb = {e.key : e \in BagToSet(kt.rules)}

(* As long as the checksum is that of the interfaces, the rules are those  *)
(* a fresh installation would make.                                        *)
RulesCurrent ==
    LET want == Install(Nothing, setup_tunnel, throw_list)
        Mine(e) == e.track = "my_net"
    IN  running /\ checksum = Addresses =>
            /\ Only(kt.routes, Mine) = want.routes
            /\ Only(kt.rules, Mine) = want.rules

(* What --throw names is never routed into the announced networks or the   *)
(* tunnel, whoever else announces it.                                      *)
ThrowRespected ==
    running /\ checksum = Addresses =>
        \A n \in throw_list : ThrowRoutes({n}) \subseteq kt.fib

=============================================================================
