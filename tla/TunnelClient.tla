---------------------------- MODULE TunnelClient ----------------------------
(* The tunnel plugin of one node (tunnel.c): the list of announced          *)
(* gateways, the choice among them, the client's tunnel (the gwc functions) *)
(* and the node's own service (gws_init, gws_cleanup).  Times are ages in   *)
(* steps of TUNNEL_IP_REQUEST_TIMEOUT.                                      *)
EXTENDS Integers, SequencesExt, TunnelServer

CONSTANTS
    Me,              \* this node, a client of the gateways
    Gateways,
    Ads,             \* announcements: tunnel types and class
    TwoWay, OneWay,  \* the options two_way_tunnel and one_way_tunnel
    Hysteresis,      \* gateway_hysteresis
    MinLease,        \* MIN_TUN_LTIME
    MaxRequests,     \* MAX_TUNNEL_IP_REQUESTS
    UnknownTimeout, VerifiedTimeout, UnavailTimeout, MaxFactor,
    MaxAge,          \* where the age of a lease is capped, by scene: above its lease time
    MaxNet           \* messages under way at once, by scene

NoTypes == [twt |-> FALSE, owt |-> FALSE, class |-> 0]
NoRoute == -1            \* orig_node->router is NULL
Off == -1                \* gw_state_stamp is 0
OwnAddr == Size          \* the primary address, on a one-way tunnel

(* gwc_args: what the client knows of its tunnel.                            *)
Args ==
    [gw : Gateways, ad : Ads, type : {"twt", "owt"}, dur : Nat, addr : Addrs \cup {NoAddr, OwnAddr},
     asked : Nat, leased : Nat, requests : Nat, state : {"unknown", "verified"},
     since : Nat \cup {Off}, fresh : BOOLEAN]

ASSUME TunnelClientAssumption ==
    /\ Me \in Clients
    /\ Gateways \cap {Me, None, "", "del", "gateway"} = {}
    /\ None \notin {"", "del", "gateway"}
    /\ Ads \subseteq [twt : BOOLEAN, owt : BOOLEAN, class : Nat]
    /\ None \notin Ads \cup Args
    /\ \A n \in {TwoWay, OneWay, Hysteresis, MaxRequests, UnknownTimeout,
                 VerifiedTimeout, UnavailTimeout, MaxFactor} : n \in Nat
    /\ MinLease \in Nat \ {0}

VARIABLES
    scene,    \* what the environment does: see Tunnel
    node,     \* the plugin's static variables, its options, what it set up in the host
    router,   \* longtm_sqr.wa_val of each gateway's router, or NoRoute
    net       \* messages under way

clientVars == <<scene, node, router, net>>

(* What this node's tunnel options can use of an announcement.              *)
Usable(ad) == (ad.twt /\ TwoWay > 0) \/ (ad.owt /\ OneWay > 0)

Msg(t, from, to, addr, lt) ==
    [t |-> t, from |-> from, to |-> to, addr |-> addr, lt |-> lt, age |-> 0, fresh |-> TRUE]
Sent(n, m) == IF Cardinality(n) < MaxNet[scene] THEN n \cup {m} ELSE n

State == [n |-> node, net |-> net]

-----------------------------------------------------------------------------
(* gwc_cleanup: the tunnel, its rules and its default route go; curr_gateway *)
(* is the caller's.                                                          *)
Cleanup(s) ==
    IF s.n.args = None THEN s
    ELSE [s EXCEPT !.n.args = None, !.n.rules = FALSE,
                   !.n.route = IF s.n.args.addr # NoAddr THEN FALSE ELSE @,
                   !.n.script = IF s.n.args.addr # NoAddr THEN "del" ELSE @]

Leave(s) == [Cleanup(s) EXCEPT !.n.curr = None]

(* The gateway failed us: it is ignored for a time that grows. cb_choose_gw  *)
(* caps the factor before it uses it.                                        *)
Blame(s, g) == [s EXCEPT !.n.failed[g] = 0, !.n.factor[g] = Min({@ + 1, MaxFactor})]

(* gwc_request_tun_ip.                                                      *)
Request(s) ==
    [s EXCEPT !.net = Sent(@, Msg("request", Me, s.n.args.gw, s.n.args.addr, 0)),
              !.n.args.asked = 0, !.n.args.requests = Min({@ + 1, MaxRequests})]

(* gwc_init on curr_gateway; how far it gets: no socket, no tunnel device,   *)
(* no one-way address, or all the way.                                       *)
Steps == {"socket", "device", "address", "done"}
TypeFor(ad) ==
    IF ad.owt /\ OneWay > (IF ad.twt THEN TwoWay ELSE 0) THEN "owt" ELSE "twt"
NewArgs(g, ad) ==
    [gw |-> g, ad |-> ad, type |-> TypeFor(ad), dur |-> 0,
     addr |-> IF TypeFor(ad) = "owt" THEN OwnAddr ELSE NoAddr,
     asked |-> 1, leased |-> MaxAge[scene], requests |-> 0,
     state |-> "unknown", since |-> Off, fresh |-> TRUE]
GwcInit(s, step) ==
    LET g == s.n.curr
        ad == s.n.tuno[g]
        oneway == TypeFor(ad) = "owt"
        up == [s EXCEPT !.n.failed[g] = 0, !.n.rules = TRUE, !.n.args = NewArgs(g, ad)]
    IN  IF ad = None \/ ~Usable(ad) \/ step = "socket" THEN Leave(s)
        ELSE IF step = "device" THEN Leave(Blame(s, g))
        ELSE IF step = "address" /\ oneway THEN Leave([s EXCEPT !.n.failed[g] = 0])
        ELSE IF oneway
             THEN [up EXCEPT !.n.factor[g] = 0, !.n.route = TRUE, !.n.script = g]
             ELSE up

(* gws_cleanup.                                                             *)
StopService(s) ==
    IF s.n.serving THEN [s EXCEPT !.n.serving = FALSE, !.n.announced = FALSE, !.n.script = "del"]
    ELSE [s EXCEPT !.n.announced = FALSE]
(* gws_init.                                                                *)
GwsInit(s, step) ==
    IF step = "done"
    THEN [s EXCEPT !.n.serving = TRUE, !.n.announced = TRUE, !.n.script = "gateway"]
    ELSE StopService([s EXCEPT !.n.serving = TRUE])

(* cb_tun_conf_changed; changed: the address or the MTU did.                *)
Seen(s) == [curr |-> s.n.curr, rt |-> s.n.rt # 0, gwc |-> s.n.gwc]
(* gwc_cleanup and gws_cleanup before either is set up.                     *)
Reset(s) == Cleanup(IF s.n.serving THEN StopService(s) ELSE s)
ConfChanged(s, changed, step) ==
    LET up == IF ~Usable([twt |-> TRUE, owt |-> TRUE]) THEN Reset(s)
              ELSE IF s.n.rt # 0 /\ s.n.curr # None THEN GwcInit(Reset(s), step)
              ELSE IF s.n.gwc # 0 THEN GwsInit(Reset(s), step)
              ELSE Reset(s)
    IN  IF changed \/ s.n.seen # Seen(s) \/ (s.n.curr # None /\ s.n.args = None)
        THEN [up EXCEPT !.n.seen = Seen(up)]
        ELSE s

-----------------------------------------------------------------------------
(* update_gw_list: the announcement of g is new, another or gone. A tunnel   *)
(* set up from the old one is left.                                          *)
Stored(s, g, ad) ==
    LET restarted == s.n.tuno[g] = None \/ ad = None
    IN  [s EXCEPT !.n.tuno[g] = ad,
                  !.n.list = IF ad = None THEN RemoveFirst(@, g)
                             ELSE IF s.n.tuno[g] = None THEN Append(@, g) ELSE @,
                  !.n.factor[g] = IF restarted THEN 0 ELSE @,
                  !.n.failed[g] = IF restarted THEN 0 ELSE @]
(* Mutant: a changed announcement is stored, the tunnel left as it is. *)
UpdateGwListOnly(s, g, ad) ==
    IF ad = None /\ s.n.curr = g THEN Leave(Stored(s, g, ad)) ELSE Stored(s, g, ad)
UpdateGwList(s, g, ad) ==
    IF s.n.tuno[g] # None /\ s.n.curr = g THEN Leave(Stored(s, g, ad)) ELSE Stored(s, g, ad)

(* The restart of the selection in cb_tun_ogm_hook. It looks at tuno, read   *)
(* before update_gw_list may have freed it.                                   *)
Restart(s, g, tuno, wa) ==
    /\ s.n.curr \notin {None, g}
    /\ wa[g] # NoRoute
    /\ s.n.rt = 3
    /\ tuno # None
    /\ tuno.class # 0
    /\ Usable(tuno)
    /\ \/ s.n.pref = g
       \/ s.n.pref # s.n.curr /\ wa[s.n.curr] + Hysteresis <= wa[g]

(* cb_tun_ogm_hook for an OGM of g with announcement ad; wa: the routers     *)
(* after it.                                                                 *)
OgmHook(s, g, ad, tuno, wa) ==
    LET t == IF s.n.tuno[g] # ad THEN UpdateGwList(s, g, ad) ELSE s
    IN  IF Restart(t, g, tuno, wa) THEN Leave(t) ELSE t

(* cb_tun_orig_flush.                                                       *)
Flush(s, g) == IF s.n.tuno[g] # None THEN UpdateGwList(s, g, None) ELSE s

-----------------------------------------------------------------------------
(* cb_choose_gw.                                                            *)
Penalised(n, g) == n.factor[g] * n.factor[g] * UnavailTimeout > n.failed[g]
(* Mutant: a gateway that failed is not ignored. *)
EligibleAlways(n, g) == router[g] # NoRoute /\ n.tuno[g] # None /\ Usable(n.tuno[g])
Eligible(n, g) ==
    /\ ~Penalised(n, g)
    /\ router[g] # NoRoute
    /\ n.tuno[g] # None
    /\ Usable(n.tuno[g])
Product(n, g) == router[g] * router[g] * n.tuno[g].class

(* Better than those the walk over gw_list has come by, the routing class    *)
(* says in what; zero is where best_wa_val and max_gw_factor begin.          *)
Before(n, i) == {g \in Gateways : Eligible(n, g) /\ \E j \in 1..(i - 1) : n.list[j] = g}
BestMetric(S) == Max({0} \cup {router[g] : g \in S})
BestProduct(n, S) == Max({0} \cup {Product(n, g) : g \in S})
Better(n, g, S) ==
    IF n.rt = 1
    THEN \/ Product(n, g) > BestProduct(n, S)
         \/ Product(n, g) = BestProduct(n, S) /\ router[g] > BestMetric(S)
    ELSE router[g] > BestMetric(S)

(* The walk, which the preferred gateway ends, takes one after the other;    *)
(* the last it took is chosen.                                               *)
Takes(n, i) ==
    LET g == n.list[i]
    IN  /\ Eligible(n, g)
        /\ n.pref \notin Before(n, i)
        /\ g = n.pref \/ Better(n, g, Before(n, i))
Taken(n) == {i \in DOMAIN n.list : Takes(n, i)}
Pick(n) == IF Taken(n) = {} THEN None ELSE n.list[Max(Taken(n))]

Choose(step) ==
    /\ node.rt # 0
    /\ node.curr = None
    /\ \E g \in {Pick(node)} :
          /\ g # None
          /\ LET capped == [State EXCEPT !.n.factor = [h \in Gateways |-> Min({@[h], MaxFactor})]]
             IN  \E s \in {ConfChanged(Cleanup([capped EXCEPT !.n.curr = g]), FALSE, step)} :
                     node' = s.n /\ net' = s.net
    /\ UNCHANGED router

-----------------------------------------------------------------------------
TwoWayUp == node.args # None /\ node.args.type = "twt"

(* gwc_maintain_twt, the task of a two-way tunnel.                          *)
(* Mutant: an address is asked for, its lease not renewed. *)
DueOnce(a) == a.asked >= 1 /\ a.dur = 0
Due(a) == a.asked >= 1 /\ 10 * a.leased > 9 * a.dur
Maintained(s) ==
    LET a == s.n.args
        r == IF Due(a) THEN Request(s) ELSE s
    IN  IF a.requests >= MaxRequests THEN Leave(Blame(s, a.gw))
        ELSE IF s.n.unresp /\ a.state = "unknown" /\ a.since > UnknownTimeout
        THEN Leave(Blame(r, a.gw))
        ELSE IF a.state = "verified" /\ a.since > VerifiedTimeout
        THEN [r EXCEPT !.n.args.state = "unknown", !.n.args.since = Off]
        ELSE r
Maintain ==
    /\ TwoWayUp
    /\ \E s \in {Maintained(State)} : node' = s.n /\ net' = s.net
    /\ UNCHANGED router

(* gwc_recv_tun: a packet of the host's, by the kind of its source address.  *)
(* Sending it may fail.                                                      *)
Watched(s) ==
    IF s.n.unresp /\ s.n.args.type = "twt" /\ s.n.args.state = "unknown" /\ s.n.args.since = Off
    THEN [s EXCEPT !.n.args.since = 0] ELSE s
FromTun(s, src, sends) ==
    LET a == s.n.args
    IN  IF a.addr = NoAddr THEN Leave(Blame(s, a.gw))
        ELSE IF a.type = "owt" \/ (src = "mine" /\ a.dur # 0)
        THEN IF sends
             THEN Watched([s EXCEPT !.net = Sent(@, Msg("data", Me, a.gw, a.addr, 0))])
             ELSE Leave(s)
        ELSE IF src = "gateway" THEN Cleanup(s)
        ELSE s
RecvTun(src, sends) ==
    /\ node.args # None
    /\ \E s \in {FromTun(State, src, sends)} : node' = s.n /\ net' = s.net
    /\ UNCHANGED router

(* gwc_handle_tun_ip_reply; assigned: set_tun_addr succeeds.                *)
Reply(s, m, assigned) ==
    LET a == s.n.args
        other == a.addr = NoAddr \/ a.addr # m.addr
        moved == [s EXCEPT !.n.route = TRUE, !.n.script = a.gw]
        down == IF a.addr # NoAddr THEN [s EXCEPT !.n.route = FALSE, !.n.script = "del"] ELSE s
    IN  IF m.lt < MinLease THEN Leave(Blame(s, a.gw))
        ELSE IF other /\ ~assigned THEN Leave(Blame(down, a.gw))
        ELSE [(IF other THEN moved ELSE s) EXCEPT
                  !.n.args = [a EXCEPT !.leased = 0, !.addr = m.addr, !.dur = m.lt,
                                       !.requests = 0, !.fresh = m.fresh]]

(* gwc_recv_udp. Of another sender than the gateway only data is taken.     *)
Received(s, m, assigned) ==
    IF s.n.args = None \/ s.n.args.type # "twt" \/ (m.t # "data" /\ m.from # s.n.args.gw)
    THEN s
    ELSE CASE m.t = "reply" -> Reply(s, m, assigned)
           [] m.t = "invalid" -> [Request(s) EXCEPT !.n.args.dur = 0]
           [] m.t = "data" ->
                IF ~s.n.unresp THEN s
                ELSE [s EXCEPT !.n.args.state = "verified", !.n.args.since = 0,
                               !.n.failed[s.n.args.gw] = 0, !.n.factor[s.n.args.gw] = 0]

RecvUdp(m, assigned) ==
    /\ m.to = Me
    /\ \E s \in {Received([State EXCEPT !.net = @ \ {m}], m, assigned)} :
           node' = s.n /\ net' = s.net
    /\ UNCHANGED router

-----------------------------------------------------------------------------
(* The rest of the daemon and its user.                                     *)
ConfHook(changed, step) ==
    /\ \E s \in {ConfChanged(State, changed, step)} : node' = s.n /\ net' = s.net
    /\ UNCHANGED router

(* opt_rt_class and opt_gw_class, each of which deletes the other, and the   *)
(* CONF hooks that follow.                                                   *)
SetClass(rt, gwc, step) ==
    /\ <<rt, gwc>> # <<node.rt, node.gwc>>
    /\ rt = 0 \/ gwc = 0
    /\ \E s \in {ConfChanged([State EXCEPT !.n.rt = rt, !.n.gwc = gwc], FALSE, step)} :
           node' = s.n /\ net' = s.net
    /\ UNCHANGED router

(* An OGM of g with announcement ad, its router's metric now wa. What was    *)
(* freed may read as anything.                                               *)
RecvOgm(g, ad, wa) ==
    LET old == node.tuno[g]
        read == IF old = None \/ old = ad THEN {old} ELSE Ads \cup {NoTypes}
        now == [router EXCEPT ![g] = wa]
    IN  \E tuno \in read :
        \E s \in {OgmHook(State, g, ad, tuno, now)} :
            node' = s.n /\ net' = s.net /\ router' = now

(* The originator is flushed: its router and its announcement go.           *)
FlushOrig(g) ==
    /\ router[g] # NoRoute \/ node.tuno[g] # None
    /\ router' = [router EXCEPT ![g] = NoRoute]
    /\ \E s \in {Flush(State, g)} : node' = s.n /\ net' = s.net

(* tun_init: no gateway is known yet.                                       *)
NoNode(rt, pref, unresp) ==
    [curr |-> None, args |-> None, list |-> <<>>, tuno |-> [g \in Gateways |-> None],
     factor |-> [g \in Gateways |-> 0], failed |-> [g \in Gateways |-> 0],
     serving |-> FALSE, announced |-> FALSE, rules |-> FALSE, route |-> FALSE, script |-> "",
     rt |-> rt, gwc |-> 0, pref |-> pref, unresp |-> unresp,
     seen |-> [curr |-> None, rt |-> FALSE, gwc |-> 0]]

(* Time passes; ages are capped where no condition tells them apart.        *)
Older(a, d, cap) == IF a = Off THEN Off ELSE Min({a + d, cap})
OlderArgs(a, d) ==
    [a EXCEPT !.asked = Older(@, d, 1), !.leased = Older(@, d, MaxAge[scene]),
              !.since = Older(@, d, Max({UnknownTimeout, VerifiedTimeout}) + 1)]
Later(n, d) ==
    [n EXCEPT !.failed = [g \in Gateways |-> Older(@[g], d, MaxFactor * MaxFactor * UnavailTimeout)],
              !.args = IF @ = None THEN None ELSE OlderArgs(@, d)]
=============================================================================
