------------------------------- MODULE Tunnel -------------------------------
(* Gateways, one of their clients in full, the requests of others, and the  *)
(* network between. Every behaviour is of one of two scenes. In "leases" a  *)
(* two-way gateway stays announced, may be restarted, leases addresses to   *)
(* others too, and the network delays, reorders and loses. In "choice"      *)
(* gateways come, change, improve and go, and send what they like.           *)
EXTENDS TunnelClient

CONSTANTS
    Scenes,
    LeaseTime,       \* tunnel_lease_time of the gateways, by scene
    AdsOf,           \* what each gateway may announce
    MetricsOf,       \* the metrics its router may have
    Others,          \* clients that only ask and stay away
    MaxDelay,        \* of a message
    Skips            \* by how much time passes at once

ASSUME TunnelAssumption ==
    /\ Gateways # {}
    /\ \E ad \in Ads : ad.twt /\ ~ad.owt
    /\ Others \subseteq Clients \ {Me}
    /\ MaxDelay \in Nat
    /\ \A sc \in Scenes : LeaseTime[sc] \in Nat /\ MaxAge[sc] \in Nat /\ Skips[sc] \subseteq Nat
    /\ \A g \in Gateways : /\ AdsOf[g] \subseteq Ads \cup {None}
                           /\ MetricsOf[g] \subseteq Nat \cup {NoRoute}

VARIABLE
    served           \* gw_client_list of each gateway

vars == <<node, router, net, scene, served>>

TheGateway == CHOOSE g \in Gateways : TRUE
TwoWayAd == CHOOSE ad \in Ads : ad.twt /\ ~ad.owt

-----------------------------------------------------------------------------
Init ==
    /\ scene \in Scenes
    /\ net = {}
    /\ served = [g \in Gateways |-> NoLeases]
    /\ \/ /\ scene = "leases"
          /\ node = UpdateGwList([n |-> NoNode(3, None, FALSE), net |-> {}], TheGateway, TwoWayAd).n
          /\ router = [g \in Gateways |-> IF g = TheGateway THEN 1 ELSE NoRoute]
       \/ /\ scene = "choice"
          /\ \E pref \in {None, TheGateway} : node = NoNode(1, pref, TRUE)
          /\ router = [g \in Gateways |-> NoRoute]

(* gws_recv_udp.                                                            *)
AnswerRequest(g, m) ==
    LET a == Chosen(served[g], m.from, m.addr)
    IN  /\ served' = [served EXCEPT ![g] = Granted(@, m.from, a)]
        /\ net' = Sent(net \ {m},
                       Msg("reply", g, m.from, a, IF a = NoAddr THEN 0 ELSE LeaseTime[scene]))
TakeData(g, m) ==
    /\ net' = IF m.addr = OwnAddr \/ HeldBy(served[g], m.addr, m.from) THEN net \ {m}
              ELSE Sent(net \ {m}, Msg("invalid", g, m.from, NoAddr, 0))
    /\ UNCHANGED served
GwsRecvUdp(m) ==
    /\ m \in net
    /\ m.to \in Gateways
    /\ \/ m.t = "request" /\ AnswerRequest(m.to, m)
       \/ m.t = "data" /\ TakeData(m.to, m)
    /\ UNCHANGED <<node, router, scene>>

(* gws_recv_tun: a packet for a leased address goes to whoever leased it     *)
(* (bound: with nothing else under way).                                     *)
GwsRecvTun(g, a) ==
    /\ net = {}
    /\ HeldBy(served[g], a, Me)
    /\ net' = Sent(net, Msg("data", g, Me, a, 0))
    /\ UNCHANGED <<node, router, scene, served>>

GarbageCollector(g) ==
    /\ served' = [served EXCEPT ![g] = Expired(@, LeaseTime[scene])]
    /\ UNCHANGED <<node, router, net, scene>>

(* The gateway's service ends and starts anew: gws_cleanup and gws_init.     *)
(* fresh marks what it granted before.                                       *)
Stale(n, g) ==
    IF n.args = None \/ n.args.gw # g THEN n ELSE [n EXCEPT !.args.fresh = FALSE]
RestartService(g) ==
    /\ scene = "leases"
    /\ served' = [served EXCEPT ![g] = Expired(@, 0)]
    /\ net' = {IF m.from = g THEN [m EXCEPT !.fresh = FALSE] ELSE m : m \in net}
    /\ node' = Stale(node, g)
    /\ UNCHANGED <<router, scene>>

(* Another client asks, or does not renew: when its lease began is left open. *)
OtherRequest(g, c, pref) ==
    /\ scene = "leases" /\ g = TheGateway
    /\ served' = [served EXCEPT ![g] = Granted(@, c, Chosen(@, c, pref))]
    /\ UNCHANGED <<node, router, net, scene>>
OtherExpires(g, a) ==
    /\ served[g][a] # None
    /\ served[g][a].client \in Others
    /\ served' = [served EXCEPT ![g][a] = None]
    /\ UNCHANGED <<node, router, net, scene>>

Lose(m) == m \in net /\ net' = net \ {m} /\ UNCHANGED <<node, router, scene, served>>

(* Messages that were under way for too long are lost.                      *)
Pass(d) ==
    /\ node' = Later(node, d)
    /\ net' = {[m EXCEPT !.age = @ + d] : m \in {x \in net : x.age + d <= MaxDelay}}
    /\ served' = [g \in Gateways |-> Aged(served[g], Clients \ Others, d, LeaseTime[scene])]
    /\ UNCHANGED <<router, scene>>

Here == UNCHANGED <<scene, served>>

Changes ==
    /\ scene = "choice"
    /\ \/ \E g \in Gateways : \E ad \in AdsOf[g], wa \in MetricsOf[g] :
             /\ wa = NoRoute => router[g] = NoRoute
             /\ RecvOgm(g, ad, wa)
       \/ \E g \in Gateways : FlushOrig(g)
       \/ \E changed \in BOOLEAN, step \in Steps : ConfHook(changed, step)
       \/ \E rt \in {0, 3}, gwc \in 0..1, step \in Steps : SetClass(rt, gwc, step)

(* What the current gateway may send: grants, a refusal, a complaint, data.  *)
Anything ==
    IF node.args = None THEN {}
    ELSE LET g == node.args.gw
         IN  {Msg("reply", g, Me, a, LeaseTime[scene]) : a \in Addrs} \cup
             {Msg("reply", g, Me, NoAddr, 0), Msg("invalid", g, Me, NoAddr, 0),
              Msg("data", g, Me, NoAddr, 0)}

(* In "leases" the host sends only where it has a route (bound: and with      *)
(* nothing else under way).                                                  *)
HostPacket ==
    \/ (scene = "leases" => node.route /\ net = {}) /\ RecvTun("mine", TRUE)
    \/ scene = "choice" /\ RecvTun("other", TRUE)
    \/ scene = "choice" /\ \E src \in {"mine", "gateway"} : RecvTun(src, FALSE)

Client ==
    /\ \/ \E step \in Steps : (scene = "leases" => step = "done") /\ Choose(step)
       \/ Maintain
       \/ HostPacket
       \/ \E m \in {x \in net : x.to = Me} : RecvUdp(m, TRUE)
       \/ scene = "choice" /\ \E m \in Anything, assigned \in BOOLEAN : RecvUdp(m, assigned)
       \/ Changes
    /\ Here

Next ==
    \/ Client
    \/ \E m \in net : GwsRecvUdp(m) \/ Lose(m)
    \/ \E g \in Gateways : GarbageCollector(g) \/ RestartService(g)
    \/ \E g \in Gateways, a \in Addrs : GwsRecvTun(g, a) \/ OtherExpires(g, a)
    \/ \E g \in Gateways, c \in Others, pref \in Addrs \cup {NoAddr} : OtherRequest(g, c, pref)
    \/ \E d \in Skips[scene] : Pass(d)

Spec == Init /\ [][Next]_vars

(* cb_choose_gw and gwc_maintain_twt are tasks that come again, time passes, *)
(* and of what is sent again and again some arrives in time: requests at the *)
(* gateway, and its replies, while the client still waits.                   *)
Leases == scene = "leases"
Deliver(t) ==
    /\ TwoWayUp
    /\ \E m \in {x \in net : x.t = t} :
          IF m.to = Me THEN Here /\ RecvUdp(m, TRUE) ELSE GwsRecvUdp(m)
FairSpec ==
    /\ Spec
    /\ WF_vars(Leases /\ Here /\ (Choose("done") \/ Maintain))
    /\ WF_vars(Leases /\ Pass(1))
    /\ SF_vars(Leases /\ Deliver("request"))
    /\ SF_vars(Leases /\ Deliver("reply"))

-----------------------------------------------------------------------------
(* For the first 90 % of a lease the gateway that granted it, unless        *)
(* restarted, holds it for the client: the client renews in time, and a     *)
(* delay below a tenth of the lease never makes it count on more than the   *)
(* gateway gave.                                                            *)
LeaseHonoured ==
    LET a == node.args
    IN  /\ scene = "leases" /\ a # None /\ a.type = "twt" /\ a.fresh
        /\ a.dur > 0 /\ 10 * a.leased <= 9 * a.dur
        => HeldBy(served[a.gw], a.addr, Me)

(* A client, whatever it asks for and however often, has one address.       *)
OneAddressEach ==
    \A g \in Gateways, c \in Clients : Cardinality({a \in Addrs : HeldBy(served[g], a, c)}) <= 1

(* The tunnel that is up leads to the current gateway as it is announced     *)
(* now, and the current gateway can be compared with others: it has a router.*)
TunnelAsAnnounced ==
    /\ node.curr # None => node.tuno[node.curr] # None /\ router[node.curr] # NoRoute
    /\ node.args # None => node.args.gw = node.curr /\ node.args.ad = node.tuno[node.curr]

(* What the rest of the host was told: rules while a client runs, the        *)
(* default route and the script's gateway while it has an address, the       *)
(* announcement and the script's "gateway" while the node serves, and never  *)
(* both.                                                                      *)
HostFollowsTunnel ==
    /\ node.rules = (node.args # None)
    /\ node.route = (node.args # None /\ node.args.addr # NoAddr)
    /\ node.script = node.curr <=> node.route
    /\ node.script = "gateway" <=> node.serving
    /\ node.announced = node.serving
    /\ ~(node.serving /\ node.args # None)

(* The tunnel, what it leads to and what the rest of the host makes of it.   *)
TunnelInForce == TunnelAsAnnounced /\ HostFollowsTunnel

(* Once the gateway is no longer restarted, the client has, again and again, *)
(* an address that the gateway holds for it: it notices what it lost.        *)
KeepsAddress ==
    <>[][~\E g \in Gateways : RestartService(g)]_vars =>
        []<>(Leases => TwoWayUp /\ HeldBy(served[node.args.gw], node.args.addr, Me))

(* The gateway that is chosen is the best of those that did not fail         *)
(* lately: the preferred one, or by the routing class.                       *)
ChoosesBest ==
    [][node.curr = None /\ node'.curr # None =>
        LET g == node'.curr
            open == {x \in Gateways : node.tuno[x] # None /\ Usable(node.tuno[x])
                                      /\ router[x] # NoRoute /\ ~Penalised(node, x)}
        IN  /\ g \in open
            /\ node.pref \in open => g = node.pref
            /\ g # node.pref =>
                 \A x \in open : IF node.rt = 1 THEN Product(node, x) <= Product(node, g)
                                 ELSE router[x] <= router[g]]_vars
=============================================================================
