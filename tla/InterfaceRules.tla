--------------------------- MODULE InterfaceRules ---------------------------
(* Throw routes and rules that keep packets for local networks out of the  *)
(* announced networks and out of the gateway tunnel (linux/route.c).  They *)
(* follow the system's interfaces: check_interfaces compares a checksum of *)
(* the addresses with that of the last time, and rebuilds them all.        *)
EXTENDS KernelTables

CONSTANTS
    Ifaces,      \* the system's interfaces, "lo" among them
    BatmanIfs,   \* those in if_list
    LanNets,     \* networks the others may have
    LoNet,       \* the network of "lo"
    ThrowNets,   \* networks the option --throw may name
    Lo_rule      \* option: rules for the loopback interface

Down == "down"

ASSUME IfaceAssumption ==
    /\ "lo" \in Ifaces /\ IsFiniteSet(Ifaces)
    /\ BatmanIfs \subseteq Ifaces
    /\ Down \notin LanNets \cup {LoNet}
    /\ Lo_rule \in BOOLEAN

VARIABLES
    conf,           \* the system: the network of an interface, or Down
    setup_tunnel,   \* a tunnel to or of a gateway is configured
    checksum,       \* of the addresses when the rules were last looked at
    throw_list

ifVars == <<conf, setup_tunnel, checksum, throw_list>>

-----------------------------------------------------------------------------
Up == {i \in Ifaces : conf[i] # Down}

(* The hash over address and prefix of every interface that is up; that of *)
(* nothing is the initial value too.                                       *)
Addresses == {<<i, conf[i]>> : i \in Up}
Unknown == {}

SrcRule(n) == [kind |-> "src", net |-> n, iif |-> None, table |-> "tunnel"]
LoRule == [kind |-> "iif", net |-> None, iif |-> "lo", table |-> "tunnel"]
StandardRules == {[kind |-> "dst", net |-> None, iif |-> None, table |-> t]
                    : t \in {"hosts", "networks"}}

FlushMyNet(k) == FlushTrackedRules(FlushTrackedRoutes(k, {"my_net"}), {"my_net"})

(* What one interface contributes.  setup_networks is on from the end of   *)
(* the start and never off again.                                          *)
IfRoutes(i, tunnel) ==
    {r \in {Throw(conf[i], "tunnel"), Throw(conf[i], "networks")} :
        IF r.table = "tunnel" THEN tunnel ELSE i \notin BatmanIfs}

IfRules(i, tunnel, throws) ==
    {r \in {SrcRule(conf[i]), LoRule} :
        /\ prio_rules /\ tunnel
        /\ IF r = LoRule THEN Lo_rule /\ i = "lo"
           ELSE conf[i] \notin throws /\ (i = "lo" => Lo_rule)}

ThrowRoutes(throws) == {Throw(n, t) : n \in throws, t \in Tables}

(* What the interfaces and the throw list want, counted: two of them may   *)
(* want the same.                                                          *)
Count(W(_), more) ==
    [r \in more \cup UNION {W(i) : i \in Up} |->
        Cardinality({i \in Up : r \in W(i)}) + Cardinality({r} \cap more)]

Install(k, tunnel, throws) ==
    LET routes == Count(LAMBDA i : IfRoutes(i, tunnel), ThrowRoutes(throws))
        rules == Count(LAMBDA i : IfRules(i, tunnel, throws), {})
    IN  AddRules(AddRoutes(k, routes, "my_net"), rules, "my_net")

(* update_interface_rules, but for IF_RULE_CHK_IPS.                        *)
Rebuild(k, tunnel, throws) == Install(FlushMyNet(k), tunnel, throws)

-----------------------------------------------------------------------------
(* check_interfaces on an event of the kernel or every five seconds.       *)
CheckInterfaces ==
    /\ checksum' = Addresses
    /\ kt' = IF checksum = Addresses THEN kt ELSE Rebuild(kt, setup_tunnel, throw_list)
    /\ UNCHANGED <<conf, setup_tunnel, throw_list>>

(* SIOCGIFCONF fails: in the look at the addresses, or in the rebuilding   *)
(* that follows it, when the old rules are gone already.                   *)
CheckFails ==
    /\ \/ kt' = kt
       \/ checksum # Addresses /\ kt' = FlushMyNet(kt)
    /\ checksum' = Unknown
    /\ UNCHANGED <<conf, setup_tunnel, throw_list>>

(* Mutant: the checksum stays. *)
SetTunnelOnly(on) ==
    /\ setup_tunnel # on
    /\ setup_tunnel' = on
    /\ kt' = FlushMyNet(kt)
    /\ UNCHANGED <<conf, checksum, throw_list>>

(* IF_RULE_SET_TUNNEL and IF_RULE_CLR_TUNNEL only flush: the address of    *)
(* the tunnel changes next, and that is noticed.                           *)
SetTunnel(on) ==
    /\ setup_tunnel # on
    /\ setup_tunnel' = on
    /\ kt' = FlushMyNet(kt)
    /\ checksum' = Unknown
    /\ UNCHANGED <<conf, throw_list>>

(* opt_throw: a network is added to the list, removed, or replaced.        *)
OptThrow ==
    \E throws \in SUBSET ThrowNets :
        /\ throws # throw_list
        /\ Cardinality(throws \ throw_list) <= 1
        /\ Cardinality(throw_list \ throws) <= 1
        /\ throw_list' = throws
        /\ checksum' = Addresses
        /\ kt' = Rebuild(kt, setup_tunnel, throws)
        /\ UNCHANGED <<conf, setup_tunnel>>

(* The system: an interface gets another address or goes down.             *)
Reconfigure(i) ==
    /\ i # "lo"
    /\ \E n \in LanNets \cup {Down} : n # conf[i] /\ conf' = [conf EXCEPT ![i] = n]
    /\ UNCHANGED <<kt, setup_tunnel, checksum, throw_list>>

(* The part of the start that concerns the rules: opt_policy_rt, of which  *)
(* OPT_SET_POST comes before the other options and OPT_POST after them.    *)
StartRules(k, throws) ==
    LET standard == IF prio_rules THEN AddRules(k, SetToBag(StandardRules), "standard") ELSE k
    IN  /\ setup_tunnel' = FALSE
        /\ throw_list' = throws
        /\ checksum' = Addresses
        /\ kt' = Rebuild(standard, FALSE, throws)
        /\ UNCHANGED conf
=============================================================================
