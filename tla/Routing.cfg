SPECIFICATION Spec
CONSTANTS
    None = None
    throw_rules = TRUE
    prio_rules = TRUE
    Lo_rule = TRUE
    Ifaces = {"lo", "eth0"}
    BatmanIfs = {"lo"}
    LanNets = {lan}
    LoNet = loopback
    ThrowNets = {lan}
    Origs = {o1, o2, plain}
    Vservers = {o1, o2}
    Neighbours = {r1, r2}
    Nets = {n1, n2}
    OwnNets = {n2, lan}
    PrimaryAddr = primary
INVARIANTS  NetworkFollowsHost KernelAsTracked 
