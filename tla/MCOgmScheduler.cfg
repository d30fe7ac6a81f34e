SPECIFICATION FairSpec
CONSTANTS
    A = A
    B = B
    L = L
    NULL = NULL
    Ifs <- TwoIfs
    PrimaryIf = A
    Loopback = {}
    Hidden = {B}
    Clones <- SomeCopies
    Hundred = 2
    Diversity <- DivB
    PowerSave = {B}
    OwnLen <- OwnFits
    Hdr = 1
    Pref = 6
    MaxUdpd = 8
    Rcvd <- SomeOgms
    SqMod = 4
    First = 0
    EchoLag = 0
    MaxQueue = 3
INVARIANTS
    OneOwnPending
    PacketsSound
    ListSound
    
PROPERTIES
    KeepsAnnouncing
