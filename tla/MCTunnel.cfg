SPECIFICATION FairSpec
CONSTANTS
    None = None
    Me = "me"
    Gateways <- MCGateways
    Clients <- MCClients
    Others = {"other"}
    Size = 3
    First <- MCFirst
    Ads <- MCAds
    TwoWay = 2
    OneWay = 1
    Hysteresis = 1
    MinLease = 1
    MaxRequests = 2
    UnknownTimeout = 1
    VerifiedTimeout = 1
    UnavailTimeout = 1
    MaxFactor = 1
    MaxAge <- MCMaxAge
    MaxNet <- MCMaxNet
    Scenes = {"leases", "choice"}
    LeaseTime <- MCLeaseTime
    AdsOf <- MCAdsOf
    MetricsOf <- MCMetricsOf
    MaxDelay = 1
    Skips <- MCSkips
INVARIANTS
    LeaseHonoured
    OneAddressEach
    
PROPERTIES
    KeepsAddress
    ChoosesBest
CHECK_DEADLOCK FALSE
