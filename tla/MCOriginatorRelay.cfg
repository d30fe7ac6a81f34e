SPECIFICATION AgingSpec
CONSTANTS
    a = a
    b = b
    NULL = NULL
    Addr = {1, 2}
    Ifs <- TwoIfs
    PrimaryIf = a
    MaxId4Him = 4
    IdMod = 4
    Ogms <- RelayedOgms
    Echoes <- RelayedEchoes
    FlushAll = TRUE
INVARIANTS
    RouterIsNeighbour
    NothingOnInactiveIf
    RouterConfirmed
    NoUseAfterFree
PROPERTIES
    StaleOriginatorsPurged
