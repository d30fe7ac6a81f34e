SPECIFICATION Spec
CONSTANTS
    a = a
    b = b
    NULL = NULL
    Addr = {1, 2}
    Ifs <- TwoIfs
    PrimaryIf = a
    MaxId4Him = 4
    IdMod = 4
    Ogms <- DownwardOgms
    Echoes = {}
    FlushAll = TRUE
INVARIANTS
    NoUseAfterFree
