SPECIFICATION Spec
CONSTANTS
    a = a
    b = b
    NULL = NULL
    Addr = {1, 2, 3}
    Ifs <- OneIf
    PrimaryIf = a
    MaxId4Him = 3
    IdMod = 4
    Ogms <- RenumberedOgms
    Echoes = {}
    FlushAll = FALSE
INVARIANTS
    RefcntExact
    NothingOutlivesOrig
    
