SPECIFICATION Spec
CONSTANTS
    n1 = n1
    n2 = n2
    NULL = NULL
    Nb <- TwoNb
    SqMod = 9
    Scale = 1
    FlushGap = 6
    Pws = 4
    Lounge = 1
    Hyst = 0
    Late = 1
    ProbeRange = 3
    First = 5
    Lag = 1
    Gap = 1
SYMMETRY Symmetry
INVARIANTS
    MetricsAligned
PROPERTIES
    DecidedForward
    
