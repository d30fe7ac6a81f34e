SPECIFICATION MCSpec
CONSTANTS
    SqMod = 9
    Scale = 3
    FlushGap = 7
    Ws = 6
    Lounge = 1
    ProbeRange = 3
    Idle = Idle
INVARIANTS
    WithinRange
PROPERTIES
    ImplementsAtomic
    Fades
