SPECIFICATION Spec
CONSTANTS
    BusId = {b1, b2}
    Port = {p1, p2}
    Pad = {d1}
    PadsOf <- SamePad
    NoBus = NoBus
    NoPort = NoPort
    NoPad = NoPad
    Free = Free
    Happens = {"config"}
    MaxSession = 2
SYMMETRY Names
CHECK_DEADLOCK FALSE
INVARIANTS
    SweepTargetsAlive
