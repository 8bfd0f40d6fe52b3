SPECIFICATION Spec
CONSTANTS
    BusId = {b1, b2}
    Port = {p1, p2}
    Pad = {d1}
    PadsOf <- SamePad
    NoBus = NoBus
    NoPort = NoPort
    NoPad = NoPad
    Free = Free
    Happens = {"loss", "fault", "quit"}
    MaxSession = 2
SYMMETRY Names
INVARIANTS
    TypeOK
    SessionsApart
    RetirementAscends
    NothingOutlivesAgent
