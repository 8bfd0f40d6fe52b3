SPECIFICATION FairSpec
CONSTANTS
    BusId = {b1, b2}
    Port = {p1}
    Pad = {d1}
    PadsOf <- AlwaysPad
    NoBus = NoBus
    NoPort = NoPort
    NoPad = NoPad
    Free = Free
    Happens = {"loss", "quit", "config"}
    MaxSession = 2
PROPERTIES
    StopFinishesUnlessJoinHangs
    LostSessionsReaped
    QuitReturns
