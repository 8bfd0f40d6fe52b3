SPECIFICATION FairSpec
CONSTANTS
    Endpoint = {e1, e2}
    MaxUrb = 2
    MaxPaced = 1
    NoUrb = NoUrb
    e1 = e1
    e2 = e2
    Happens = {"gone", "unplug", "stop", "garbage"}
PROPERTIES ClosedSessionEnds InputReachesHost
CHECK_DEADLOCK FALSE
