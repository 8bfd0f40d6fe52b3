SPECIFICATION FairSpec
CONSTANTS
    Endpoint = {e1}
    MaxUrb = 2
    MaxPaced = 1
    NoUrb = NoUrb
    e1 = e1
    Happens = {"gone"}
PROPERTIES PacerFailureEndsSession
CHECK_DEADLOCK FALSE
