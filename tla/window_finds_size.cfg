SPECIFICATION MemorySpec
CONSTANTS
    Name = {n1, n2, n3}
    n1 = n1
    n2 = n2
    n3 = n3
    NoName = NoName
    NoIdentity = NoIdentity
    NoSerial = NoSerial
    Identity <- ThreeDevices
    Stops = TRUE
    MaxSession = 3
    Config = {"a", "b"}
    CfgSerial = {"m"}
    CfgSession = {"s"}
    SerialOf <- OneSerial
    MaxEdits = 3
    Body <- Bodies
    MaxBody = 9
    MaxLinks = 2
    MaxAsks = 2
    MaxInputs = 2
    InputCapacity = 1
    MaxQueued = 2
    Features <- FeatureLists
    MaxPaced = 3
    MaxReads = 1
    MaxCalls = 1
    Asker = {k1, k2}
    k1 = k1
    k2 = k2
    Tab = {t1, t2}
    t1 = t1
    t2 = t2
    NoTab = NoTab
    MaxWindows = 3
    MaxOpens = 3
    Span = 5
    Margin = 0
    Small <- SmallOf
    Large <- LargeOf
    OpensAt = {1}
    Rect <- Rects
    NoRect = NoRect
    MaxPosts = 2
    MaxDeeds = 4
    MPad = {p1, p2}
    p1 = p1
    p2 = p2
    MaxHands = 6
PROPERTIES KeptSizesWereChosen
CHECK_DEADLOCK FALSE
