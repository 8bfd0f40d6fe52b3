SPECIFICATION HostSpec
CONSTANTS
    Endpoint = {e1}
    MaxUrb = 3
    MaxPaced = 1
    NoUrb = NoUrb
    e1 = e1
    Happens = {"gone", "unplug", "stop", "garbage"}
    Importer = {h1, h2}
    h1 = h1
    h2 = h2
    Page = {p1, p2, p3}
    p1 = p1
    p2 = p2
    p3 = p3
    StaticPage = {p3}
    Control = {"rate"}
    Level = {0, 1}
    MaxSets = 2
    Address = {a1, a2, a3}
    a1 = a1
    a2 = a2
    a3 = a3
    NoAddress = NoAddress
    Slots = 2
    Capacity = 3
    Chunk = {2}
    MaxSession = 3
    MaxByte = 4
INVARIANTS HostHolds NeverDropsUrb MicHolds
PROPERTIES Serves
CHECK_DEADLOCK FALSE
