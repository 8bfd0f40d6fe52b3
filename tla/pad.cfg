SPECIFICATION PadSpec
CONSTANTS
    MaxPad = 2
    MouseButton = {"l"}
    MaxUsage = 2
    MaxKeys = 1
    MaxWaiting = 1
    MaxHeldOps = 2
    GPad = {"p", "q"}
    Binding = {"none", "key"}
    MaxGateOps = 2
    Side = {"r2"}
    Travel = {0, 1, 2, 3, 4}
    Setting <- TriggerSettings
    MaxSettings = 1
    TouchSetting <- TouchSettings
    MaxSpot = 1
    PPad = {"p", "q"}
    Part = 2
    MaxMotion = 3
    Byte = 1
    MaxReports = 3
    OPad = {"p", "q"}
    Latch = {"ctrl"}
    MaxShows = 2
    MaxTyped = 2
INVARIANTS PadHolds NothingStaysDown HeldStaysAway
PROPERTIES EachToItsOwn HandHolds EverythingSettles
CHECK_DEADLOCK FALSE
