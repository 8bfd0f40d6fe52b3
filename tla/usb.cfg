SPECIFICATION UsbSpec
CONSTANTS
    BusId = {b1}
    b1 = b1
    Remover = {r1, r2}
    r1 = r1
    r2 = r2
    MaxDevice = 2
    MaxImport = 2
    Endpoint = {e1, e2}
    e1 = e1
    e2 = e2
    Cap = 2
    MaxReport = 5
    InputCap = 2
    MaxInput = 5
    MaxOutputs = 2
    MaxLost = 1
    Wrap = 4
    Programs <- BtMaps
    Section = {"shared", "click", "notch"}
    HostReport = {"all", "stop"}
    Keys <- Sections
    Said <- Games
    MaxRelinks = 1
    MaxHostOut = 2
INVARIANTS UsbHolds ImportsInReach PacketsHold
PROPERTIES RemovedImportsEnd AnnounceBeforeInput InputArrives 
