SPECIFICATION MCSpec
CONSTANTS
    Caller = {c1, c2}
    c1 = c1
    c2 = c2
    Reader = Reader
    Worker = Worker
    Sweep = Sweep
    NoThread = NoThread
    Interface = {1}
    NoInterface = NoInterface
    Ids = 3
    Unset = Unset
    Zero = Zero
    Shared = Shared
    MaxCall = 2
    MaxConn = 2
    MaxChange = 2
    Channels = 2
    MaxFrames = 3
    WarmupFrames = 3
    ChunkFrames = 2
    PlayFrames = {1, 4}
    KeepAlive = TRUE
    Pace = 2
    Late = 3
    Longest = 9
INVARIANTS SessionHolds ReplyIsOwn SettingsHeld SoundHolds BackendOutlivesBuilder
PROPERTIES CallsAnswered SoundServes
