SPECIFICATION Spec
\* The program's own numbers: the unit of time is 5 s.
CONSTANTS
    Peers = 1
    OnlineTimeout = 6
    ConnectTimeout = 6
    AckTimeout = 24
    ShutdownTimeout = 1
    Interval = 24
    PeerTtl = 60
    ChannelSize = 1
    Events <- MCEvents
    MaxPaths = 2
    MaxKernel = 1
    MayFail = FALSE
    HttpTime = 0
    SetupTime = 0
    ImportTime = 0
    SendTime = 0
    MaxPassed = 1
    MaxMissed = 1
INVARIANTS
    StaysListed
CHECK_DEADLOCK FALSE
