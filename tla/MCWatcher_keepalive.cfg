SPECIFICATION FairSpec
\* Small numbers in the order of the program's; the record's age is not looked at.
CONSTANTS
    Peers = 1
    OnlineTimeout = 1
    ConnectTimeout = 1
    AckTimeout = 2
    ShutdownTimeout = 1
    Interval = 3
    PeerTtl = 0
    ChannelSize = 1
    Events <- MCEvents
    MaxPaths = 2
    MaxKernel = 1
    MayFail = TRUE
    HttpTime = 0
    SetupTime = 0
    ImportTime = 0
    SendTime = 0
    MaxPassed = 1
    MaxMissed = 1
INVARIANTS
    TypeOK
    RegistersInTime
    ChangeInHand
PROPERTIES
    NotifyResumes
    StopEnds
CHECK_DEADLOCK FALSE
