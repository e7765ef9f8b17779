SPECIFICATION PeersSpec
CONSTANTS
    Foci = {"worker", "extension", "server", "codec", "tables", "hosting", "conversation"}
    MaxSends = 3
    ExtTasks = {t1, t2}
    NoOwner = NoOwner
    LaneCount = 1
    MaxChildren = 2
    PseudoKeys = {1}
    MaxCallDepth = 2
    RestartBudget = 1
    SrvLanes = {l1, l2}
    MaxIds = 2
    MaxNested = 2
    MAX_DV_DEPTH = 2
    MyExt = MyExt
    OtherExt = OtherExt
    HSlots = 2
    MaxGen = 2
    MaxMints = 3
    HExts = {1, 2}
    MaxEpoch = 2
    PSlots = 2
    PinKinds = {"life"}
    Objects = {o1, o2}
    HTasks = {"t1", "t2"}
    HLanes = 2
    MaxHostCalls = 3
    Lanes = {1}
    Convs = {1, 2}
    MaxCalls = 3
    MaxDepth = 2
INVARIANTS
    FramesSurvive
    ReferencesHold
    SocketsMatchLanes
    LanesInStep
PROPERTIES
    EveryCallEnds
    JoinEnds
CHECK_DEADLOCK FALSE
