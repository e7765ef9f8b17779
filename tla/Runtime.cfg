SPECIFICATION RuntimeSpec
CONSTANTS
    Foci = {"unwind", "dispatch", "classBody", "fibers", "instances", "collections", "lists", "aot", "tiering", "replay", "handles", "files", "process", "framing", "portable", "debugger"}
    UTasks = {t1, t2}
    ThrowValues = {"a"}
    MaxIds = 5
    MaxNatives = 2
    MaxRaises = 2
    DTasks = {"t1"}
    MaxBodies = 2
    MaxMixes = 1
    MaxLookups = 2
    MaxEpoch = 2
    BTasks = {"t1"}
    BNames = {"P", "Q"}
    MaxDefines = 3
    MayCancel = FALSE
    FTasks = {"t1", "t2"}
    FFibers = {"f1", "f2"}
    MaxNativeReentry = 1
    ITasks = {"t1"}
    MaxObjs = 2
    MaxChanges = 1
    InstMoves = {}
    CTasks = {"c1", "c2"}
    CKeys = {"int", "double", "big1", "big2", "inst1", "inst2", "like5"}
    CTags = {"Int"}
    SMALL_LINEAR_MAX = 1
    MaxEntries = 3
    MaxCOps = 3
    LTasks = {"c1", "c2"}
    LTags = {"none", "Int"}
    MaxElems = 3
    MaxLOps = 4
    Locals = {"x"}
    W = 3
    MaxInsts = 5
    MaxDepth = 2
    TierTasks = {"t1", "t2"}
    ArgKinds = {"Int", "Double"}
    WarmThreshold = 1
    DirectWarm = 1
    BailTombstone = 2
    MaxRedefs = 2
    MaxCalls = 4
    Batches = {2}
    IoTasks = {"t1", "t2"}
    MaxStreams = 2
    MayCancelIo = TRUE
    MaxChunks = 4
    WCap = 2
    PTasks = {"t1", "t2"}
    MaxBytes = 3
    MaxReads = 2
    MaxNest = 2
    DbgTasks = {"t1", "t2"}
    MainTask = "t1"
    MaxStops = 2
    MaxHandles = 2
SYMMETRY UnwindSymmetry
INVARIANTS
    UnwindingIsSound
    DispatchIsCurrent
    ObjectsAreWhole
    FramesFollowCoroutine
    CollectionsHold
    CompiledIsFaithful
    ReplayIsFaithful
    StreamsAreKept
    DebuggerStopsRight
    ShippingAgrees
CHECK_DEADLOCK FALSE
