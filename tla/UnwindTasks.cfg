SPECIFICATION UnwindSpec
CONSTANTS
    UTasks = {t1, t2}
    ThrowValues = {"a"}
    MaxIds = 5
    MaxNatives = 2
    MaxRaises = 2
INVARIANT HandlerGetsOwnError
CHECK_DEADLOCK FALSE
