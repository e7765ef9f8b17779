SPECIFICATION HostSpec
CONSTANTS
    HTasks = {"t1", "t2"}
    HLanes = 1
    MaxHostCalls = 4
INVARIANT ProxyNamesItsObject
CHECK_DEADLOCK FALSE
