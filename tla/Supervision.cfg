SPECIFICATION Spec
CONSTANTS
    Tasks = {t1, t2}
    Dying = {1, 2}
    Failing = {2}
    Callers = {t1, t2}
    Keepers = {t2}
    None = None
    Sup = Sup
    MaxWorkers = 3
    MaxRestarts = 1
INVARIANTS RestartingHasOpener RestartIsComplete
PROPERTIES LivesGoForward
CHECK_DEADLOCK FALSE
