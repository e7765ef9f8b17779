SPECIFICATION Spec
CONSTANTS
  MaxSlots = 3
  MaxHandles = 2
  MaxOps = 4
  MaxGather = 2
  SchedStress = TRUE
INVARIANTS
  TypeOK
  HandleNamesItsTask
  WakersAgree
  TimedOutByOwnDeadline
  ResumedWithResult
  CancelReachesTask
