SPECIFICATION Spec
CONSTANTS
  MaxSlots = 3
  MaxHandles = 3
  MaxOps = 4
  MaxGather = 2
  SchedStress = FALSE
INVARIANT DrainOwnChild
