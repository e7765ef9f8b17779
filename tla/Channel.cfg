SPECIFICATION Spec
CONSTANTS
  LocalTasks = {a, b, c}
  RemoteTasks = {}
  Values = {v1, v2, v3}
  Portable = {v1, v2, v3}
  Caps = {0, 1}
  NoTask = NoTask
  NoVal = NoVal
  MaxEpoch = 1
SYMMETRY Symmetry
INVARIANTS ValueConserved WaitersServed
PROPERTIES SendOutcomeFinal ImplementsAbstractChannel
CHECK_DEADLOCK FALSE
