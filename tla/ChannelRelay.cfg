SPECIFICATION RFairSpec
CONSTANTS
  LocalTasks = {a}
  RemoteTasks = {x, y}
  Values = {v1, v2}
  Portable = {v1}
  Caps = {0}
  NoTask = NoTask
  NoVal = NoVal
  NoEnd = NoEnd
  MaxEpoch = 1
  Endpoints = {e1}
  MaxCorr = 2
  MayDie = {"owner", "remote"}
  Backings = {"thread", "process"}
INVARIANTS RelayConserved ParkedRemotelyIsAnswered LinkAgrees
PROPERTIES EndpointWoken
CHECK_DEADLOCK FALSE
