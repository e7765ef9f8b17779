SPECIFICATION Spec
CONSTANTS
  o1 = o1
  p1 = p1
  p2 = p2
  Tasks = {a, b, c}
  Objects = {o1, o2, o3}
  Peers = {p1}
  PeerOf <- OnePeer
  Lanes = 2
  MaxObjectDepth = 2
  NoTask = NoTask
  NoObj = NoObj
  NoPeer = NoPeer
  Cancellable = {a, b}
  Stoppers = {c}
  EpochWrap = 2
  MaxCalls = 3
SYMMETRY Symmetry
INVARIANTS NoneStranded ClaimsAgree
PROPERTIES NoBarging
CHECK_DEADLOCK FALSE
