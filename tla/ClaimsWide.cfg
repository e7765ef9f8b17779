SPECIFICATION FairSpec
CONSTANTS
  o1 = o1
  p1 = p1
  p2 = p2
  Tasks = {a, b, c}
  Objects = {o1, o2, o3}
  Peers = {p1, p2}
  PeerOf <- TwoPeers
  Lanes = 3
  MaxObjectDepth = 2
  NoTask = NoTask
  NoObj = NoObj
  NoPeer = NoPeer
  Cancellable = {}
  Stoppers = {}
  EpochWrap = 2
  MaxCalls = 2
PROPERTIES QueuedIsGranted
CHECK_DEADLOCK FALSE
