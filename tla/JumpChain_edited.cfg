CONSTANTS
  a = a
  b = b
  x = x
  y = y
  w = w
  None = None
  Hosts = {a, b, y, w}
  ChainsOf <- EditedChains
  RdpHosts = {w}
  Calls = {k1, k2}
  Clients = {c1, c2, c3}
SPECIFICATION FairSpec
INVARIANTS TypeOK OneClientPerPrefix NoHopLeaked
PROPERTIES RegisteredHopsSurvive ImplementsHopPool ConnectEnds
CHECK_DEADLOCK FALSE
