CONSTANTS
  a = a
  b = b
  x = x
  y = y
  w = w
  None = None
  Hosts = {a, b, x, y, w}
  ChainsOf <- DivergingChains
  RdpHosts = {}
  Calls = {k1, k2}
  Clients = {c1, c2, c3}
SPECIFICATION Spec
PROPERTY FailureSparesOthers
CHECK_DEADLOCK FALSE
