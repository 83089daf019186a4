CONSTANTS
  r1 = r1
  r2 = r2
  h1 = h1
  None = None
  Rules = {r2}
  Hosts = {h1}
  HostOf <- OneHost
  Kind <- LocalRemote
  Tunnels = {t1}
  Transports = {c1, c2, c3}
  Loops = {l1, l2}
  MaxForeign = 0
SPECIFICATION FairSpec
PROPERTY BrokenHeals
CHECK_DEADLOCK FALSE
