CONSTANTS
  r1 = r1
  r2 = r2
  h1 = h1
  None = None
  Rules = {r1, r2}
  Hosts = {h1}
  HostOf <- OneHost
  Kind <- LocalDynamic
  Tunnels = {t1, t2}
  Transports = {c1, c2, c3}
  Loops = {l1, l2}
  MaxForeign = 1
SPECIFICATION Spec
INVARIANT NoTunnelForgotten
CHECK_DEADLOCK FALSE
