CONSTANTS
  Root = Root
  None = None
  c1 = c1
  c2 = c2
  d1 = d1
  d2 = d2
  d3 = d3
  Ctx = {c1}
  Dev = {d1, d2}
  Hnd = {h1}
  Itf = {i1}
  Xfr = {}
  Mem = {m1}
  Hpl = {k1}
  Num = {n1}
  CtxOf <- MCCtxOf
  HubOf <- MCHubOf
  MaxRefs = 3
  Reclaim = FALSE
  LogMayDestroy = FALSE
SPECIFICATION FairSpec
INVARIANTS DevicesPinned
PROPERTIES ShutdownReleases
CHECK_DEADLOCK FALSE
