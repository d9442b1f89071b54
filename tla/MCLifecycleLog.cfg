CONSTANTS
  Root = Root
  None = None
  c1 = c1
  c2 = c2
  d1 = d1
  d2 = d2
  d3 = d3
  Ctx = {c1}
  Dev = {d1}
  Hnd = {h1}
  Itf = {i1, i2}
  Xfr = {}
  Mem = {m1}
  Hpl = {k1}
  Num = {n1}
  CtxOf <- MCCtxOf
  HubOf <- MCHubOf
  MaxRefs = 2
  Reclaim = FALSE
  LogMayDestroy = TRUE
SPECIFICATION Spec
INVARIANTS ReleasedOnce
SYMMETRY Symmetry
CHECK_DEADLOCK FALSE
