CONSTANTS
  Root = Root
  None = None
  c1 = c1
  c2 = c2
  d1 = d1
  d2 = d2
  d3 = d3
  Ctx = {c1}
  Dev = {d1}
  Hnd = {h1}
  Itf = {}
  Xfr = {}
  Mem = {}
  Hpl = {}
  Num = {n1}
  CtxOf <- MCCtxOf
  HubOf <- MCHubOf
  MaxRefs = 3
  Reclaim = FALSE
  LogMayDestroy = FALSE
SPECIFICATION Spec
INVARIANTS LastReference
SYMMETRY Symmetry
CHECK_DEADLOCK FALSE
