CONSTANTS
  Root = Root
  None = None
  c1 = c1
  c2 = c2
  d1 = d1
  d2 = d2
  d3 = d3
  Ctx = {c1, c2}
  Dev = {d1}
  Hnd = {h1, h2}
  Itf = {i1, i2}
  Xfr = {x1}
  Mem = {m1}
  Hpl = {k1}
  Num = {n1, n2}
  CtxOf <- MCCtxOf
  HubOf <- MCHubOf
  MaxRefs = 2
  Reclaim = FALSE
  LogMayDestroy = FALSE
SPECIFICATION Spec
INVARIANTS ResourcesNested ClaimsMatch
PROPERTIES ImplementsTree
SYMMETRY Symmetry
CHECK_DEADLOCK FALSE
