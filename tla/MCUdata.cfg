CONSTANTS
  Userdata = {u1, u2, u3}
  Handle = {h1, h2}
  Callback = {f1, f2}
  Nil = Nil
  MaxSlot = 6
SPECIFICATION Spec
INVARIANTS Bound NoAliasing SoleAnchor
PROPERTY ImplementsMap
SYMMETRY Symmetry
CHECK_DEADLOCK FALSE
