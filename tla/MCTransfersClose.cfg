CONSTANTS
  Nil = Nil
  Xfr = {x1, x2, x3}
  May = {"close_in_flight"}
SPECIFICATION Spec
INVARIANTS NotFreedInFlight
SYMMETRY Symmetry
CHECK_DEADLOCK FALSE
