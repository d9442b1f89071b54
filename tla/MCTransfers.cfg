CONSTANTS
  Nil = Nil
  Xfr = {x1, x2, x3, x4}
  May = {"leave", "fail", "raise", "close", "close_in_callback"}
SPECIFICATION FairSpec
INVARIANTS Owned MarkedUntilGone NoneStranded
PROPERTIES ImplementsProtocol CancelledCalledBack
CHECK_DEADLOCK FALSE
