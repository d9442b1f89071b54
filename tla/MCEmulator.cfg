CONSTANTS
  Client = {c1, c2}
  Nil = Nil
  MaxSeq = 2
  Window = 1
  Length = {0, 1}
  CancelsTimers = TRUE
SPECIFICATION FairSpec
INVARIANTS InStep AnswersOwner
PROPERTIES Served
CHECK_DEADLOCK FALSE
