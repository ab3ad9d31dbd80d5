\* Commands of two threads, a buffer that is cancelled at any point, one timeout.
SPECIFICATION Spec
CONSTANTS
  t1 = t1
  t2 = t2
  Threads = {t1, t2}
  BufferUser = t2
  Timeouts = {2, 4}
  Breaks = 1
  InTurns = TRUE
  MaxLate = 0
  NoThread = NoThread
INVARIANTS NothingIsLeft TimeoutsAgree
PROPERTIES CancelIsFinal CancelEndsCalls CallsReturn
CHECK_DEADLOCK FALSE
