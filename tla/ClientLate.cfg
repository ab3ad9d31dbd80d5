\* The answer to a command that timed out is read as that of the next.
SPECIFICATION Spec
CONSTANTS
  t1 = t1
  t2 = t2
  Threads = {t1, t2}
  BufferUser = t2
  Timeouts = {2, 4}
  Breaks = 1
  InTurns = TRUE
  MaxLate = 2
  NoThread = NoThread
PROPERTIES ContentOfTheGivenAttribute
CHECK_DEADLOCK FALSE
