\* Signals, failures and requests of the host at any point.
SPECIFICATION DaemonSpec
CONSTANTS
  Connections = {c1, c2}
  Pipes = {p1, p2}
  MaxTries = 3
INVARIANTS ContextOutlivesThreads OpenedPipeStays
PROPERTIES StopEmptiesPool
CHECK_DEADLOCK FALSE
