\* A reader and a client that reads or writes, joining and leaving at any point.
SPECIFICATION Spec
CONSTANTS
  c1 = c1
  c2 = c2
  Clients = {c1, c2}
  Buffers <- MCBuffers
  MaxOpens = 1
  EntryIds = {e1, e2}
  Demux = FALSE
  NoEntry = none
INVARIANTS ReferencesAreCounted OneBuffer AnswersInStep NoLostWakeup
PROPERTIES OneMaskPerAnswer StopEndsAll
CHECK_DEADLOCK FALSE
