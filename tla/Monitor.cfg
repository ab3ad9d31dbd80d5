\* A failing storage and device, a reconfiguration, a join that may time out.
SPECIFICATION FairSpec
CONSTANTS
  r1 = r1  r2 = r2  t1 = t1
  Ranges <- MCOneRange
  MinDuration <- MCMinDuration
  MinEventGap = 0  WidebandTimeout = 2
  MaxBack = 1  MaxTime = 1  MaxSpectra = 3
  MayRaise = TRUE
  JoinMayTimeOut = TRUE
  ReopenAfter = 1
  MaxErrors = 2
  Reconfigurations <- MCReconfigurations
  Loop = t1
INVARIANTS
  StoppedIsQuiet
  ReportedIsSaved
PROPERTIES
  StopEndsThread
CHECK_DEADLOCK FALSE
