\* Two threads inside process_spectrum, a failing storage, a wall clock that may be set back.
SPECIFICATION Spec
CONSTANTS
  r1 = r1  r2 = r2  c1 = c1  c2 = c2
  Ranges <- MCRanges
  Callers = {c1, c2}
  MinDuration <- MCMinDuration
  MinEventGap = 0
  WidebandTimeout = 2
  MaxBack = 1
  MayRaise = TRUE
  MaxTime = 2
  MaxSpectra = 2
INVARIANTS
  OneFate
  ReportedLongEnough
