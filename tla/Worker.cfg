\* Two channels with their detectors, failing posts, restarts at any point.
SPECIFICATION FairSpec
CONSTANTS
  f869 = f869  f1280 = f1280
  Freqs <- MCTwo
  FreqOf <- MCTwoOf
  NChannels = 2
  DetectorOf <- MCDetectorOf
  Levels <- MCTwoLevels
  AlphaNum = 1  AlphaDen = 1
  WarnOn = 55  WarnOff = 47  CritOn = 80  CritOff = 72
  Confirm = 2
  PeakLevel = 80
  ElrsWindow = 0  ElrsWarn = 1  ElrsCrit = 2
  StrongImmediate = FALSE
  VideoConfirm = 1
  Retry = 1
  PostInterval = 2
  MaxBack = 1
  MaxConfirmCount = 1
  MayRestart = TRUE
INVARIANTS StatusMatchesLevel
PROPERTIES AlertsRepeat BackendCatchesUp 
