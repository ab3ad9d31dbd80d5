\* Two threads and two devices with too few or enough couples, and a program that dies.
SPECIFICATION Spec
CONSTANTS
  t1 = t1
  t2 = t2
  d1 = d1
  d2 = d2
  Threads = {t1, t2}
  Devices = {d1, d2}
  MaxEps = 3
  NoThread = NoThread
  NoDevice = NoDevice
INVARIANTS CouplesAreExclusive PipesAreClosed CancelReachesTransfer
PROPERTIES CancelEndsCalls LockIsGivenBack
