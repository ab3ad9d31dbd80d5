\* The GUI thread and the worker share the key maps without a lock; sends fail.
SPECIFICATION Spec
CONSTANTS
  k1 = k1  k2 = k2
  Keys <- MCKeys
  Status = status
  Cooldown = 2
  MaxAttempts = 2
  MaxTime = 4
  MaxQueue = 1
INVARIANTS
  PendingIsInFlight
PROPERTIES
  ImplementsGate
CHECK_DEADLOCK FALSE
