SPECIFICATION Spec
CONSTANTS
  Pods = {p1, p2}
  MaxResends = 0
  MaxTries = 1
  MaxEndAttempts = 1
  MaxFaults = 0
  MaxCrashes = 0
CHECK_DEADLOCK FALSE
INVARIANTS
  ChargeIsFinal
