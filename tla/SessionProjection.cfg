SPECIFICATION Spec
CONSTANTS
  Pods = {p1}
  MaxResends = 1
  MaxTries = 2
  MaxEndAttempts = 1
  MaxFaults = 1
  MaxCrashes = 1
CHECK_DEADLOCK FALSE
INVARIANTS
  TypeOK
  ChargeIsFinal
  ActiveKeepsHold
  BufferedWaitForStarted
PROPERTIES
  ImplementsBilledSession
  RequestedEndEnds
  DeliveredEndEnds
