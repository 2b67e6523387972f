SPECIFICATION Spec
CONSTANTS
  MaxTries = 3
  MaxFaults = 3
CHECK_DEADLOCK FALSE
INVARIANTS
  TypeOK
  AllowedIsPaid
PROPERTIES
  HoldReleased
