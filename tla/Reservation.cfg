SPECIFICATION Spec
CONSTANTS
  Settlers <- TwoSettlers
  MaxFaults = 1
CHECK_DEADLOCK FALSE
INVARIANTS
  TypeOK
PROPERTIES
  ImplementsHold
  EverythingEnds
