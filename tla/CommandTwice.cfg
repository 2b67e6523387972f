SPECIFICATION Spec
CONSTANTS
  a = a
  b = b
  reset = reset
  Nobody = Nobody
  Instances <- TwoInstances
  FirstInstance = a
  MaxConnects = 2
  MaxFaults = 1
  MaxEvents = 3
  MaxOps = 9
  Commands = {reset}
INVARIANT RunsAtMostOnce
CHECK_DEADLOCK FALSE
