SPECIFICATION Spec
CONSTANTS
    a = a
    b = b
    Nobody = Nobody
    Instances <- TwoInstances
    FirstInstance = a
    MaxConnects = 3
    MaxFaults = 1
    MaxEvents = 2
    MaxOps = 1
    MaxLane = 1
INVARIANTS
    TypeOK
    LiveIsHeld
PROPERTIES
    ConnectedIsShownOnline
    GoneIsShownOffline
    HolderIsRegistered
CHECK_DEADLOCK FALSE
