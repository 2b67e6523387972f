SPECIFICATION Spec
CONSTANTS
    r1 = r1
    r2 = r2
    r3 = r3
    r4 = r4
    r5 = r5
    r6 = r6
    Requests <- SixRequests
    MaxConcurrent = 2
    MaxQueued = 2
INVARIANTS
    TypeOK
    NoIdleSlot
PROPERTIES
    NobodyWaitsForever
CHECK_DEADLOCK FALSE
