SPECIFICATION Spec
CONSTANTS
    c1 = c1
    c2 = c2
    c3 = c3
    c4 = c4
    Calls <- FourCalls
INVARIANTS
    TypeOK
    OneOutstanding
    NoLostHandOver
    OnlyDeepQueueTimesOut
PROPERTIES
    EveryCallSettles
    ImplementsPromise
CHECK_DEADLOCK FALSE
