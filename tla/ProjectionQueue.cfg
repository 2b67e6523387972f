SPECIFICATION Spec
CONSTANTS
    w1 = w1
    w2 = w2
    w3 = w3
    w4 = w4
    station = station
    transaction = transaction
    Lanes <- TwoLanes
    Work <- FourWorks
    LaneOf <- LaneOfEach
    Bounded <- BoundedWorks
    MaxPending = 1
    Nothing = Nothing
INVARIANTS
    TypeOK
    LaneIsSerial
    PendingIsExact
PROPERTIES
    SettledIsIdle
    QueuedWorkRuns
CHECK_DEADLOCK FALSE
