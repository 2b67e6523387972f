SPECIFICATION Spec
CONSTANTS
    Hold = 2
    Costs <- FreeLessAndMore
    OperatorAmounts <- NothingOrOne
    MaxRequests = 1
    MaxFaults = 0
INVARIANT RecordKeepsTheTotal
CHECK_DEADLOCK FALSE
