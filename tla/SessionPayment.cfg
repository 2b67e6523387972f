SPECIFICATION Spec
CONSTANTS
    Hold = 2
    Costs <- FreeLessAndMore
    OperatorAmounts <- NothingOrOne
    MaxRequests = 2
    MaxFaults = 1
INVARIANTS
    TypeOK
    NoSilentDivergence
    RefundedIsReal
PROPERTIES
    RefundsFollowCapture
CHECK_DEADLOCK FALSE
