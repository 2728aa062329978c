SPECIFICATION FairSpec
CONSTANTS
    Values <- TwoValues
    InitialValue = 1
    MaxDeliveries = 2
    MaxNow = 2
    MaxRuns = 2
INVARIANTS AccountsBalance ElapsedExact ResourcesMatchState RateCountsItsInterval
PROPERTIES ShownProgressHolds FaultSurfaces
