SPECIFICATION Spec
CONSTANTS
    Targets <- OneToTwo
    Initial = 2
    Capacity = 0
    MaxBatches = 3
    MaxStarts = 3
INVARIANTS NoAcceptedBatchLost
