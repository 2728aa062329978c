SPECIFICATION PatientFairSpec
CONSTANTS
    Targets <- OneToTwo
    Initial = 2
    Capacity = 0
    MaxBatches = 2
    MaxStarts = 2
INVARIANTS NoAcceptedBatchLost
PROPERTIES PauseQuiesces OfferedIsDelivered ImplementsDelivery
