SPECIFICATION FairSpec
CONSTANTS
    Cost = 2
    ReaderRate = 2
    Rates <- TwoRates
    ReaderCounts <- OneAndTwo
    SenderCounts <- OneAndThree
    Capacities <- ZeroAndTwo
    MaxAttempts = 2
    MaxDelay = 1
    MaxBatches = 3
INVARIANTS PipelineInOrder WorkersAccounted
PROPERTIES ImplementsRun StepsEnd ScaleDownFinishes
CHECK_DEADLOCK FALSE
