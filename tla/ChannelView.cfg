SPECIFICATION FairSpec
CONSTANTS
    Full = 4
    Speed = 1
    Capacities <- ZeroAndFour
    Depths <- SomeDepths
    Waits <- SomeWaits
    Noise = 1
    Saturation = 5
    MaxElapsed = 3
PROPERTIES PauseHoldsTheView PressureCatchesUp
