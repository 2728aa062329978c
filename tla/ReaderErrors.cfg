SPECIFICATION FairSpec
CONSTANTS
    w1 = w1
    w2 = w2
    Slots <- TwoSlots
    Targets <- OneToTwo
    Initial = 2
    NumFiles = 2
    Capacities = {0}
    Settings = {"off"}
    MaxBatches = 1
PROPERTIES SourceErrorEndsRun
