SPECIFICATION FairSpec
CONSTANTS
    w1 = w1
    w2 = w2
    Slots <- TwoSlots
    Targets <- OneToTwo
    Initial = 2
    NumFiles = 1
    Capacities <- ZeroAndOne
    Settings <- AllSettings
    MaxBatches = 2
INVARIANTS ReadersAccounted BatchesInOrder
PROPERTIES CallsReturn Settles UninstalledPassesOn
