SPECIFICATION FairSpec
CONSTANTS
    Targets <- OneToTwo
    Initial = 2
    Capacity = 0
    MaxBatches = 2
    MaxStarts = 3
INVARIANTS FreeSlotIsEmpty ServedAndCountedOnce NeverUnderstaffed NeverOverstaffed
PROPERTIES NothingAdmittedAfterBoundary CallsReturn
