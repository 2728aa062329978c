SPECIFICATION FairLiveSpec
CONSTANTS
    CommandTypes <- LiveTypes
    Values <- TwoValues
    InitialValue = 1
    OutOfRange = 3
    MaxCommands = 2
    MaxFailures = 1
    MaxForeign = 1
    Stepper = "worker"
INVARIANTS ShowsItsOwnState PreviewHasGesture
PROPERTIES PendingResolves
CHECK_DEADLOCK FALSE
