SPECIFICATION LiveSpec
CONSTANTS
    CommandTypes <- LiveTypes
    Values <- ThreeValues
    InitialValue = 1
    OutOfRange = 4
    MaxCommands = 2
    MaxFailures = 0
    MaxForeign = 0
    Stepper = "valve"
INVARIANT PreviewHasGesture
CHECK_DEADLOCK FALSE
