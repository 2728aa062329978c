SPECIFICATION FairSpec
CONSTANTS
    CommandTypes <- LinkTypes
    Values <- OneValue
    InitialValue = 1
    OutOfRange = 3
    MaxCommands = 2
    MaxFailures = 1
    MaxForeign = 1
INVARIANTS CommandsInOrder FreshAfterReceipt
PROPERTIES SnapshotsInServerOrder EveryCommandAnswered Converges
CHECK_DEADLOCK FALSE
