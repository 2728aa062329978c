SPECIFICATION FairSpec
CONSTANTS
    h1 = h1
    h2 = h2
    Handlers <- TwoHandlers
    Main = Main
    Capacity = 1
INVARIANTS ReturnExplained
PROPERTIES RequestsAnswered StoppedServiceEnds
CHECK_DEADLOCK FALSE
