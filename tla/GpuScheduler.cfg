SPECIFICATION FairSpec
CONSTANTS
    Device = {d1, d2}
    Launch = {1, 2, 3, 4}
    Memory = {5}
    NumStreams = 2
    StreamDepth = 1
    None = None
INVARIANTS
    EachTokenOnce
    WorkConserving
    OneStealRequest
PROPERTIES
    EveryLaunchRuns
    StealingGoesOn
CHECK_DEADLOCK FALSE
