SPECIFICATION FairSpec
CONSTANTS
    NumWorkers = 2
    Job = {j1, j2}
    Client = {c1}
    LateClients = TRUE
    Main = Main
    Helper = Helper
    None = None
INVARIANTS
    RefsCover
    NoLostNotification
    StopProtocol
PROPERTIES
    ImplementsJobPool
    StopReturns
    EveryJobTaken
CHECK_DEADLOCK FALSE
