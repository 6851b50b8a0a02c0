SPECIFICATION FairSpec
CONSTANTS
    Worker = {w1, w2}
    Job = {j1, j2}
    Client = {c1}
    LateClients = FALSE
    Main = Main
    Helper = Helper
    None = None
PROPERTY
    StopReturns
CHECK_DEADLOCK FALSE
