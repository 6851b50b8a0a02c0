SPECIFICATION FairSpec
CONSTANTS
    Worker = {w1, w2, w3}
    Job = {j1, j2, j3}
    Client = {c1}
    LateClients = TRUE
    Main = Main
    Helper = Helper
    None = None
INVARIANTS
    NoSleeperForgotten
PROPERTIES
    ImplementsJobPool
    EveryJobTaken
CHECK_DEADLOCK FALSE
