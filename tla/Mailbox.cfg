SPECIFICATION FairSpec
CONSTANTS
    Node = {n1, n2, n3}
    Writer = {w1, w2}
    MaxPush = 4
INVARIANTS
    EveryElementOnce
    OwnershipHandover
PROPERTIES
    ImplementsFifoMailbox
    EveryElementHandled
CHECK_DEADLOCK FALSE
