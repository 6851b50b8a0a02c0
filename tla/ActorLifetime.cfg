SPECIFICATION Spec
CONSTANTS
    Actor = {1, 2}
    Thread = {t1, t2}
    MaxUse = 6
INVARIANTS
    DestroyedLast
    NoLeak
    LinksMutual
    ObserversTold
    NoStandoff
CHECK_DEADLOCK FALSE
