SPECIFICATION Spec
CONSTANTS
    Workers = 2
    Note = {n1, n2}
    Request = {r1}
    Infinite = {}
    Control = {"kill"}
    Mode = {"once_weak", "repeat_strong"}
    MaxThroughput = 2
    MaxTimeout = 1
INVARIANTS
    EachMessageOnce
    NotesInOrder
    SleeperHasTimer
CHECK_DEADLOCK FALSE
