SPECIFICATION Spec
CONSTANTS
    Workers = 2
    Note = {n1}
    Request = {r1, r2}
    Infinite = {r2}
    Control = {"exit"}
    Mode = {"once_weak"}
    MaxThroughput = 2
    MaxTimeout = 1
PROPERTIES
    RequestConcluded
    NoteAnswered
CHECK_DEADLOCK FALSE
