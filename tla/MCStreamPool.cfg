SPECIFICATION Spec
CONSTANTS
    Actor = {a1, a2, a3, a4, a5, a6}
    Thread = {t1, t2}
    InitialSize = 1
    MaxSize = 3
    NoActor = NoActor
SYMMETRY Symmetry
INVARIANTS
    ExclusiveWhileRoom
    QueueBounded
PROPERTY
    StableMapping
