SPECIFICATION FairSpec
CONSTANTS
    d1 = d1
    d2 = d2
    d3 = d3
    r1 = r1
    r2 = r2
    r3 = r3
    r4 = r4
    r5 = r5
    r6 = r6
    r7 = r7
    r8 = r8
    Device = {d1, d2}
    Request = {r1, r2, r3, r4, r5, r6, r7, r8}
    Target <- MCTarget
    Size <- MCSize
    Memory <- MCMemory
INVARIANTS
    MemoryConserved
    HeadDoesNotFit
PROPERTY
    EveryRequestGranted
CHECK_DEADLOCK FALSE
