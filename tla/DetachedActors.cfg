SPECIFICATION Spec
CONSTANTS
    Blocking = {b, c}
    Evented = {e}
    Hidden = {c}
    Roots = {c, e}
    Awaiting = {c}
    MaxSend = 1
INVARIANTS
    JobSlotFree
    PopFindsMessage
    ThreadsJoined
    CountCoversThreads
PROPERTIES
    MailboxesRunEmpty
    ShutdownEnds
CHECK_DEADLOCK FALSE
