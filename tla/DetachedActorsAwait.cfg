SPECIFICATION Spec
CONSTANTS
    Blocking = {b}
    Evented = {e}
    Hidden = {}
    Roots = {b, e}
    Awaiting = {b}
    MaxSend = 2
PROPERTY
    AwaitOthersReturns
CHECK_DEADLOCK FALSE
