SPECIFICATION Spec
CONSTANTS
    FRAME_STORE_SIZE = 12
    VAR_STORE_SIZE = 2
    Scripts <- MCScripts
    Typed <- MCTyped
    MaxScripts = 3
    MaxPid = 3
    None = none
    x = x
INVARIANTS
    TypeOK
    InOrder
    RunsWhole
    FramesOwned
    RoundRobin
PROPERTIES
    KeepsUnread
    ExecReturns
