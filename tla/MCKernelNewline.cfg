SPECIFICATION Spec
CONSTANTS
    FRAME_STORE_SIZE = 12
    VAR_STORE_SIZE = 2
    Scripts <- MCNewline
    Typed <- MCTyped
    MaxScripts = 3
    MaxPid = 1
    None = none
    x = x
PROPERTY
    ExecReturns
