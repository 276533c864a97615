SPECIFICATION Spec
CONSTANTS
    FRAME_STORE_SIZE = 6
    VAR_STORE_SIZE = 2
    Scripts <- MCPlain
    Typed <- MCTyped
    MaxScripts = 3
    MaxPid = 1
    None = none
    x = x
PROPERTY
    VarsUntouched
