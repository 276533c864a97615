CONSTANTS
    Frames = 2
    Scripts <- MCPlain
    MaxScripts = 2
    MaxPid = 2
    None = None
SPECIFICATION Spec
INVARIANT ValidPages
