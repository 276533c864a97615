CONSTANTS
    Frames = 3
    Scripts <- MCPlain
    MaxScripts = 3
    MaxPid = 3
    None = None
SPECIFICATION Spec
PROPERTY EvictsLeastRecent
