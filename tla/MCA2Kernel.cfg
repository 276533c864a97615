CONSTANTS
    Frames = 3
    Scripts <- MCScripts
    MaxScripts = 3
    MaxPid = 3
    None = None
SPECIFICATION Spec
INVARIANTS TypeOK InOrder RunsAll FrameWhole QueueSound ReadPagesStay
PROPERTY ExecReturns
