SPECIFICATION Spec
CONSTANTS
    VAR_STORE_SIZE = 2
    Names <- MCNames
    Values <- MCValues
    FreeName = "none"
    FreeValue <- MCFreeValue
    None = None
    Typed <- MCTyped
    Files <- MCFiles
    MAX_ARGS_SIZE = 4
    Dollar <- MCDollar
    AlphaNum <- MCAlphaNum
    NL = NL
    Hang = Hang
    MaxTyped = 3
CHECK_DEADLOCK FALSE
INVARIANTS TypeOK OnePlace SectionsInOrder QuitIsLast OnlyStrandedWait
PROPERTIES MapSpec Returns
