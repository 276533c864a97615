SPECIFICATION Spec
CONSTANTS
    n1 = n1
    n2 = n2
    Nul = nul
    None = none
    BLOCK_SECTOR_SIZE = 2
    DIRECT_BLOCKS_COUNT = 1
    INDIRECT_BLOCKS_PER_SECTOR = 1
    block_size = 12
    MetaSectors = 4
    Entries = 2
    Names <- MCNames
    Sizes = {3}
    Texts = {2}
    Positions = {1}
    HostSizes = {5}
    MaxLength = 6
    MinPos = 0
    MaxFailures = 1
    MaxRecovered = 0
INVARIANT
    FreeMapKept
CHECK_DEADLOCK FALSE
