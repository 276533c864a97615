SPECIFICATION Spec
CONSTANTS
    n1 = n1
    n2 = n2
    Nul = nul
    None = none
    BLOCK_SECTOR_SIZE = 2
    DIRECT_BLOCKS_COUNT = 1
    INDIRECT_BLOCKS_PER_SECTOR = 2
    block_size = 14
    MetaSectors = 4
    Entries = 6
    Names <- MCNames
    Sizes = {3, 8}
    Texts = {5}
    Positions = {1}
    HostSizes = {9}
    MaxLength = 8
    MinPos = 0
    MaxFailures = 1
    MaxRecovered = 1
INVARIANTS
    TypeOK
    Owned
    NoLeak
    EndsWithZero
    Defragmented
    CopyFits
PROPERTIES
    FileStoreSpec
    RecoverFinds
SYMMETRY
    MCSymmetry
CHECK_DEADLOCK FALSE
