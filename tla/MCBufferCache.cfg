SPECIFICATION Spec
CONSTANTS
    BUFFER_CACHE_SIZE = 2
    Sectors <- MCSectors
    Data = {zeros, d1}
    Zeros = zeros
INVARIANTS
    TypeOK
    OneCopy
    CleanIsOnDisk
PROPERTY
    StoreSpec
