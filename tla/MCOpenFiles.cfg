SPECIFICATION Spec
CONSTANTS
    Names <- MCNames
    Paths <- MCPaths
    RmPaths <- MCRmPaths
    block_size = 6
    ELEM_BITS = 2
    BITMAP_ERROR = BITMAP_ERROR
    head = head
    tail = tail
    None = None
    Freed = Freed
    Cwd = Cwd
CHECK_DEADLOCK FALSE
INVARIANTS TypeOK ListsWhole CountsExact HandlesListed MapAgrees
PROPERTY OthersStayOpen
