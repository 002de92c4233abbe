\* The physical path with RELEASE: destination and source at different
\* offsets in their blocks.
CONSTANTS
    NB = 3
    G = 4
    MaxSize = 8
    WordBits = 5
    NoAccess = NoAccess
    Garbage = Garbage
    RESERVED = RESERVED
    FREE = FREE
    PhysRelease = TRUE
INIT Init
NEXT Next
INVARIANT PhysCopied
CHECK_DEADLOCK FALSE
