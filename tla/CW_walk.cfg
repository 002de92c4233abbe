\* Every call MemoryWindows::copy can reach at line 366 in four blocks of
\* four bytes, sizes up to three blocks, both walk directions and the
\* physical path without RELEASE.
CONSTANTS
    NB = 4
    G = 4
    MaxSize = 12
    WordBits = 5
    NoAccess = NoAccess
    Garbage = Garbage
    RESERVED = RESERVED
    FREE = FREE
    PhysRelease = FALSE
INIT Init
NEXT Next
INVARIANT NoError OutsideKept
CHECK_DEADLOCK FALSE
