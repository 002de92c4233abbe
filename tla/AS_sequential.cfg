\* One client thread: the reserve / commit / decommit / release protocol,
\* reservation splitting included, with no interference.
CONSTANTS
    NULL = NULL
    INVALID = INVALID
    t1 = t1
    t2 = t2
    t3 = t3
    h1 = h1
    h2 = h2
    h3 = h3
    NBlocks = 3
    MaxSize = 3
    SharedCommit = FALSE
    Readers = {}
    Threads <- OneThread
    Handles <- TwoHandles
SPECIFICATION Spec
INVARIANT TypeOK
INVARIANT DirectoryConsistent
INVARIANT NoFault
INVARIANT HandlesAccounted
PROPERTY Termination
VIEW StateView
