\* Two client threads, one-block reservations, commits by any thread:
\* CAS races on the directory, retry loops against each other, handles.
CONSTANTS
    NULL = NULL
    INVALID = INVALID
    t1 = t1
    t2 = t2
    t3 = t3
    h1 = h1
    h2 = h2
    h3 = h3
    Threads <- TwoThreads
    Handles <- TwoHandles
    NBlocks = 2
    MaxSize = 1
    SharedCommit = TRUE
    Readers = {}
SPECIFICATION Spec
INVARIANT DirectoryConsistent
INVARIANT NoFault
INVARIANT HandlesAccounted
SYMMETRY Symmetry
VIEW StateView
