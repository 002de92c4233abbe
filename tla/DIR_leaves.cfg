\* Two threads, two leaves sharing one page of leaf pointers, two entry
\* pages per leaf, two view addresses: leaf CAS races, losers unmapping,
\* NO_MEMORY from MapViewOfFile, lookups of held and released blocks.
CONSTANTS
    NULL = NULL
    INVALID = INVALID
    t1 = t1
    t2 = t2
    v1 = v1
    v2 = v2
    Threads <- MCThreads
    Views <- MCViews
    NLeaves = 2
    PtrsPerPage = 2
    EntryPages = 2
    WildPointers = FALSE
SPECIFICATION Spec
INVARIANT TypeOK
INVARIANT NoFault
INVARIANT ViewsAccounted
INVARIANT Found
VIEW StateView
