\* Clients look up addresses nobody reserved: check_allocated of a
\* pointer into a leaf whose entry page was never committed.
CONSTANTS
    NULL = NULL
    INVALID = INVALID
    t1 = t1
    t2 = t2
    v1 = v1
    v2 = v2
    Threads <- MCThreads
    Views <- MCViews
    NLeaves = 2
    PtrsPerPage = 2
    EntryPages = 2
    WildPointers = TRUE
SPECIFICATION Spec
INVARIANT NoFault
VIEW StateView
