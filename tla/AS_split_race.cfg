\* Two threads working on different blocks of one two-block reservation:
\* a commit of one block against a release or commit of the other, and a
\* third thread reading the state of a block meanwhile.
CONSTANTS
    NULL = NULL
    INVALID = INVALID
    t1 = t1
    t2 = t2
    t3 = t3
    h1 = h1
    h2 = h2
    h3 = h3
    Threads <- ThreeThreads
    Handles <- TwoHandles
    NBlocks = 2
    MaxSize = 2
    SharedCommit = TRUE
    Readers = {t3}
SPECIFICATION Spec
INVARIANT NoFault
SYMMETRY Symmetry
VIEW StateView
