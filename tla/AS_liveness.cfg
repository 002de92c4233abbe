\* Two client threads and a third that only reads block states, on one
\* block: every call, Block::state() included, returns once the other
\* threads stop calling, and state() never ends its loop on a half-done
\* commit.  No symmetry: it is unsound for liveness.
CONSTANTS
    NULL = NULL
    INVALID = INVALID
    t1 = t1
    t2 = t2
    t3 = t3
    h1 = h1
    h2 = h2
    h3 = h3
    Threads <- ThreeThreads
    Handles <- OneHandle
    NBlocks = 1
    MaxSize = 1
    SharedCommit = FALSE
    Readers = {t3}
SPECIFICATION Spec
INVARIANT StateSound
PROPERTY Termination
VIEW StateView
