CONSTANTS
  NBlocks = 2
  PagesPerBlock = 2
  PageSize = 2
  Handles = {h1, h2}
  Vals = {0, 1}
  Zero = 0
  NULL = NULL
  INVALID = INVALID
  NoData = NoData
  Garbage = Garbage
  NoAccess = NoAccess
  Requests <- PageRanges
  CommitRequests <- PageRanges
  CopyOntoShared = FALSE
  DecommitUncommitted = FALSE
  ShareReadOnly = TRUE
  PartialMoves = FALSE
  RejectedCalls = FALSE
SPECIFICATION Spec
VIEW StateView
SYMMETRY Symmetry
INVARIANT WriteThroughExclusive
